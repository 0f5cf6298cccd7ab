------------------------ MODULE SxeContainersProofs -------------------------
(***************************************************************************)
(* The containers: the ring buffer, the memory that threads leave behind,  *)
(* the counted strings and the hash.                                       *)
(***************************************************************************)
EXTENDS SxeRingBuffer, SxeThreadMemory, SxeStrings, SxeHash, FiniteSetTheorems, SequenceTheorems,
        WellFoundedInduction, TLAPS

-----------------------------------------------------------------------------
(* A reader of the ring that is not told of an overrun reads the stream,   *)
(* for a ring of any size and any sequence of writes, wraps and reads.     *)

\* The head is inside the array and what was written in its iteration reaches
\* at least up to it.
RingTypeOK ==
    /\ current \in 0 .. END
    /\ writen_end \in Int /\ current - 1 <= writen_end /\ writen_end <= END
    /\ iteration \in Nat /\ written \in Nat
    /\ cells \in [0 .. END -> Int]
    /\ itteration \in Nat /\ data_block \in Int /\ data_block_len \in Int /\ pos \in Int

\* The cells below the head hold the last bytes of the stream, and those from
\* the head to writen_end the bytes before them, from the iteration before.
LapsHold ==
    /\ \A c \in 0 .. current - 1 : cells[c] = written - current + 1 + c
    /\ iteration > 0 => \A c \in current .. writen_end : cells[c] = written - current - writen_end + c

\* Where a reader may be that is not behind: below the head in the head's
\* iteration, or at or above it in the one before; pos is the byte it is at.
InStep ==
    \/ /\ itteration = iteration
       /\ data_block \in 0 .. current /\ data_block_len \in 0 .. current - data_block
       /\ pos = written + 1 - (current - data_block)
    \/ /\ iteration = itteration + 1
       /\ data_block \in current .. writen_end + 1 /\ data_block_len \in 0 .. writen_end + 1 - data_block
       /\ pos = written - current - writen_end + data_block

\* The overrun test of sxe_ring_buffer_check_over_run finds every reader that
\* is anywhere else.
ReaderFound == astray \/ Behind \/ InStep

RingInv == RingTypeOK /\ LapsHold /\ ReaderFound /\ RingAssertionsHold

-----------------------------------------------------------------------------
(* What the writer does to the cells.                                      *)

\* The remainder of a number that is less than twice the divisor.
LEMMA Remainder ==
    ASSUME NEW n \in Nat \ {0}, NEW x \in Nat, x < 2 * n
    PROVE  x % n = IF x < n THEN x ELSE x - n
<1>1. x < n => x % n = x
  OBVIOUS
<1>2. x >= n => x % n = x - n
  OBVIOUS
<1> QED
  BY <1>1, <1>2

\* The bytes stored are at the head and, over the end, at the array's start.
LEMMA StoredCells ==
    ASSUME RingTypeOK, NEW len \in 0 .. Size, Store(len)
    PROVE  /\ written' = written + len
           /\ cells' \in [0 .. END -> Int]
           /\ \A c \in 0 .. END :
                 cells'[c] = IF current <= c /\ c < current + len THEN written + 1 + c - current
                             ELSE IF c < current + len - Size /\ c < current THEN written + 1 + c - current + Size
                             ELSE cells[c]
<1> USE SizeAssumption DEF END
<1> DEFINE k(c) == (c - current + Size) % Size
<1>1. \A c \in 0 .. END : k(c) = IF c < current THEN c - current + Size ELSE c - current
  <2> SUFFICES ASSUME NEW c \in 0 .. END PROVE k(c) = IF c < current THEN c - current + Size ELSE c - current
    OBVIOUS
  <2> DEFINE x == c - current + Size
  <2>1. x \in Nat /\ x < 2 * Size /\ (x < Size <=> c < current) /\ x - Size = c - current
    BY DEF RingTypeOK
  <2> HIDE DEF x
  <2>2. x % Size = IF x < Size THEN x ELSE x - Size
    BY <2>1, Remainder
  <2> QED
    BY <2>1, <2>2 DEF x
<1>2. cells' = [c \in 0 .. END |-> IF k(c) < len THEN written + 1 + k(c) ELSE cells[c]] /\ written' = written + len
  BY DEF Store
<1> HIDE DEF k
<1>3. \A c \in 0 .. END : k(c) \in Int
  BY <1>1 DEF RingTypeOK
<1>4. cells' \in [0 .. END -> Int]
  BY <1>2, <1>3 DEF RingTypeOK
<1>5. ASSUME NEW c \in 0 .. END
      PROVE  cells'[c] = IF current <= c /\ c < current + len THEN written + 1 + c - current
                         ELSE IF c < current + len - Size /\ c < current THEN written + 1 + c - current + Size
                         ELSE cells[c]
  <2>1. cells'[c] = IF k(c) < len THEN written + 1 + k(c) ELSE cells[c]
    BY <1>2
  <2>2. k(c) = IF c < current THEN c - current + Size ELSE c - current
    BY <1>1
  <2>3. current \in Int /\ written \in Int /\ len \in Int /\ c \in Int
    BY DEF RingTypeOK
  <2> QED
    BY <2>1, <2>2, <2>3
<1> QED
  BY <1>2, <1>4, <1>5

\* The head moves on inside the array.
LEMMA HeadMovesOn ==
    ASSUME RingTypeOK, LapsHold, NEW len \in 0 .. Size, Store(len), current + len < Size,
           current' = current + len, writen_end' = IF writen_end < current' THEN current' - 1 ELSE writen_end,
           iteration' = iteration
    PROVE  /\ current' \in 0 .. END
           /\ writen_end' \in Int /\ current' - 1 <= writen_end' /\ writen_end' <= END
           /\ LapsHold'
<1> USE SizeAssumption DEF END
<1>1. current \in Int /\ writen_end \in Int /\ written \in Int
  BY DEF RingTypeOK
<1>2. \A c \in 0 .. END : cells'[c] = IF current <= c /\ c < current + len THEN written + 1 + c - current ELSE cells[c]
  BY <1>1, StoredCells
<1>3. current' \in 0 .. END /\ writen_end' \in Int /\ current' - 1 <= writen_end' /\ writen_end' <= END
  BY DEF RingTypeOK
<1>4. written' = written + len
  BY DEF Store
<1>5. ASSUME NEW c \in 0 .. current' - 1 PROVE cells'[c] = written' - current' + 1 + c
  <2>1. c \in 0 .. END
    BY <1>3
  <2>2. c < current => cells[c] = written - current + 1 + c
    BY <1>1 DEF LapsHold
  <2> QED
    BY <1>1, <1>2, <1>4, <2>1, <2>2
<1>6. ASSUME iteration' > 0, NEW c \in current' .. writen_end' PROVE cells'[c] = written' - current' - writen_end' + c
  <2>1. writen_end' = writen_end /\ c \in 0 .. END /\ c \in current .. writen_end /\ ~(c < current + len)
    BY <1>1, <1>3, <1>6
  <2>2. cells[c] = written - current - writen_end + c
    BY <1>6, <2>1 DEF LapsHold
  <2> QED
    BY <1>1, <1>2, <1>4, <2>1, <2>2
<1>7. LapsHold'
  BY <1>5, <1>6 DEF LapsHold
<1> QED
  BY <1>3, <1>7

\* The head wraps: what was below it is now the iteration before.
LEMMA HeadWraps ==
    ASSUME RingTypeOK, LapsHold, NEW len \in 0 .. Size, Store(len), current + len >= Size,
           current' = current + len - Size, writen_end' = END, iteration' = iteration + 1
    PROVE  /\ current' \in 0 .. current
           /\ LapsHold'
<1> USE SizeAssumption DEF END
<1>1. current \in Int /\ writen_end \in Int /\ written \in Int
  BY DEF RingTypeOK
<1>2. \A c \in 0 .. END : cells'[c] = IF current <= c THEN written + 1 + c - current
                                      ELSE IF c < current' THEN written + 1 + c - current + Size
                                      ELSE cells[c]
  BY <1>1, StoredCells
<1>3. current' \in 0 .. current /\ current <= END
  BY DEF RingTypeOK
<1>4. written' = written + len
  BY DEF Store
<1>5. \A c \in 0 .. current - 1 : cells[c] = written - current + 1 + c
  BY DEF LapsHold
<1>6. ASSUME NEW c \in 0 .. current' - 1 PROVE cells'[c] = written' - current' + 1 + c
  BY <1>1, <1>2, <1>3, <1>4
<1>7. ASSUME NEW c \in current' .. writen_end' PROVE cells'[c] = written' - current' - writen_end' + c
  <2>1. c \in 0 .. END /\ ~(c < current')
    BY <1>1, <1>3
  <2>2. CASE current <= c
    BY <1>1, <1>2, <1>4, <2>1, <2>2
  <2>3. CASE c < current
    <3>1. c \in 0 .. current - 1
      BY <1>1, <2>1, <2>3
    <3>2. cells'[c] = written - current + 1 + c
      BY <1>1, <1>2, <1>5, <2>1, <2>3, <3>1
    <3> QED
      BY <1>1, <1>4, <3>2
  <2> QED
    BY <1>1, <2>1, <2>2, <2>3
<1>8. LapsHold'
  BY <1>6, <1>7 DEF LapsHold
<1> QED
  BY <1>3, <1>8

-----------------------------------------------------------------------------
(* The writer's steps: the reader stays in step or falls behind.           *)

\* A reader that is behind stays behind as the head moves.
LEMMA BehindStays ==
    ASSUME RingTypeOK, Behind, UNCHANGED <<itteration, data_block>>, current' \in Int,
           \/ iteration' = iteration /\ current' >= current
           \/ iteration' = iteration + 1
    PROVE  Behind'
  BY DEF RingTypeOK, Behind

LEMMA MoveOnKeeps ==
    ASSUME RingInv, NEW len \in 0 .. Size, Store(len), current + len < Size,
           current' = current + len, writen_end' = IF writen_end < current' THEN current' - 1 ELSE writen_end,
           iteration' = iteration, UNCHANGED <<context, aborted>>
    PROVE  RingInv'
<1> USE SizeAssumption
<1>1. RingTypeOK /\ LapsHold /\ ReaderFound /\ RingAssertionsHold
  BY DEF RingInv
<1>2. /\ current' \in 0 .. END
      /\ writen_end' \in Int /\ current' - 1 <= writen_end' /\ writen_end' <= END
      /\ LapsHold'
  BY <1>1, HeadMovesOn
<1>3. written' = written + len /\ cells' \in [0 .. END -> Int]
  BY <1>1, StoredCells
<1>4. UNCHANGED <<itteration, data_block, data_block_len, pos, state, astray>>
  BY DEF context
<1>5. RingTypeOK'
  BY <1>1, <1>2, <1>3, <1>4 DEF RingTypeOK
<1>6. Behind => Behind'
  BY <1>1, <1>4, BehindStays DEF RingTypeOK
<1>7. ASSUME InStep PROVE Behind' \/ InStep'
  <2>1. CASE itteration = iteration
    BY <1>1, <1>3, <1>4, <1>7, <2>1 DEF InStep, RingTypeOK
  <2>2. CASE iteration = itteration + 1 /\ current' > data_block
    BY <1>1, <1>4, <2>2 DEF Behind, RingTypeOK
  <2>3. CASE iteration = itteration + 1 /\ ~(current' > data_block)
    <3>1. /\ data_block \in current .. writen_end + 1 /\ data_block_len \in 0 .. writen_end + 1 - data_block
          /\ pos = written - current - writen_end + data_block
      BY <1>1, <1>7, <2>3 DEF InStep, RingTypeOK
    <3>2. current \in Int /\ writen_end \in Int /\ written \in Int /\ data_block \in Int
      BY <1>1 DEF RingTypeOK
    <3>3. writen_end' = writen_end
      BY <2>3, <3>1, <3>2
    <3>4. data_block \in current' .. writen_end' + 1 /\ pos = written' - current' - writen_end' + data_block
      BY <1>3, <2>3, <3>1, <3>2, <3>3
    <3> QED
      BY <1>4, <2>3, <3>1, <3>3, <3>4 DEF InStep
  <2> QED
    BY <1>7, <2>1, <2>2, <2>3 DEF InStep
<1>8. ReaderFound'
  BY <1>1, <1>4, <1>6, <1>7 DEF ReaderFound
<1> QED
  BY <1>1, <1>2, <1>4, <1>5, <1>8 DEF RingInv, RingAssertionsHold

LEMMA WrapKeeps ==
    ASSUME RingInv, NEW len \in 0 .. Size, Store(len), current + len >= Size,
           current' = current + len - Size, writen_end' = END, iteration' = iteration + 1, UNCHANGED <<context, aborted>>
    PROVE  RingInv'
<1> USE SizeAssumption DEF END
<1>1. RingTypeOK /\ LapsHold /\ ReaderFound /\ RingAssertionsHold
  BY DEF RingInv
<1>2. current' \in 0 .. current /\ LapsHold'
  BY <1>1, HeadWraps
<1>3. written' = written + len /\ cells' \in [0 .. END -> Int]
  BY <1>1, StoredCells
<1>4. UNCHANGED <<itteration, data_block, data_block_len, pos, state, astray>>
  BY DEF context
<1>5. RingTypeOK'
  BY <1>1, <1>2, <1>3, <1>4 DEF RingTypeOK
<1>6. Behind => Behind'
  BY <1>1, <1>4, BehindStays DEF RingTypeOK
<1>7. ASSUME InStep PROVE Behind' \/ InStep'
  <2>1. CASE iteration = itteration + 1
    BY <1>1, <1>4, <2>1 DEF Behind, RingTypeOK
  <2>2. CASE itteration = iteration /\ current' > data_block
    BY <1>1, <1>4, <2>2 DEF Behind, RingTypeOK
  <2>3. CASE itteration = iteration /\ ~(current' > data_block)
    BY <1>1, <1>3, <1>4, <1>7, <2>3 DEF InStep, RingTypeOK
  <2> QED
    BY <1>7, <2>1, <2>2, <2>3 DEF InStep
<1>8. ReaderFound'
  BY <1>1, <1>4, <1>6, <1>7 DEF ReaderFound
<1> QED
  BY <1>1, <1>2, <1>4, <1>5, <1>8 DEF RingInv, RingAssertionsHold

LEMMA ForceWrapKeeps ==
    ASSUME RingInv, ForceWrap, UNCHANGED <<cells, written, context, aborted>>
    PROVE  RingInv'
<1> USE SizeAssumption DEF END
<1>1. RingTypeOK /\ LapsHold /\ ReaderFound /\ RingAssertionsHold
  BY DEF RingInv
<1>2. /\ writen_end' = current - 1 /\ current' = 0 /\ iteration' = iteration + 1
      /\ UNCHANGED <<cells, written, itteration, data_block, data_block_len, pos, state, astray, aborted>>
  BY DEF ForceWrap, context
<1>3. RingTypeOK'
  BY <1>1, <1>2 DEF RingTypeOK
<1>4. LapsHold'
  BY <1>1, <1>2 DEF LapsHold, RingTypeOK
<1>5. Behind => Behind'
  BY <1>1, <1>2, BehindStays DEF RingTypeOK
<1>6. ASSUME InStep PROVE Behind' \/ InStep'
  <2>1. CASE iteration = itteration + 1
    BY <1>1, <1>2, <2>1 DEF Behind, RingTypeOK
  <2>2. CASE itteration = iteration
    BY <1>1, <1>2, <1>6, <2>2 DEF InStep, RingTypeOK
  <2> QED
    BY <1>6, <2>1, <2>2 DEF InStep
<1>7. ReaderFound'
  BY <1>1, <1>2, <1>5, <1>6 DEF ReaderFound
<1> QED
  BY <1>1, <1>2, <1>3, <1>4, <1>7 DEF RingInv, RingAssertionsHold

\* Steps that change neither the ring nor the reader.
LEMMA IdleKeeps ==
    ASSUME RingInv, UNCHANGED <<ring, context, aborted>>
    PROVE  RingInv'
  BY DEF RingInv, ring, context, RingTypeOK, LapsHold, ReaderFound, Behind, InStep, RingAssertionsHold

LEMMA WriterKeeps ==
    ASSUME RingInv,
           \/ \E len \in 0 .. Size : sxe_ring_buffer_add(len) \/ sxe_ring_buffer_wrote_block(len)
           \/ sxe_ring_buffer_next_writable_block
           \/ \E size \in 0 .. Size : sxe_ring_buffer_next_writable_block_size(size)
           \/ sxe_ring_buffer_force_ring_wrap
    PROVE  RingInv'
<1> USE SizeAssumption
<1>1. current \in Int /\ current < Size
  BY DEF RingInv, RingTypeOK, END
<1>2. ASSUME NEW len \in 0 .. Size, Store(len), Advance(len), len <= Size - current, UNCHANGED <<context, aborted>> PROVE RingInv'
  <2>1. CASE current + len = Size
    <3>1. current' = current + len - Size /\ writen_end' = END /\ iteration' = iteration + 1
      BY <1>1, <1>2, <2>1 DEF Advance
    <3> QED
      BY <1>1, <1>2, <2>1, <3>1, WrapKeeps
  <2>2. CASE current + len < Size
    <3>1. /\ current' = current + len /\ writen_end' = IF writen_end < current' THEN current' - 1 ELSE writen_end
          /\ iteration' = iteration
      BY <1>1, <1>2, <2>2 DEF Advance
    <3> QED
      BY <1>2, <2>2, <3>1, MoveOnKeeps
  <2> QED
    BY <1>1, <1>2, <2>1, <2>2
<1>3. ASSUME NEW len \in 0 .. Size, sxe_ring_buffer_add(len) PROVE RingInv'
  <2>1. CASE Size - current >= len
    BY <1>1, <1>2, <1>3, <2>1 DEF sxe_ring_buffer_add
  <2>2. CASE ~(Size - current >= len)
    <3>1. /\ Store(len) /\ writen_end' = END /\ iteration' = iteration + 1 /\ current' = current + len - Size
          /\ UNCHANGED <<context, aborted>>
      BY <1>1, <1>3, <2>2 DEF sxe_ring_buffer_add
    <3> QED
      BY <1>1, <2>2, <3>1, WrapKeeps
  <2> QED
    BY <2>1, <2>2
<1>4. ASSUME NEW len \in 0 .. Size, sxe_ring_buffer_wrote_block(len) PROVE RingInv'
  BY <1>2, <1>4 DEF sxe_ring_buffer_wrote_block
<1>5. ASSUME NEW size \in 0 .. Size, sxe_ring_buffer_next_writable_block_size(size) PROVE RingInv'
  <2>1. CASE Size - current < size
    BY <1>5, <2>1, ForceWrapKeeps DEF sxe_ring_buffer_next_writable_block_size
  <2>2. CASE ~(Size - current < size)
    BY <1>5, <2>2, IdleKeeps DEF sxe_ring_buffer_next_writable_block_size, ring
  <2> QED
    BY <2>1, <2>2
<1>6. ASSUME sxe_ring_buffer_next_writable_block PROVE RingInv'
  BY <1>6, IdleKeeps DEF sxe_ring_buffer_next_writable_block
<1>7. ASSUME sxe_ring_buffer_force_ring_wrap PROVE RingInv'
  BY <1>7, ForceWrapKeeps DEF sxe_ring_buffer_force_ring_wrap
<1> QED
  BY <1>3, <1>4, <1>5, <1>6, <1>7

-----------------------------------------------------------------------------
(* The reader's steps.                                                     *)

\* A reader's step leaves the ring alone, so that its own place decides.
LEMMA ReaderStep ==
    ASSUME RingInv, UNCHANGED ring,
           itteration' \in Nat, data_block' \in Int, data_block_len' \in Int, pos' \in Int,
           astray' \/ (InStep' /\ ~aborted')
    PROVE  RingInv'
<1>1. RingTypeOK' /\ LapsHold'
  BY DEF RingInv, ring, RingTypeOK, LapsHold
<1> QED
  BY <1>1 DEF RingInv, ReaderFound, RingAssertionsHold

LEMMA OverrunKeeps == ASSUME RingInv, ~aborted, Overrun PROVE RingInv'
<1>1. /\ UNCHANGED ring /\ itteration' = iteration /\ data_block' = current /\ data_block_len' = 0
      /\ pos' = written + 1 /\ ~astray' /\ ~aborted'
  BY DEF Overrun, RingInv, RingTypeOK
<1>2. current \in Nat /\ iteration \in Nat /\ written \in Nat
  BY DEF RingInv, RingTypeOK
<1>3. InStep'
  BY <1>1, <1>2 DEF InStep, ring
<1> QED
  BY <1>1, <1>2, <1>3, ReaderStep

LEMMA JoinKeeps ==
    ASSUME RingInv, NEW replay_half \in BOOLEAN, sxe_ring_buffer_join(replay_half)
    PROVE  RingInv'
<1> USE SizeAssumption
<1> DEFINE half == Size \div 2
<1> DEFINE wend == (writen_end + 1) \div 2
<1> DEFINE back == replay_half /\ current < half /\ iteration # 0
<1>1. /\ current \in 0 .. END /\ writen_end \in Int /\ current - 1 <= writen_end /\ writen_end <= END
      /\ iteration \in Nat /\ written \in Nat /\ half \in Nat /\ wend \in Nat
      /\ cells \in [0 .. END -> Int]
  BY DEF RingInv, RingTypeOK
<1>2. /\ itteration' = IF back THEN iteration - 1 ELSE iteration
      /\ data_block' = IF ~replay_half THEN current ELSE IF current >= half THEN current - half
                       ELSE IF iteration = 0 THEN 0 ELSE current + wend
      /\ data_block_len' = 0
      /\ pos' = IF ~back THEN written + 1 - (current - data_block')
                ELSE IF data_block' <= writen_end THEN cells[data_block'] ELSE written + 1 - current
      /\ astray' = (back /\ data_block' > writen_end + 1)
      /\ UNCHANGED ring /\ ~aborted'
  BY DEF sxe_ring_buffer_join, RingInv, RingTypeOK
<1>3. UNCHANGED <<current, writen_end, iteration, cells, written>>
  BY <1>2 DEF ring
<1> HIDE DEF half, wend
<1>4. CASE ~back
  <2>1. itteration' = iteration /\ data_block' \in 0 .. current
    BY <1>1, <1>2, <1>4
  <2>2. pos' = written + 1 - (current - data_block') /\ pos' \in Int
    BY <1>1, <1>2, <1>4, <2>1
  <2>3. data_block_len' \in 0 .. current - data_block'
    BY <1>1, <1>2, <2>1
  <2>4. InStep'
    BY <1>3, <2>1, <2>2, <2>3 DEF InStep
  <2> QED
    BY <1>1, <1>2, <2>1, <2>2, <2>4, ReaderStep
<1>5. CASE back
  <2>1. itteration' \in Nat /\ iteration = itteration' + 1 /\ data_block' = current + wend /\ data_block' \in Nat
    BY <1>1, <1>2, <1>5
  <2>2. CASE data_block' <= writen_end
    <3>1. data_block' \in current .. writen_end /\ data_block' \in 0 .. END
      BY <1>1, <2>1, <2>2 DEF END
    <3>2. cells[data_block'] = written - current - writen_end + data_block'
      BY <1>1, <1>5, <3>1 DEF RingInv, LapsHold
    <3>3. pos' = written - current - writen_end + data_block' /\ pos' \in Int
      BY <1>1, <1>2, <1>5, <2>2, <3>1, <3>2
    <3>4. data_block_len' \in 0 .. writen_end + 1 - data_block' /\ data_block' \in current .. writen_end + 1
      BY <1>1, <1>2, <3>1
    <3>5. InStep'
      BY <1>3, <2>1, <3>3, <3>4 DEF InStep
    <3> QED
      BY <1>2, <1>5, <2>1, <3>3, <3>5, ReaderStep
  <2>3. CASE data_block' = writen_end + 1
    <3>1. pos' = written - current - writen_end + data_block' /\ pos' \in Int
      BY <1>1, <1>2, <1>5, <2>1, <2>3
    <3>2. data_block_len' \in 0 .. writen_end + 1 - data_block' /\ data_block' \in current .. writen_end + 1
      BY <1>1, <1>2, <2>1, <2>3
    <3>3. InStep'
      BY <1>3, <2>1, <3>1, <3>2 DEF InStep
    <3> QED
      BY <1>2, <1>5, <2>1, <3>1, <3>3, ReaderStep
  <2>4. CASE data_block' > writen_end + 1
    <3>1. pos' \in Int
      BY <1>1, <1>2, <1>5, <2>1, <2>4
    <3>2. astray'
      BY <1>2, <1>5, <2>4
    <3> QED
      BY <1>2, <2>1, <3>1, <3>2, ReaderStep
  <2> QED
    BY <1>1, <2>1, <2>2, <2>3, <2>4
<1> QED
  BY <1>4, <1>5

\* The block given ends at the head, or where the reader's iteration ended.
LEMMA NextBlockKeeps == ASSUME RingInv, ~aborted, ~Behind, NextBlock PROVE RingInv'
<1> USE SizeAssumption DEF END
<1>1. /\ current \in 0 .. END /\ writen_end \in Int /\ current - 1 <= writen_end /\ writen_end <= END
      /\ iteration \in Nat /\ written \in Nat
      /\ itteration \in Nat /\ data_block \in Int /\ data_block_len \in Int /\ pos \in Int
      /\ UInt \in Nat /\ UInt > 2 * Size
  BY UIntAssumption DEF RingInv, RingTypeOK
<1>2. UNCHANGED ring /\ ~aborted' /\ (astray' <=> astray) /\ pos' = pos
  BY DEF NextBlock
<1>3. UNCHANGED <<current, writen_end, iteration, written>>
  BY <1>2 DEF ring
<1>4. \A len \in 0 .. Size : len % UInt = len
  BY <1>1
<1>5. \A len \in Int : len % UInt \in Int
  BY <1>1
<1>6. itteration' \in Nat /\ data_block' \in Int /\ data_block_len' \in Int
  <2>1. itteration' \in {itteration, itteration + 1} /\ data_block' \in {data_block, 0}
    BY DEF NextBlock
  <2>2. data_block_len' \in {(current - data_block) % UInt, current % UInt, (writen_end - data_block + 1) % UInt,
                              data_block_len % UInt}
    BY DEF NextBlock, Block
  <2> QED
    BY <1>1, <1>5, <2>1, <2>2
<1>7. CASE astray
  BY <1>1, <1>2, <1>6, <1>7, ReaderStep
<1>8. CASE InStep
  <2>1. CASE current > data_block
    <3>1. itteration' = itteration /\ data_block' = data_block /\ data_block_len' = (current - data_block) % UInt
      BY <2>1 DEF NextBlock, Block
    <3>2. itteration = iteration /\ data_block \in 0 .. current /\ pos = written + 1 - (current - data_block)
      BY <1>1, <1>8, <2>1 DEF InStep
    <3>3. data_block_len' = current - data_block
      BY <1>1, <1>4, <3>1, <3>2
    <3> QED
      BY <1>1, <1>2, <1>3, <1>6, <3>1, <3>2, <3>3, ReaderStep DEF InStep
  <2>2. CASE ~(current > data_block) /\ iteration = itteration + 1 /\ writen_end = data_block - 1
    <3>1. itteration' = itteration + 1 /\ data_block' = 0 /\ data_block_len' = current % UInt
      BY <2>2 DEF NextBlock, Block
    <3>2. pos = written - current - writen_end + data_block
      BY <1>1, <1>8, <2>2 DEF InStep
    <3>3. data_block_len' = current
      BY <1>1, <1>4, <3>1
    <3>4. InStep'
      BY <1>1, <1>2, <1>3, <2>2, <3>1, <3>2, <3>3 DEF InStep
    <3> QED
      BY <1>1, <1>2, <1>6, <3>4, ReaderStep
  <2>3. CASE ~(current > data_block) /\ iteration > itteration /\ ~(iteration = itteration + 1 /\ writen_end = data_block - 1)
    <3>1. itteration' = itteration /\ data_block' = data_block /\ data_block_len' = (writen_end - data_block + 1) % UInt
      BY <2>3 DEF NextBlock, Block
    <3>2. /\ iteration = itteration + 1 /\ data_block \in current .. writen_end + 1
          /\ pos = written - current - writen_end + data_block
      BY <1>1, <1>8, <2>3 DEF InStep
    <3>3. writen_end - data_block + 1 \in 0 .. Size
      BY <1>1, <3>2
    <3>4. data_block_len' = writen_end + 1 - data_block /\ data_block_len' \in 0 .. writen_end + 1 - data_block
      BY <1>1, <1>4, <3>1, <3>2, <3>3
    <3>5. InStep'
      BY <1>2, <1>3, <3>1, <3>2, <3>4 DEF InStep
    <3> QED
      BY <1>1, <1>2, <1>6, <3>5, ReaderStep
  <2>4. CASE ~(current > data_block) /\ ~(iteration > itteration)
    <3>1. itteration' = itteration /\ data_block' = data_block /\ data_block_len' = data_block_len % UInt
      BY <1>1, <2>4 DEF NextBlock, Block
    <3>2. itteration = iteration /\ data_block = current /\ data_block_len = 0 /\ pos = written + 1 - (current - data_block)
      BY <1>1, <1>8, <2>4 DEF InStep
    <3>3. data_block_len' = 0
      BY <1>4, <3>1, <3>2
    <3>4. InStep'
      BY <1>1, <1>2, <1>3, <3>1, <3>2, <3>3 DEF InStep
    <3> QED
      BY <1>1, <1>2, <1>6, <3>4, ReaderStep
  <2> QED
    BY <2>1, <2>2, <2>3, <2>4
<1> QED
  BY <1>7, <1>8 DEF RingInv, ReaderFound

\* The reader stays below writen_end and wraps only with its whole block.
LEMMA ConsumeKeeps ==
    ASSUME RingInv, ~aborted, ~Behind, NEW len \in 0 .. Size, len <= data_block_len, Consume(len)
    PROVE  RingInv'
<1> USE SizeAssumption DEF END
<1> DEFINE to == data_block + len
<1> DEFINE wraps == to = writen_end + 1 /\ to # current
<1>1. /\ current \in 0 .. END /\ writen_end \in Int /\ current - 1 <= writen_end /\ writen_end <= END
      /\ iteration \in Nat /\ written \in Nat
      /\ itteration \in Nat /\ data_block \in Int /\ data_block_len \in Int /\ pos \in Int /\ to \in Int
  BY DEF RingInv, RingTypeOK
<1>2. /\ UNCHANGED ring /\ (astray' <=> astray)
      /\ aborted' <=> to > writen_end + 1 \/ (wraps /\ data_block_len # len)
      /\ data_block' = IF wraps THEN 0 ELSE to
      /\ itteration' = IF wraps THEN itteration + 1 ELSE itteration
      /\ data_block_len' = data_block_len - len
      /\ pos' = pos + len
  BY DEF Consume
<1>3. UNCHANGED <<current, writen_end, iteration, written>>
  BY <1>2 DEF ring
<1>4. itteration' \in Nat /\ data_block' \in Int /\ data_block_len' \in Int /\ pos' \in Int
  BY <1>1, <1>2
<1>5. CASE astray
  BY <1>2, <1>4, <1>5, ReaderStep
<1>6. CASE InStep
  <2>1. CASE itteration = iteration
    <3>1. /\ data_block \in 0 .. current /\ data_block_len \in 0 .. current - data_block
          /\ pos = written + 1 - (current - data_block)
      BY <1>1, <1>6, <2>1 DEF InStep
    <3>2. ~wraps /\ to \in 0 .. current /\ to <= writen_end + 1
      BY <1>1, <3>1
    <3>3. data_block' = to /\ itteration' = itteration
      BY <1>2, <3>2
    <3>4. ~aborted'
      <4>1. ~(to > writen_end + 1)
        BY <1>1, <3>2
      <4> QED
        BY <1>2, <3>2, <4>1
    <3>5. InStep'
      BY <1>1, <1>2, <1>3, <2>1, <3>1, <3>2, <3>3 DEF InStep
    <3> QED
      BY <1>2, <1>4, <3>4, <3>5, ReaderStep
  <2>2. CASE iteration = itteration + 1
    <3>1. /\ data_block \in current .. writen_end + 1 /\ data_block_len \in 0 .. writen_end + 1 - data_block
          /\ pos = written - current - writen_end + data_block
      BY <1>1, <1>6, <2>2 DEF InStep
    <3>2. /\ ~(to > writen_end + 1)
          /\ wraps => data_block_len = len
      BY <1>1, <3>1
    <3>3. ~aborted'
      BY <1>2, <3>2
    <3>4. CASE wraps
      <4>1. data_block' = 0 /\ itteration' = iteration /\ data_block_len' = 0
        BY <1>1, <1>2, <2>2, <3>2, <3>4
      <4>2. pos' = written + 1 - (current - 0)
        BY <1>1, <1>2, <3>1, <3>4
      <4>3. InStep'
        BY <1>1, <1>3, <4>1, <4>2 DEF InStep
      <4> QED
        BY <1>2, <1>4, <3>3, <4>3, ReaderStep
    <3>5. CASE ~wraps
      <4>1. data_block' = to /\ itteration' = itteration
        BY <1>2, <3>5
      <4>2. /\ to \in current .. writen_end + 1 /\ data_block_len' \in 0 .. writen_end + 1 - to
            /\ pos' = written - current - writen_end + to
        BY <1>1, <1>2, <3>1, <3>2
      <4>3. InStep'
        BY <1>3, <2>2, <4>1, <4>2 DEF InStep
      <4> QED
        BY <1>2, <1>4, <3>3, <4>3, ReaderStep
    <3> QED
      BY <3>4, <3>5
  <2> QED
    BY <1>6, <2>1, <2>2 DEF InStep
<1> QED
  BY <1>5, <1>6 DEF RingInv, ReaderFound

-----------------------------------------------------------------------------
LEMMA RingConstructs == ASSUME RingInit PROVE RingInv
<1> USE SizeAssumption DEF END
<1>1. RingTypeOK
  BY DEF RingInit, RingTypeOK
<1>2. LapsHold
  BY DEF RingInit, LapsHold
<1>3. InStep
  BY DEF RingInit, InStep
<1> QED
  BY <1>1, <1>2, <1>3 DEF RingInv, ReaderFound, RingAssertionsHold, RingInit

LEMMA RingStepsKeep == ASSUME RingInv, [RingNext]_ringvars PROVE RingInv'
<1>1. CASE UNCHANGED ringvars
  BY <1>1, IdleKeeps DEF ringvars
<1>2. ASSUME NEW replay_half \in BOOLEAN, sxe_ring_buffer_join(replay_half) PROVE RingInv'
  BY <1>2, JoinKeeps
<1>3. CASE sxe_ring_buffer_next_block
  BY <1>3, OverrunKeeps, NextBlockKeeps DEF sxe_ring_buffer_next_block
<1>4. ASSUME NEW len \in 0 .. Size, sxe_ring_buffer_consumed(len) PROVE RingInv'
  BY <1>4, OverrunKeeps, ConsumeKeeps DEF sxe_ring_buffer_consumed
<1> QED
  BY <1>1, <1>2, <1>3, <1>4, WriterKeeps DEF RingNext

\* A block that the reader was given lies in the cells of one iteration.
LEMMA BlocksAreStream == RingInv => BlockIsStream
<1> USE SizeAssumption DEF END
<1> SUFFICES ASSUME RingInv, ~Behind, ~astray
             PROVE  /\ data_block + data_block_len <= Size
                    /\ \A k \in 0 .. data_block_len - 1 : cells[data_block + k] = pos + k
  BY DEF BlockIsStream
<1>1. /\ current \in 0 .. END /\ writen_end \in Int /\ current - 1 <= writen_end /\ writen_end <= END
      /\ iteration \in Nat /\ written \in Nat
      /\ itteration \in Nat /\ data_block \in Int /\ data_block_len \in Int /\ pos \in Int
  BY DEF RingInv, RingTypeOK
<1>2. InStep /\ LapsHold
  BY DEF RingInv, ReaderFound
<1>3. CASE itteration = iteration
  <2>1. /\ data_block \in 0 .. current /\ data_block_len \in 0 .. current - data_block
        /\ pos = written + 1 - (current - data_block)
    BY <1>1, <1>2, <1>3 DEF InStep
  <2>2. ASSUME NEW k \in 0 .. data_block_len - 1 PROVE cells[data_block + k] = pos + k
    <3>1. data_block + k \in 0 .. current - 1
      BY <1>1, <2>1
    <3>2. cells[data_block + k] = written - current + 1 + (data_block + k)
      BY <1>2, <3>1 DEF LapsHold
    <3> QED
      BY <1>1, <2>1, <3>2
  <2> QED
    BY <1>1, <2>1, <2>2
<1>4. CASE iteration = itteration + 1
  <2>1. /\ data_block \in current .. writen_end + 1 /\ data_block_len \in 0 .. writen_end + 1 - data_block
        /\ pos = written - current - writen_end + data_block
    BY <1>1, <1>2, <1>4 DEF InStep
  <2>2. ASSUME NEW k \in 0 .. data_block_len - 1 PROVE cells[data_block + k] = pos + k
    <3>1. data_block + k \in current .. writen_end /\ iteration > 0
      BY <1>1, <1>4, <2>1
    <3>2. cells[data_block + k] = written - current - writen_end + (data_block + k)
      BY <1>2, <3>1 DEF LapsHold
    <3> QED
      BY <1>1, <2>1, <3>2
  <2> QED
    BY <1>1, <2>1, <2>2
<1> QED
  BY <1>2, <1>3, <1>4 DEF InStep

\* The inductive invariant.
THEOREM RingInvHolds == RingSpec => []RingInv
  BY RingConstructs, RingStepsKeep, PTL DEF RingSpec

\* However the writer wraps, laps and forces the ring, and wherever the reader
\* joins, sxe_ring_buffer_next_block gives the next bytes of the stream, whole
\* and not overwritten, until sxe_ring_buffer_check_over_run objects, and the
\* assertions of sxe_ring_buffer_consumed hold.
THEOREM RingIsSound == RingSpec => []RingSound
<1>1. RingInv => RingSound
  BY BlocksAreStream DEF RingInv, RingSound
<1> QED
  BY <1>1, RingInvHolds, PTL

-----------------------------------------------------------------------------
(* No tracker of sxe-thread-memory.c is lost and no memory is freed while  *)
(* its thread may use it, for any number of threads and allocations.       *)

-----------------------------------------------------------------------------
(* What links lead to.                                                     *)

Pointers == Trackers \cup {NULL}
Links == [Trackers -> Pointers]

\* The links lead from a tracker of X to one of X, or end there.
Closed(link, X) == \A b \in X : link[b] \in X \cup {NULL}

\* Every non-empty set of numbers has a least one.
LEMMA LeastNumber == ASSUME NEW T, T \subseteq Nat, T # {} PROVE \E x \in T : \A y \in T : x <= y
<1>1. PICK x \in T : \A y \in T : ~(<<y, x>> \in OpToRel(<, Nat))
  BY NatLessThanWellFounded, WFMin
<1>2. \A y \in T : ~(y < x)
  BY <1>1 DEF OpToRel
<1> QED
  BY <1>2

\* Chain computes the least closed set that holds a: its recursion has a
\* solution, and by the number of trackers it has stopped growing.
LEMMA ChainIsLeast ==
    ASSUME NEW link \in Links, NEW a \in Pointers
    PROVE  /\ Chain(link, a) \subseteq Trackers
           /\ a # NULL => a \in Chain(link, a)
           /\ Closed(link, Chain(link, a))
           /\ \A X : Closed(link, X) /\ (a # NULL => a \in X) => Chain(link, a) \subseteq X
<1> USE NullAssumption, AddressesAssumption
<1> DEFINE N == Cardinality(Trackers)
<1> DEFINE first == {a} \ {NULL}
<1> DEFINE more(S) == S \cup ({link[b] : b \in S} \ {NULL})
<1> DEFINE step(g, n) == [i \in 0 .. n |-> IF i = 0 THEN first ELSE more(g[i - 1])]
<1> DEFINE reach == CHOOSE g : g = step(g, N)
<1>1. Chain(link, a) = reach[N]
  BY DEF Chain
<1>2. N \in Nat
  BY FS_CardinalityType
<1> HIDE DEF N
<1>3. first \subseteq Trackers /\ (a # NULL => a \in first) /\ (a = NULL => first = {})
  BY DEF Pointers
<1>4. ASSUME NEW S, S \subseteq Trackers PROVE more(S) \subseteq Trackers /\ S \subseteq more(S)
  BY <1>4 DEF Links, Pointers
<1>5. ASSUME NEW S, NEW X, S \subseteq X, Closed(link, X) PROVE more(S) \subseteq X
  BY <1>5 DEF Closed
<1>6. ASSUME NEW S, more(S) = S PROVE Closed(link, S)
  <2>1. \A b \in S : link[b] # NULL => link[b] \in more(S)
    OBVIOUS
  <2> HIDE DEF more
  <2> QED
    BY <1>6, <2>1 DEF Closed
<1> HIDE DEF first, more
<1>7. \E g : g = step(g, N)
  <2> DEFINE T == {n \in 0 .. N : ~\E g : g = step(g, n)}
  <2> SUFFICES ASSUME T # {} PROVE FALSE
    BY <1>2
  <2>1. PICK x \in T : \A y \in T : x <= y
    <3>1. T \subseteq Nat
      OBVIOUS
    <3> HIDE DEF T
    <3> QED
      BY <3>1, LeastNumber
  <2>2. x # 0
    <3>1. [i \in 0 .. 0 |-> first] = step([i \in 0 .. 0 |-> first], 0)
      OBVIOUS
    <3> HIDE DEF step
    <3> QED
      BY <2>1, <3>1
  <2>3. x - 1 \in 0 .. N /\ x \in Nat /\ x - 1 \notin T
    BY <1>2, <2>1, <2>2
  <2>4. PICK g : g = step(g, x - 1)
    BY <2>3
  <2> DEFINE h == [i \in 0 .. x |-> IF i = x THEN more(g[x - 1]) ELSE g[i]]
  <2>5. h = step(h, x)
    <3>1. \A i \in 0 .. x - 1 : g[i] = IF i = 0 THEN first ELSE more(g[i - 1])
      BY <2>4
    <3>2. ASSUME NEW i \in 0 .. x PROVE h[i] = IF i = 0 THEN first ELSE more(h[i - 1])
      <4>1. CASE i = x
        <5>1. h[i] = more(g[x - 1]) /\ h[i - 1] = g[x - 1]
          BY <2>3, <2>2, <4>1
        <5> QED
          BY <2>2, <4>1, <5>1
      <4>2. CASE i # x
        <5>1. i \in 0 .. x - 1 /\ h[i] = g[i] /\ (i # 0 => h[i - 1] = g[i - 1])
          BY <2>3, <4>2
        <5> QED
          BY <3>1, <5>1
      <4> QED
        BY <4>1, <4>2
    <3> HIDE DEF h
    <3>3. h = [i \in 0 .. x |-> h[i]]
      BY DEF h
    <3> QED
      BY <3>2, <3>3
  <2> HIDE DEF h, step
  <2> QED
    BY <2>1, <2>5
<1>8. reach = step(reach, N)
  <2> HIDE DEF step
  <2> QED
    BY <1>7
<1> HIDE DEF reach
<1>9. /\ reach[0] = first
      /\ \A i \in 0 .. N : i # 0 => reach[i] = more(reach[i - 1])
  <2>1. \A i \in 0 .. N : reach[i] = IF i = 0 THEN first ELSE more(reach[i - 1])
    BY <1>8
  <2> QED
    BY <1>2, <2>1
<1>10. \A i \in 0 .. N : reach[i] \subseteq Trackers
  <2> DEFINE T == {i \in 0 .. N : ~(reach[i] \subseteq Trackers)}
  <2> SUFFICES ASSUME T # {} PROVE FALSE
    OBVIOUS
  <2>1. PICK x \in T : \A y \in T : x <= y
    <3>1. T \subseteq Nat
      OBVIOUS
    <3> HIDE DEF T
    <3> QED
      BY <3>1, LeastNumber
  <2>2. x # 0
    BY <1>3, <1>9, <2>1
  <2>3. x - 1 \in 0 .. N /\ reach[x - 1] \subseteq Trackers
    BY <1>2, <2>1, <2>2
  <2> QED
    BY <1>4, <1>9, <2>1, <2>2, <2>3
<1>11. ASSUME NEW X, Closed(link, X), a # NULL => a \in X PROVE \A i \in 0 .. N : reach[i] \subseteq X
  <2> DEFINE T == {i \in 0 .. N : ~(reach[i] \subseteq X)}
  <2> SUFFICES ASSUME T # {} PROVE FALSE
    OBVIOUS
  <2>1. PICK x \in T : \A y \in T : x <= y
    <3>1. T \subseteq Nat
      OBVIOUS
    <3> HIDE DEF T
    <3> QED
      BY <3>1, LeastNumber
  <2>2. x # 0
    <3>1. first \subseteq X
      BY <1>11 DEF first
    <3> QED
      BY <1>9, <2>1, <3>1
  <2>3. x - 1 \in 0 .. N /\ reach[x - 1] \subseteq X
    BY <1>2, <2>1, <2>2
  <2> QED
    BY <1>5, <1>9, <1>11, <2>1, <2>2, <2>3
<1>12. \A i \in 0 .. N : a # NULL => a \in reach[i]
  <2> DEFINE T == {i \in 0 .. N : ~(a # NULL => a \in reach[i])}
  <2> SUFFICES ASSUME T # {} PROVE FALSE
    OBVIOUS
  <2>1. PICK x \in T : \A y \in T : x <= y
    <3>1. T \subseteq Nat
      OBVIOUS
    <3> HIDE DEF T
    <3> QED
      BY <3>1, LeastNumber
  <2>2. x # 0
    BY <1>3, <1>9, <2>1
  <2>3. x - 1 \in 0 .. N /\ (a # NULL => a \in reach[x - 1])
    BY <1>2, <2>1, <2>2
  <2>4. reach[x - 1] \subseteq reach[x]
    BY <1>4, <1>9, <1>10, <2>1, <2>2, <2>3
  <2> QED
    BY <2>1, <2>3, <2>4
<1>13. \A i \in 0 .. N : Closed(link, reach[i]) \/ Cardinality(reach[i]) >= i + 1
  <2> DEFINE T == {i \in 0 .. N : ~(Closed(link, reach[i]) \/ Cardinality(reach[i]) >= i + 1)}
  <2> SUFFICES ASSUME T # {} PROVE FALSE
    OBVIOUS
  <2>1. PICK x \in T : \A y \in T : x <= y
    <3>1. T \subseteq Nat
      OBVIOUS
    <3> HIDE DEF T
    <3> QED
      BY <3>1, LeastNumber
  <2>2. \A i \in 0 .. N : IsFiniteSet(reach[i]) /\ Cardinality(reach[i]) \in Nat
    BY <1>10, FS_Subset, FS_CardinalityType
  <2>3. x # 0
    <3>1. CASE a = NULL
      <4>1. Closed(link, {})
        BY DEF Closed
      <4> QED
        BY <1>3, <1>9, <2>1, <3>1, <4>1
    <3>2. CASE a # NULL
      <4>1. first = {a}
        BY <3>2 DEF first
      <4>2. Cardinality({a}) = 1
        BY FS_Singleton
      <4>3. Cardinality(reach[0]) >= 0 + 1
        BY <1>9, <4>1, <4>2
      <4> QED
        BY <2>1, <4>3
    <3> QED
      BY <3>1, <3>2
  <2>4. x \in Nat /\ x \in 0 .. N /\ x - 1 \in 0 .. N /\ (Closed(link, reach[x - 1]) \/ Cardinality(reach[x - 1]) >= x)
    <3>1. x \in Nat /\ x \in 0 .. N /\ x - 1 \in 0 .. N /\ (x - 1) + 1 = x /\ x - 1 \notin T
      BY <1>2, <2>1, <2>3
    <3> QED
      BY <3>1
  <2>5. reach[x] = more(reach[x - 1]) /\ reach[x - 1] \subseteq reach[x]
    BY <1>4, <1>9, <1>10, <2>3, <2>4
  <2>6. reach[x] # reach[x - 1]
    <3> SUFFICES ASSUME reach[x] = reach[x - 1] PROVE FALSE
      OBVIOUS
    <3>1. Closed(link, reach[x])
      BY <1>6, <2>5
    <3> QED
      BY <2>1, <3>1
  <2>7. ~Closed(link, reach[x - 1])
    BY <1>5, <2>5, <2>6
  <2>8. Cardinality(reach[x - 1]) <= Cardinality(reach[x]) /\ Cardinality(reach[x - 1]) # Cardinality(reach[x])
    BY <2>2, <2>4, <2>5, <2>6, FS_Subset
  <2> QED
    BY <2>1, <2>2, <2>4, <2>7, <2>8
<1>14. N \in 0 .. N
  BY <1>2
<1>15. Closed(link, reach[N])
  <2>1. Cardinality(reach[N]) <= N
    BY <1>10, <1>14, FS_Subset DEF N
  <2>2. Cardinality(reach[N]) \in Nat
    BY <1>10, <1>14, FS_Subset, FS_CardinalityType
  <2> QED
    BY <1>2, <1>13, <1>14, <2>1, <2>2
<1> QED
  BY <1>1, <1>10, <1>11, <1>12, <1>14, <1>15

\* The chain of a tracker is the tracker and the chain of its link.
LEMMA ChainUnfolds ==
    ASSUME NEW link \in Links, NEW a \in Pointers
    PROVE  Chain(link, a) = IF a = NULL THEN {} ELSE {a} \cup Chain(link, link[a])
<1> USE NullAssumption
<1>1. CASE a = NULL
  <2>1. Closed(link, {})
    BY DEF Closed
  <2>2. Chain(link, a) \subseteq {}
    BY <1>1, <2>1, ChainIsLeast
  <2> QED
    BY <1>1, <2>2
<1>2. CASE a # NULL
  <2>1. a \in Trackers /\ link[a] \in Pointers
    BY <1>2 DEF Pointers, Links
  <2> DEFINE X == {a} \cup Chain(link, link[a])
  <2>2. Closed(link, X)
    BY <2>1, ChainIsLeast DEF Closed
  <2>3. Chain(link, a) \subseteq X
    <3> HIDE DEF X
    <3>1. a \in X
      BY DEF X
    <3> QED
      BY <2>2, <3>1, ChainIsLeast
  <2>4. Closed(link, Chain(link, a)) /\ a \in Chain(link, a)
    BY <1>2, ChainIsLeast
  <2>5. link[a] # NULL => link[a] \in Chain(link, a)
    BY <2>4 DEF Closed
  <2>6. Chain(link, link[a]) \subseteq Chain(link, a)
    BY <2>1, <2>4, <2>5, ChainIsLeast
  <2> QED
    BY <1>2, <2>3, <2>4, <2>6
<1> QED
  BY <1>1, <1>2

\* Whoever is on a chain has his own chain on it.
LEMMA ChainWithin ==
    ASSUME NEW link \in Links, NEW a \in Pointers, NEW b \in Chain(link, a)
    PROVE  /\ b \in Trackers /\ link[b] \in Pointers
           /\ Chain(link, b) \subseteq Chain(link, a) /\ Chain(link, link[b]) \subseteq Chain(link, a)
<1>1. b \in Trackers /\ b \in Pointers /\ link[b] \in Pointers /\ b # NULL
  BY ChainIsLeast, NullAssumption DEF Pointers, Links
<1>2. Chain(link, b) \subseteq Chain(link, a)
  BY <1>1, ChainIsLeast
<1>3. Chain(link, b) = {b} \cup Chain(link, link[b])
  BY <1>1, ChainUnfolds
<1> QED
  BY <1>1, <1>2, <1>3

\* Links that agree on a chain give the same chain.
LEMMA ChainSame ==
    ASSUME NEW link \in Links, NEW new \in Links, NEW a \in Pointers,
           \A b \in Chain(link, a) : new[b] = link[b]
    PROVE  Chain(new, a) = Chain(link, a)
<1>1. Closed(new, Chain(link, a)) /\ (a # NULL => a \in Chain(link, a))
  BY ChainIsLeast DEF Closed
<1>2. Chain(new, a) \subseteq Chain(link, a)
  BY <1>1, ChainIsLeast
<1>3. Closed(new, Chain(new, a)) /\ (a # NULL => a \in Chain(new, a))
  BY ChainIsLeast
<1>4. Closed(link, Chain(new, a))
  BY <1>2, <1>3 DEF Closed
<1>5. Chain(link, a) \subseteq Chain(new, a)
  BY <1>3, <1>4, ChainIsLeast
<1> QED
  BY <1>2, <1>5

\* The links from a do not come back to where they have been.
NoLoop(link, a) == \A b \in Chain(link, a) : b \notin Chain(link, link[b])

LEMMA NoLoopSame ==
    ASSUME NEW link \in Links, NEW new \in Links, NEW a \in Pointers,
           \A b \in Chain(link, a) : new[b] = link[b],
           NoLoop(link, a)
    PROVE  NoLoop(new, a)
<1> SUFFICES ASSUME NEW b \in Chain(link, a) PROVE b \notin Chain(new, new[b])
  BY ChainSame DEF NoLoop
<1>1. link[b] \in Pointers /\ Chain(link, link[b]) \subseteq Chain(link, a) /\ new[b] = link[b]
  BY ChainWithin
<1>2. Chain(new, link[b]) = Chain(link, link[b])
  BY <1>1, ChainSame
<1> QED
  BY <1>1, <1>2 DEF NoLoop

\* A tracker put in front of a chain that it is not on.
LEMMA ChainGrows ==
    ASSUME NEW link \in Links, NEW a \in Trackers, a \notin Chain(link, link[a]), NoLoop(link, link[a])
    PROVE  Chain(link, a) = {a} \cup Chain(link, link[a]) /\ NoLoop(link, a)
<1>1. Chain(link, a) = {a} \cup Chain(link, link[a])
  BY ChainUnfolds, NullAssumption DEF Pointers
<1> QED
  BY <1>1 DEF NoLoop

\* The end of one chain is linked to the head of another: what was before the
\* end stays, and the other chain follows.
LEMMA ChainLinked ==
    ASSUME NEW link \in Links, NEW a \in Pointers, NEW l \in Chain(link, a), NEW h \in Pointers,
           NoLoop(link, a), NoLoop(link, h),
           Chain(link, link[l]) \subseteq Chain(link, h),
           (Chain(link, a) \ Chain(link, link[l])) \cap Chain(link, h) = {},
           NEW new \in Links, new[l] = h, \A b \in Trackers : b # l => new[b] = link[b]
    PROVE  /\ Chain(new, h) = Chain(link, h) /\ NoLoop(new, h)
           /\ Chain(new, a) = (Chain(link, a) \ Chain(link, link[l])) \cup Chain(link, h)
           /\ NoLoop(new, a) /\ l \in Chain(new, a)
<1> DEFINE B == Chain(link, a)
<1> DEFINE R == Chain(link, link[l])
<1> DEFINE H == Chain(link, h)
<1> DEFINE K == B \ R
<1>1. /\ l \in Trackers /\ a \in Trackers /\ link[l] \in Pointers /\ l \in K
      /\ B \subseteq Trackers /\ H \subseteq Trackers /\ R \subseteq B
  <2>1. l \in Trackers /\ link[l] \in Pointers /\ R \subseteq B
    BY ChainWithin
  <2>2. B \subseteq Trackers /\ H \subseteq Trackers
    BY ChainIsLeast
  <2>3. a # NULL
    BY ChainUnfolds
  <2> QED
    BY <2>1, <2>2, <2>3 DEF NoLoop, Pointers
<1>2. new[l] = h /\ \A b \in Trackers : b # l => new[b] = link[b]
  OBVIOUS
<1>3. l \notin H /\ K \cap H = {} /\ R \subseteq H /\ K \cup R = B
  BY <1>1
<1>4. \A b \in H : new[b] = link[b]
  BY <1>1, <1>2, <1>3
<1>5. Chain(new, h) = H /\ NoLoop(new, h)
  BY <1>4, ChainSame, NoLoopSame
<1>6. a \in K
  <2>1. a \in B
    BY <1>1, ChainIsLeast, NullAssumption
  <2>2. ASSUME a \in R PROVE FALSE
    <3>1. Chain(link, a) \subseteq R
      BY <1>1, <2>2, ChainWithin
    <3> QED
      BY <1>1, <3>1
  <2> QED
    BY <2>1, <2>2
<1>7. Closed(link, B) /\ Closed(link, H) /\ Closed(link, R)
  BY <1>1, ChainIsLeast
<1>8. h # NULL => h \in H
  BY ChainIsLeast
<1>9. Closed(new, K \cup H)
  <2> SUFFICES ASSUME NEW b \in K \cup H PROVE new[b] \in K \cup H \cup {NULL}
    BY DEF Closed
  <2>1. CASE b = l
    BY <1>2, <1>8, <2>1
  <2>2. CASE b # l /\ b \in K
    BY <1>1, <1>2, <1>3, <1>7, <2>2 DEF Closed
  <2>3. CASE b # l /\ b \in H
    BY <1>4, <1>7, <2>3 DEF Closed
  <2> QED
    BY <2>1, <2>2, <2>3
<1> DEFINE Y == Chain(new, a)
<1>10. Y \subseteq K \cup H /\ a \in Y /\ Closed(new, Y)
  <2>1. a \in K \cup H /\ a \in Pointers /\ a # NULL
    BY <1>1, <1>6, NullAssumption
  <2> HIDE DEF K, H
  <2> QED
    BY <1>9, <2>1, ChainIsLeast
<1>11. K \subseteq Y
  <2> HIDE DEF Y, R, H, B
  <2>1. Closed(link, Y \cup R)
    <3> SUFFICES ASSUME NEW b \in Y \cup R PROVE link[b] \in Y \cup R \cup {NULL}
      BY DEF Closed
    <3>1. CASE b \in R
      BY <1>7, <3>1 DEF Closed
    <3>2. CASE b = l
      BY <1>1, <3>2, ChainIsLeast DEF R
    <3>3. CASE b \in Y /\ b # l
      BY <1>1, <1>2, <1>10, <3>3 DEF Closed
    <3> QED
      BY <3>1, <3>2, <3>3
  <2>2. B \subseteq Y \cup R
    BY <1>10, <2>1, ChainIsLeast DEF B
  <2> QED
    BY <2>2
<1>12. H \subseteq Y
  <2>1. h # NULL => h \in Y
    BY <1>1, <1>2, <1>10, <1>11 DEF Closed
  <2>2. Chain(new, h) \subseteq Y
    <3> HIDE DEF Y
    <3> QED
      BY <1>10, <2>1, ChainIsLeast
  <2> QED
    BY <1>5, <2>2
<1>13. Y = K \cup H
  BY <1>10, <1>11, <1>12
<1>14. ASSUME NEW b \in K \cup H PROVE b \notin Chain(new, new[b])
  <2>1. CASE b \in H
    BY <1>5, <2>1 DEF NoLoop
  <2>2. CASE b = l
    BY <1>2, <1>3, <1>5, <2>2
  <2>3. CASE b \in K /\ b # l
    <3> DEFINE M == Chain(link, link[b])
    <3>1. b \in Trackers /\ link[b] \in Pointers /\ b \notin M /\ b \notin H /\ new[b] = link[b]
      BY <1>1, <1>2, <1>3, <2>3, ChainWithin DEF NoLoop
    <3>2. M \subseteq Trackers /\ Closed(link, M) /\ (link[b] # NULL => link[b] \in M)
      BY <3>1, ChainIsLeast
    <3>3. Closed(new, M \cup H)
      <4> HIDE DEF M, H
      <4> SUFFICES ASSUME NEW c \in M \cup H PROVE new[c] \in M \cup H \cup {NULL}
        BY DEF Closed
      <4>1. CASE c = l
        BY <1>2, <1>8, <4>1
      <4>2. CASE c # l /\ c \in M
        BY <1>2, <3>2, <4>2 DEF Closed
      <4>3. CASE c # l /\ c \in H
        BY <1>4, <1>7, <4>3 DEF Closed
      <4> QED
        BY <4>1, <4>2, <4>3
    <3>4. Chain(new, link[b]) \subseteq M \cup H
      <4> HIDE DEF M, H
      <4> QED
        BY <3>1, <3>2, <3>3, ChainIsLeast
    <3> QED
      BY <3>1, <3>4
  <2> QED
    BY <2>1, <2>2, <2>3
<1> QED
  BY <1>1, <1>5, <1>13, <1>14 DEF NoLoop

-----------------------------------------------------------------------------
(* The inductive invariant.                                                *)

MemoryTypeOK ==
    /\ trackers \in Pointers /\ tracker \in Pointers /\ keepers \in Pointers /\ last \in Pointers
    /\ next \in Links
    /\ tid \in [Trackers -> Threads]
    /\ memory \in [Trackers -> Blocks \cup {NULL}]
    /\ malloced \subseteq Trackers \cup Blocks
    /\ thread_tid \in [Threads -> Threads \cup {NoTid}]
    /\ alive \subseteq Threads
    /\ pc \in [Threads -> {"idle", "push", "walk", "restore"}]
    /\ my \in [Threads -> Pointers]
    /\ what \in {"UNUSED", "ALL"}
    /\ held \in [Threads -> SUBSET Blocks]
    /\ orphans \subseteq Trackers

\* No list loops, the main thread's local variables are set only while it frees,
\* last is the end of what it keeps, and what it read from the head of the list
\* is still on the list: the others only push.
ListsRight ==
    /\ NoLoop(next, trackers) /\ NoLoop(next, tracker) /\ NoLoop(next, keepers)
    /\ pc[Main] # "walk" => tracker = NULL
    /\ pc[Main] \notin {"walk", "restore"} => keepers = NULL
    /\ IF keepers = NULL THEN last = NULL ELSE last \in Chain(next, keepers)
    /\ pc[Main] = "walk" /\ last # NULL => next[last] = NULL
    /\ pc[Main] = "restore" => last # NULL /\ Chain(next, next[last]) \subseteq Chain(next, trackers)

\* A thread has a tracker of its own in hand while it pushes, and only the main
\* thread frees.
HandsRight ==
    /\ Main \in alive
    /\ \A t \in Threads : /\ my[t] # NULL <=> pc[t] = "push"
                          /\ my[t] # NULL => tid[my[t]] = t
                          /\ pc[t] # "idle" => t \in alive
                          /\ pc[t] \in {"walk", "restore"} => t = Main
    /\ \A t, u \in Threads : my[t] = my[u] /\ my[t] # NULL => t = u

\* A tracker that is not an orphan has an allocated block that no other has, and
\* the blocks that a thread may use are those of trackers that carry its tid.
BlocksRight ==
    /\ \A t \in Threads : thread_tid[t] \in {NoTid, t}
    /\ \A a \in Trackers : /\ memory[a] # NULL <=> a \in malloced /\ a \notin orphans
                           /\ memory[a] # NULL => memory[a] \in malloced
    /\ \A a, b \in Trackers : memory[a] = memory[b] /\ memory[a] # NULL => a = b

HoldersRight ==
    /\ \A t \in Threads : /\ t \notin alive => held[t] = {}
                          /\ \A b \in held[t] : \E a \in Trackers : memory[a] = b /\ tid[a] = t
    /\ pc[Main] = "walk" /\ what = "ALL" => held[Main] = {}

\* TrackersConserved without indices.
Apart(A, B, C, D, E) == /\ A \cap B = {} /\ A \cap C = {} /\ A \cap D = {} /\ A \cap E = {}
                        /\ B \cap C = {} /\ B \cap D = {} /\ B \cap E = {}
                        /\ C \cap D = {} /\ C \cap E = {} /\ D \cap E = {}

Placed == /\ malloced \cap Trackers = Chain(next, trackers) \cup InHand \cup Chain(next, tracker) \cup Kept \cup orphans
          /\ Apart(Chain(next, trackers), InHand, Chain(next, tracker), Kept, orphans)

MemoryInv == MemoryTypeOK /\ ListsRight /\ HandsRight /\ BlocksRight /\ HoldersRight /\ Placed

LEMMA PlacedConserves == ASSUME Placed PROVE TrackersConserved
<1> DEFINE places == <<Chain(next, trackers), InHand, Chain(next, tracker), Kept, orphans>>
<1>1. /\ places[1] = Chain(next, trackers) /\ places[2] = InHand /\ places[3] = Chain(next, tracker)
      /\ places[4] = Kept /\ places[5] = orphans
  OBVIOUS
<1>2. TrackersConserved <=> /\ malloced \cap Trackers = UNION {places[i] : i \in 1 .. 5}
                            /\ \A i, j \in 1 .. 5 : i < j => places[i] \cap places[j] = {}
  BY DEF TrackersConserved
<1> HIDE DEF places
<1>3. 1 .. 5 = {1, 2, 3, 4, 5}
  OBVIOUS
<1>4. UNION {places[i] : i \in 1 .. 5} = places[1] \cup places[2] \cup places[3] \cup places[4] \cup places[5]
  BY <1>3
<1>5. ASSUME NEW i \in 1 .. 5, NEW j \in 1 .. 5, i < j PROVE places[i] \cap places[j] = {}
  <2>1. \/ i = 1 /\ j \in {2, 3, 4, 5}
        \/ i = 2 /\ j \in {3, 4, 5}
        \/ i = 3 /\ j \in {4, 5}
        \/ i = 4 /\ j = 5
    BY <1>5
  <2>2. /\ places[1] \cap places[2] = {} /\ places[1] \cap places[3] = {} /\ places[1] \cap places[4] = {}
        /\ places[1] \cap places[5] = {} /\ places[2] \cap places[3] = {} /\ places[2] \cap places[4] = {}
        /\ places[2] \cap places[5] = {} /\ places[3] \cap places[4] = {} /\ places[3] \cap places[5] = {}
        /\ places[4] \cap places[5] = {}
    BY <1>1 DEF Placed, Apart
  <2> QED
    BY <2>1, <2>2
<1> QED
  BY <1>1, <1>2, <1>4, <1>5 DEF Placed

\* What the main thread keeps, and what is linked behind it.
LEMMA KeepersAre ==
    ASSUME MemoryInv
    PROVE  /\ Kept \subseteq Chain(next, keepers)
           /\ Chain(next, keepers) \subseteq Kept \cup Chain(next, trackers)
           /\ keepers # NULL => last \in Kept /\ last \in Trackers /\ next[last] \in Pointers
<1>1. next \in Links /\ keepers \in Pointers
  BY DEF MemoryInv, MemoryTypeOK
<1>2. ASSUME keepers # NULL
      PROVE  last \in Chain(next, keepers) /\ last \notin Chain(next, next[last]) /\ last \in Trackers /\ next[last] \in Pointers
  BY <1>1, <1>2, ChainWithin DEF MemoryInv, ListsRight, NoLoop
<1> QED
  BY <1>1, <1>2 DEF Kept, MemoryInv, ListsRight

\* A tracker that is not allocated, in a thread's hand or lost is on no list.
LEMMA OffLists ==
    ASSUME MemoryInv, NEW a \in Trackers, a \notin malloced \/ a \in InHand \/ a \in orphans
    PROVE  a \notin Chain(next, trackers) /\ a \notin Chain(next, tracker) /\ a \notin Chain(next, keepers)
<1>1. a \notin Chain(next, trackers) /\ a \notin Chain(next, tracker) /\ a \notin Kept
  BY DEF MemoryInv, Placed, Apart
<1> QED
  BY <1>1, KeepersAre

\* A step that changes no link of a tracker on a list.
LEMMA ListsStay ==
    ASSUME MemoryInv, next' \in Links, UNCHANGED <<trackers, tracker, keepers, last>>,
           \A b \in Chain(next, trackers) \cup Chain(next, tracker) \cup Chain(next, keepers) : next'[b] = next[b],
           pc'[Main] = pc[Main] \/ (pc[Main] \in {"idle", "push"} /\ pc'[Main] \in {"idle", "push"})
    PROVE  /\ ListsRight'
           /\ Chain(next', trackers) = Chain(next, trackers) /\ Chain(next', tracker) = Chain(next, tracker)
           /\ Kept' = Kept
<1>1. next \in Links /\ trackers \in Pointers /\ tracker \in Pointers /\ keepers \in Pointers
  BY DEF MemoryInv, MemoryTypeOK
<1>2. /\ Chain(next', trackers) = Chain(next, trackers) /\ Chain(next', tracker) = Chain(next, tracker)
      /\ Chain(next', keepers) = Chain(next, keepers)
  BY <1>1, ChainSame
<1>3. NoLoop(next', trackers) /\ NoLoop(next', tracker) /\ NoLoop(next', keepers)
  BY <1>1, NoLoopSame DEF MemoryInv, ListsRight
<1>4. ASSUME keepers # NULL PROVE next'[last] = next[last] /\ Chain(next', next'[last]) = Chain(next, next[last])
  <2>1. last \in Chain(next, keepers) /\ next'[last] = next[last]
    BY <1>4 DEF MemoryInv, ListsRight
  <2>2. next[last] \in Pointers /\ Chain(next, next[last]) \subseteq Chain(next, keepers)
    BY <1>1, <2>1, ChainWithin
  <2>3. \A b \in Chain(next, next[last]) : next'[b] = next[b]
    BY <2>2
  <2> QED
    BY <1>1, <2>1, <2>2, <2>3, ChainSame
<1>5. keepers = NULL => last = NULL /\ pc[Main] # "restore"
  BY DEF MemoryInv, ListsRight
<1>6. Kept' = Kept
  BY <1>2, <1>4, <1>5 DEF Kept
<1>7. ListsRight'
  BY <1>2, <1>3, <1>4, <1>5 DEF MemoryInv, ListsRight
<1> QED
  BY <1>2, <1>6, <1>7

\* A thread's tracker joins those in hand, or leaves them.
LEMMA HandsChange ==
    ASSUME MemoryInv, NEW t \in Threads, NEW p \in Pointers, my' = [my EXCEPT ![t] = p]
    PROVE  /\ my[t] = NULL => InHand' = InHand \cup ({p} \ {NULL})
           /\ my[t] # NULL /\ p = NULL => InHand' = InHand \ {my[t]} /\ my[t] \in InHand /\ my[t] \in Trackers
<1>1. my \in [Threads -> Pointers] /\ \A u \in Threads : my'[u] = IF u = t THEN p ELSE my[u]
  BY DEF MemoryInv, MemoryTypeOK
<1>2. \A u, v \in Threads : my[u] = my[v] /\ my[u] # NULL => u = v
  BY DEF MemoryInv, HandsRight
<1> QED
  BY <1>1, <1>2, NullAssumption DEF InHand, Pointers

\* A thread allocates a tracker and a block.
LEMMA AllocateKeeps == ASSUME MemoryInv, NEW t \in Threads, Allocate(t) PROVE MemoryInv'
<1> USE NullAssumption, AddressesAssumption, TidsAssumption, MainAssumption
<1>1. PICK a \in Trackers \ malloced : LET b == NewBlock IN
          /\ malloced' = malloced \cup {a, b}
          /\ memory' = [memory EXCEPT ![a] = b]
          /\ thread_tid' = [thread_tid EXCEPT ![t] = IF @ = NoTid THEN t ELSE @]
          /\ tid' = [tid EXCEPT ![a] = thread_tid'[t]]
          /\ next' = [next EXCEPT ![a] = trackers]
          /\ my' = [my EXCEPT ![t] = a]
  BY DEF Allocate
<1>2. PICK b : b = NewBlock
  OBVIOUS
<1>3. b \in Blocks /\ b \notin malloced
  BY <1>2 DEF NewBlock, Allocate
<1>4. /\ t \in alive /\ pc[t] = "idle" /\ pc' = [pc EXCEPT ![t] = "push"]
      /\ UNCHANGED <<trackers, alive, what, tracker, keepers, last, held, orphans>>
  BY DEF Allocate, At, Goto, callvars
<1>5. MemoryTypeOK
  BY DEF MemoryInv
<1>6. my[t] = NULL
  BY <1>4 DEF MemoryInv, HandsRight
<1>7. thread_tid'[t] = t /\ \A u \in Threads : thread_tid'[u] = IF u = t THEN t ELSE thread_tid[u]
  BY <1>1, <1>5 DEF MemoryTypeOK, MemoryInv, BlocksRight
<1>8. /\ \A u \in Threads : pc'[u] = IF u = t THEN "push" ELSE pc[u]
      /\ \A u \in Threads : my'[u] = IF u = t THEN a ELSE my[u]
      /\ \A c \in Trackers : tid'[c] = IF c = a THEN t ELSE tid[c]
      /\ \A c \in Trackers : memory'[c] = IF c = a THEN b ELSE memory[c]
      /\ \A c \in Trackers : next'[c] = IF c = a THEN trackers ELSE next[c]
      /\ malloced' = malloced \cup {a, b}
  BY <1>1, <1>2, <1>4, <1>5, <1>7 DEF MemoryTypeOK, Links
<1>9. MemoryTypeOK'
  <2>1. next' \in Links /\ my' \in [Threads -> Pointers] /\ pc' \in [Threads -> {"idle", "push", "walk", "restore"}]
    BY <1>1, <1>4, <1>5 DEF MemoryTypeOK, Links, Pointers
  <2>2. tid' \in [Trackers -> Threads] /\ memory' \in [Trackers -> Blocks \cup {NULL}] /\ malloced' \subseteq Trackers \cup Blocks
    BY <1>1, <1>2, <1>3, <1>5, <1>7 DEF MemoryTypeOK
  <2>3. thread_tid' \in [Threads -> Threads \cup {NoTid}]
    BY <1>1, <1>5 DEF MemoryTypeOK
  <2> QED
    BY <1>4, <1>5, <2>1, <2>2, <2>3 DEF MemoryTypeOK
<1>10. /\ ListsRight'
       /\ Chain(next', trackers) = Chain(next, trackers) /\ Chain(next', tracker) = Chain(next, tracker)
       /\ Kept' = Kept
  <2>1. a \notin Chain(next, trackers) /\ a \notin Chain(next, tracker) /\ a \notin Chain(next, keepers)
    BY OffLists
  <2>2. \A c \in Chain(next, trackers) \cup Chain(next, tracker) \cup Chain(next, keepers) : next'[c] = next[c]
    BY <1>5, <1>8, <2>1, ChainIsLeast DEF MemoryTypeOK
  <2>3. pc'[Main] = pc[Main] \/ (pc[Main] \in {"idle", "push"} /\ pc'[Main] \in {"idle", "push"})
    BY <1>4, <1>8
  <2> QED
    BY <1>4, <1>9, <2>2, <2>3, ListsStay DEF MemoryTypeOK
<1>11. Placed'
  <2>1. InHand' = InHand \cup {a}
    <3>1. my' = [my EXCEPT ![t] = a] /\ a \in Pointers /\ {a} \ {NULL} = {a}
      BY <1>1 DEF Pointers
    <3>2. InHand' = InHand \cup ({a} \ {NULL})
      BY <1>6, <3>1, HandsChange
    <3> QED
      BY <3>1, <3>2
  <2>2. malloced' \cap Trackers = (malloced \cap Trackers) \cup {a}
    BY <1>3, <1>8
  <2>3. a \notin Chain(next, trackers) \cup InHand \cup Chain(next, tracker) \cup Kept \cup orphans
    BY DEF MemoryInv, Placed
  <2> QED
    BY <1>4, <1>10, <2>1, <2>2, <2>3 DEF MemoryInv, Placed, Apart
<1>12. HandsRight'
  <2>1. a # NULL /\ \A u \in Threads : my[u] # a /\ (my[u] # NULL => my[u] \in Trackers)
    BY <1>5 DEF MemoryInv, Placed, InHand, MemoryTypeOK, Pointers
  <2>2. MemoryTypeOK /\ HandsRight
    BY DEF MemoryInv
  <2> QED
    BY <1>4, <1>6, <1>8, <2>1, <2>2 DEF HandsRight
<1>13. BlocksRight'
  <2>1. a \notin orphans
    BY DEF MemoryInv, Placed
  <2>2. \A c \in Trackers : memory[c] # b
    BY <1>3 DEF MemoryInv, BlocksRight
  <2>3. BlocksRight
    BY DEF MemoryInv
  <2> QED
    BY <1>3, <1>4, <1>7, <1>8, <2>1, <2>2, <2>3 DEF BlocksRight
<1>14. HoldersRight'
  <2>1. memory[a] = NULL
    BY DEF MemoryInv, BlocksRight
  <2>2. \A u \in Threads : \A c \in held[u] : c # NULL
    BY <1>5 DEF MemoryTypeOK
  <2>3. HoldersRight
    BY DEF MemoryInv
  <2>4. ASSUME NEW u \in Threads, NEW c \in held[u] PROVE \E d \in Trackers : memory'[d] = c /\ tid'[d] = u
    BY <1>8, <2>1, <2>2, <2>3 DEF HoldersRight
  <2>5. pc'[Main] = "walk" => pc[Main] = "walk"
    BY <1>8
  <2> QED
    BY <1>4, <2>3, <2>4, <2>5 DEF HoldersRight
<1> QED
  BY <1>9, <1>10, <1>11, <1>12, <1>13, <1>14 DEF MemoryInv

\* An allocation fails: its tracker becomes an orphan, or the process dies.
LEMMA AllocateFailsKeeps == ASSUME MemoryInv, NEW t \in Threads, AllocateFails(t) PROVE MemoryInv'
<1> USE NullAssumption, AddressesAssumption
<1>1. UNCHANGED <<trackers, next, tid, memory, thread_tid, alive, pc, my, what, tracker, keepers, last, held>>
  BY DEF AllocateFails, callvars
<1>2. PICK new \in SUBSET (Trackers \ malloced) : malloced' = malloced \cup new /\ orphans' = orphans \cup new
  <2>1. CASE UNCHANGED <<malloced, orphans>>
    <3>1. malloced' = malloced \cup {} /\ orphans' = orphans \cup {} /\ {} \in SUBSET (Trackers \ malloced)
      BY <2>1
    <3> QED
      BY <3>1
  <2>2. CASE ~UNCHANGED <<malloced, orphans>>
    <3>1. PICK a \in Trackers \ malloced : malloced' = malloced \cup {a} /\ orphans' = orphans \cup {a}
      BY <2>2 DEF AllocateFails
    <3>2. {a} \in SUBSET (Trackers \ malloced)
      OBVIOUS
    <3> QED
      BY <3>1, <3>2
  <2> QED
    BY <2>1, <2>2
<1>3. MemoryTypeOK'
  BY <1>1, <1>2 DEF MemoryInv, MemoryTypeOK
<1>4. ListsRight' /\ Kept' = Kept /\ InHand' = InHand
  BY <1>1 DEF MemoryInv, ListsRight, Kept, InHand
<1>5. Placed'
  <2>1. malloced' \cap Trackers = (malloced \cap Trackers) \cup new
    BY <1>2
  <2>2. new \cap (Chain(next, trackers) \cup InHand \cup Chain(next, tracker) \cup Kept \cup orphans) = {}
    BY DEF MemoryInv, Placed
  <2> QED
    BY <1>1, <1>2, <1>4, <2>1, <2>2 DEF MemoryInv, Placed, Apart
<1>6. HandsRight' /\ HoldersRight'
  BY <1>1 DEF MemoryInv, HandsRight, HoldersRight
<1>7. BlocksRight'
  BY <1>1, <1>2 DEF MemoryInv, BlocksRight
<1> QED
  BY <1>3, <1>4, <1>5, <1>6, <1>7 DEF MemoryInv

\* The compare and swap succeeds: the tracker is the new head of the list.
LEMMA PushKeeps == ASSUME MemoryInv, NEW t \in Threads, Push(t) PROVE MemoryInv'
<1> USE NullAssumption, MainAssumption
<1>1. PICK a : a = my[t]
  OBVIOUS
<1>2. /\ t \in alive /\ pc[t] = "push" /\ trackers = next[a] /\ trackers' = a
      /\ held' = [held EXCEPT ![t] = @ \cup {memory[a]}]
      /\ my' = [my EXCEPT ![t] = NULL] /\ pc' = [pc EXCEPT ![t] = "idle"]
      /\ UNCHANGED <<next, tid, memory, malloced, thread_tid, alive, what, tracker, keepers, last, orphans>>
  BY <1>1 DEF Push, At, Goto, callvars
<1>3. MemoryTypeOK
  BY DEF MemoryInv
<1>4. a # NULL /\ a \in Trackers /\ tid[a] = t /\ a \in InHand
  BY <1>1, <1>2, <1>3 DEF MemoryInv, HandsRight, MemoryTypeOK, Pointers, InHand
<1>5. /\ \A u \in Threads : pc'[u] = IF u = t THEN "idle" ELSE pc[u]
      /\ \A u \in Threads : my'[u] = IF u = t THEN NULL ELSE my[u]
      /\ \A u \in Threads : held'[u] = IF u = t THEN held[u] \cup {memory[a]} ELSE held[u]
  BY <1>2, <1>3 DEF MemoryTypeOK
<1>6. a \notin orphans /\ a \in malloced
  BY <1>4 DEF MemoryInv, Placed, Apart
<1>7. memory[a] # NULL /\ memory[a] \in Blocks
  BY <1>3, <1>4, <1>6 DEF MemoryInv, BlocksRight, MemoryTypeOK
<1>8. MemoryTypeOK'
  <2>1. held' \in [Threads -> SUBSET Blocks]
    BY <1>2, <1>3, <1>7 DEF MemoryTypeOK
  <2>2. my' \in [Threads -> Pointers] /\ pc' \in [Threads -> {"idle", "push", "walk", "restore"}]
    BY <1>2, <1>3 DEF MemoryTypeOK, Pointers
  <2>3. trackers' \in Pointers
    BY <1>2, <1>4 DEF Pointers
  <2> QED
    BY <1>2, <1>3, <2>1, <2>2, <2>3 DEF MemoryTypeOK
<1>9. Chain(next, a) = {a} \cup Chain(next, trackers) /\ NoLoop(next, a)
  <2>1. a \notin Chain(next, next[a]) /\ NoLoop(next, next[a])
    BY <1>2, <1>4, OffLists DEF MemoryInv, ListsRight
  <2> QED
    BY <1>2, <1>3, <1>4, <2>1, ChainGrows DEF MemoryTypeOK
<1>10. pc'[Main] = pc[Main] \/ (pc[Main] \in {"idle", "push"} /\ pc'[Main] \in {"idle", "push"})
  BY <1>2, <1>5
<1>11. ListsRight' /\ Kept' = Kept
  <2>1. Kept' = Kept
    BY <1>2, <1>10 DEF Kept
  <2> QED
    BY <1>2, <1>9, <1>10, <2>1 DEF MemoryInv, ListsRight
<1>12. Placed'
  <2>1. InHand' = InHand \ {a}
    BY <1>1, <1>2, <1>4, HandsChange DEF Pointers
  <2> QED
    BY <1>2, <1>4, <1>9, <1>11, <2>1 DEF MemoryInv, Placed, Apart
<1>13. HandsRight'
  BY <1>2, <1>5 DEF MemoryInv, HandsRight
<1>14. BlocksRight'
  BY <1>2 DEF MemoryInv, BlocksRight
<1>15. HoldersRight'
  <2>1. pc'[Main] = "walk" => pc[Main] = "walk" /\ t # Main
    BY <1>2, <1>5
  <2> QED
    BY <1>2, <1>4, <1>5, <2>1 DEF MemoryInv, HoldersRight
<1> QED
  BY <1>8, <1>11, <1>12, <1>13, <1>14, <1>15 DEF MemoryInv

\* It fails: only the link of the tracker in hand changes.
LEMMA PushAgainKeeps == ASSUME MemoryInv, NEW t \in Threads, PushAgain(t) PROVE MemoryInv'
<1>1. PICK a : a = my[t]
  OBVIOUS
<1>2. /\ pc[t] = "push" /\ next' = [next EXCEPT ![a] = trackers]
      /\ UNCHANGED <<trackers, tid, memory, malloced, thread_tid, alive, pc, my, what, tracker, keepers, last, held, orphans>>
  BY <1>1 DEF PushAgain, At, callvars
<1>3. MemoryTypeOK
  BY DEF MemoryInv
<1>4. a \in Trackers /\ a \in InHand
  BY <1>1, <1>2, <1>3 DEF MemoryInv, HandsRight, MemoryTypeOK, Pointers, InHand
<1>5. MemoryTypeOK'
  <2>1. next' \in Links
    BY <1>2, <1>3 DEF MemoryTypeOK, Links
  <2> QED
    BY <1>2, <1>3, <2>1 DEF MemoryTypeOK
<1>6. \A c \in Chain(next, trackers) \cup Chain(next, tracker) \cup Chain(next, keepers) : next'[c] = next[c]
  <2>1. a \notin Chain(next, trackers) \cup Chain(next, tracker) \cup Chain(next, keepers)
    BY <1>4, OffLists
  <2>2. Chain(next, trackers) \cup Chain(next, tracker) \cup Chain(next, keepers) \subseteq Trackers
    BY <1>3, ChainIsLeast DEF MemoryTypeOK
  <2> QED
    BY <1>2, <1>3, <2>1, <2>2 DEF MemoryTypeOK, Links
<1>7. /\ ListsRight'
      /\ Chain(next', trackers) = Chain(next, trackers) /\ Chain(next', tracker) = Chain(next, tracker)
      /\ Kept' = Kept
  <2>1. next' \in Links /\ pc'[Main] = pc[Main]
    BY <1>2, <1>5 DEF MemoryTypeOK
  <2> QED
    BY <1>2, <1>6, <2>1, ListsStay
<1>8. Placed'
  <2>1. InHand' = InHand
    BY <1>2 DEF InHand
  <2> QED
    BY <1>2, <1>7, <2>1 DEF MemoryInv, Placed, Apart
<1>9. HandsRight' /\ BlocksRight' /\ HoldersRight'
  BY <1>2 DEF MemoryInv, HandsRight, BlocksRight, HoldersRight
<1> QED
  BY <1>5, <1>7, <1>8, <1>9 DEF MemoryInv

\* sxe_thread_realloc replaces a block, and only its tracker and its thread had it.
LEMMA ReallocKeeps == ASSUME MemoryInv, NEW t \in Threads, sxe_thread_realloc(t) PROVE MemoryInv'
<1> USE NullAssumption, AddressesAssumption
<1>1. PICK a \in malloced \cap Trackers : LET b == NewBlock IN
          /\ memory[a] \in held[t]
          /\ memory' = [memory EXCEPT ![a] = b]
          /\ malloced' = (malloced \ {memory[a]}) \cup {b}
          /\ held' = [held EXCEPT ![t] = (@ \ {memory[a]}) \cup {b}]
  BY DEF sxe_thread_realloc
<1>2. PICK b, o : b = NewBlock /\ o = memory[a]
  OBVIOUS
<1>3. b \in Blocks /\ b \notin malloced
  BY <1>2 DEF NewBlock, sxe_thread_realloc
<1>4. /\ t \in alive /\ pc[t] = "idle"
      /\ UNCHANGED <<trackers, next, tid, thread_tid, alive, pc, my, what, tracker, keepers, last, orphans>>
  BY DEF sxe_thread_realloc, At, callvars
<1>5. MemoryTypeOK
  BY DEF MemoryInv
<1>6. o \in held[t] /\ o \in Blocks /\ o # NULL /\ malloced' = (malloced \ {o}) \cup {b}
  BY <1>1, <1>2, <1>5 DEF MemoryTypeOK
<1>7. /\ \A c \in Trackers : memory'[c] = IF c = a THEN b ELSE memory[c]
      /\ \A u \in Threads : held'[u] = IF u = t THEN (held[u] \ {o}) \cup {b} ELSE held[u]
  BY <1>1, <1>2, <1>5 DEF MemoryTypeOK
<1>8. MemoryTypeOK'
  <2>1. memory' \in [Trackers -> Blocks \cup {NULL}] /\ held' \in [Threads -> SUBSET Blocks] /\ malloced' \subseteq Trackers \cup Blocks
    BY <1>1, <1>2, <1>3, <1>5 DEF MemoryTypeOK
  <2> QED
    BY <1>4, <1>5, <2>1 DEF MemoryTypeOK
<1>9. ListsRight' /\ Kept' = Kept /\ InHand' = InHand
  BY <1>4 DEF MemoryInv, ListsRight, Kept, InHand
<1>10. Placed'
  <2>1. malloced' \cap Trackers = malloced \cap Trackers
    BY <1>3, <1>6
  <2> QED
    BY <1>4, <1>9, <2>1 DEF MemoryInv, Placed, Apart
<1>11. HandsRight'
  BY <1>4 DEF MemoryInv, HandsRight
<1>12. BlocksRight
  BY DEF MemoryInv
<1>13. /\ \A c \in Trackers : memory[c] = o => c = a
       /\ \A c \in Trackers : memory[c] # b
       /\ \A c \in Trackers : c \in malloced' <=> c \in malloced
  BY <1>2, <1>3, <1>6, <1>12 DEF BlocksRight
<1>14. BlocksRight'
  <2>1. \A c \in Trackers : memory'[c] # NULL <=> c \in malloced' /\ c \notin orphans'
    BY <1>2, <1>3, <1>4, <1>6, <1>7, <1>12, <1>13 DEF BlocksRight
  <2>2. \A c \in Trackers : memory'[c] # NULL => memory'[c] \in malloced'
    BY <1>2, <1>3, <1>6, <1>7, <1>12, <1>13 DEF BlocksRight
  <2>3. \A c, d \in Trackers : memory'[c] = memory'[d] /\ memory'[c] # NULL => c = d
    BY <1>7, <1>12, <1>13 DEF BlocksRight
  <2> QED
    BY <1>4, <1>12, <2>1, <2>2, <2>3 DEF BlocksRight
<1>15. HoldersRight'
  <2>1. HoldersRight
    BY DEF MemoryInv
  <2>2. tid[a] = t
    BY <1>6, <1>13, <2>1 DEF HoldersRight
  <2>3. ASSUME NEW u \in Threads, NEW c \in held'[u] PROVE \E d \in Trackers : memory'[d] = c /\ tid'[d] = u
    <3>1. CASE u = t /\ c = b
      BY <1>4, <1>7, <2>2, <3>1
    <3>2. CASE ~(u = t /\ c = b)
      <4>1. c \in held[u] /\ (u = t => c # o)
        BY <1>3, <1>6, <1>7, <3>2
      <4>2. PICK d \in Trackers : memory[d] = c /\ tid[d] = u
        BY <2>1, <4>1 DEF HoldersRight
      <4>3. d # a
        BY <1>2, <2>2, <4>1, <4>2
      <4> QED
        BY <1>4, <1>7, <4>2, <4>3
    <3> QED
      BY <3>1, <3>2
  <2>4. \A u \in Threads : u \notin alive' => held'[u] = {}
    BY <1>4, <1>7, <2>1 DEF HoldersRight
  <2>5. pc'[Main] = "walk" /\ what' = "ALL" => held'[Main] = {}
    BY <1>4, <1>7, <2>1, MainAssumption DEF HoldersRight
  <2> QED
    BY <2>3, <2>4, <2>5 DEF HoldersRight
<1> QED
  BY <1>8, <1>9, <1>10, <1>11, <1>14, <1>15 DEF MemoryInv

\* A thread ends, or a new one gets a dead one's tid.
LEMMA ThreadsKeep == ASSUME MemoryInv, NEW t \in Threads, Exit(t) \/ Create(t) PROVE MemoryInv'
<1>1. UNCHANGED <<trackers, next, tid, memory, malloced, pc, my, what, tracker, keepers, last, orphans>>
  BY DEF Exit, Create, callvars
<1>2. MemoryTypeOK
  BY DEF MemoryInv
<1>3. \/ /\ t # Main /\ pc[t] = "idle" /\ alive' = alive \ {t}
         /\ held' = [held EXCEPT ![t] = {}] /\ thread_tid' = thread_tid
      \/ /\ t \notin alive /\ alive' = alive \cup {t}
         /\ held' = held /\ thread_tid' = [thread_tid EXCEPT ![t] = NoTid]
  BY DEF Exit, Create, At
<1>4. MemoryTypeOK'
  BY <1>1, <1>2, <1>3 DEF MemoryTypeOK
<1>5. ListsRight' /\ Placed'
  BY <1>1 DEF MemoryInv, ListsRight, Placed, Apart, Kept, InHand
<1>6. HandsRight'
  BY <1>1, <1>3 DEF MemoryInv, HandsRight
<1>7. BlocksRight'
  BY <1>1, <1>2, <1>3 DEF MemoryInv, BlocksRight, MemoryTypeOK
<1>8. HoldersRight'
  BY <1>1, <1>2, <1>3, MainAssumption DEF MemoryInv, HoldersRight, MemoryTypeOK
<1> QED
  BY <1>4, <1>5, <1>6, <1>7, <1>8 DEF MemoryInv
\* The main thread takes the list as it is: it is now what it has to look at.
LEMMA TakeAllKeeps == ASSUME MemoryInv, NEW w \in {"UNUSED", "ALL"}, TakeAll(w) PROVE MemoryInv'
<1> USE NullAssumption, MainAssumption
<1>1. /\ pc[Main] = "idle" /\ pc' = [pc EXCEPT ![Main] = "walk"]
      /\ what' = w /\ tracker' = trackers /\ trackers' = NULL /\ keepers' = NULL /\ last' = NULL
      /\ held' = IF w = "ALL" THEN [held EXCEPT ![Main] = {}] ELSE held
      /\ UNCHANGED <<next, tid, memory, malloced, thread_tid, alive, my, orphans>>
  BY DEF TakeAll, At, Goto
<1>2. MemoryTypeOK
  BY DEF MemoryInv
<1>3. /\ \A u \in Threads : pc'[u] = IF u = Main THEN "walk" ELSE pc[u]
      /\ \A u \in Threads : held'[u] = held[u] \/ held'[u] = {}
      /\ w = "ALL" => held'[Main] = {}
  BY <1>1, <1>2 DEF MemoryTypeOK
<1>4. MemoryTypeOK'
  <2>1. held' \in [Threads -> SUBSET Blocks] /\ pc' \in [Threads -> {"idle", "push", "walk", "restore"}]
    BY <1>1, <1>2 DEF MemoryTypeOK
  <2> QED
    BY <1>1, <1>2, <2>1 DEF MemoryTypeOK, Pointers
<1>5. tracker = NULL /\ keepers = NULL
  BY <1>1 DEF MemoryInv, ListsRight
<1>6. Chain(next, NULL) = {} /\ NoLoop(next, NULL)
  <2>1. Chain(next, NULL) = {}
    BY <1>2, ChainUnfolds DEF MemoryTypeOK, Pointers
  <2> QED
    BY <2>1 DEF NoLoop
<1>7. Kept = {} /\ Kept' = {} /\ InHand' = InHand
  BY <1>1, <1>5, <1>6 DEF Kept, InHand
<1>8. ListsRight'
  BY <1>1, <1>3, <1>6 DEF MemoryInv, ListsRight
<1>9. Placed'
  BY <1>1, <1>5, <1>6, <1>7 DEF MemoryInv, Placed, Apart
<1>10. HandsRight'
  BY <1>1, <1>3 DEF MemoryInv, HandsRight
<1>11. BlocksRight'
  BY <1>1 DEF MemoryInv, BlocksRight
<1>12. HoldersRight'
  BY <1>1, <1>3 DEF MemoryInv, HoldersRight
<1> QED
  BY <1>4, <1>8, <1>9, <1>10, <1>11, <1>12 DEF MemoryInv

\* The tracker at the head of what the main thread has to look at is on no
\* other list, and the rest follows it.
LEMMA HeadOfWalk ==
    ASSUME MemoryInv, tracker # NULL
    PROVE  /\ tracker \in Trackers /\ next[tracker] \in Pointers /\ tracker \in malloced
           /\ Chain(next, tracker) = {tracker} \cup Chain(next, next[tracker])
           /\ tracker \notin Chain(next, next[tracker]) /\ NoLoop(next, next[tracker])
           /\ tracker \notin Chain(next, trackers) /\ tracker \notin Chain(next, keepers)
           /\ tracker \notin InHand /\ tracker \notin orphans
<1>1. next \in Links /\ tracker \in Pointers /\ tracker \in Trackers
  BY DEF MemoryInv, MemoryTypeOK, Pointers
<1>2. Chain(next, tracker) = {tracker} \cup Chain(next, next[tracker])
  BY <1>1, ChainUnfolds
<1>3. next[tracker] \in Pointers
  BY <1>1 DEF Links
<1>4. tracker \notin Chain(next, next[tracker]) /\ NoLoop(next, next[tracker])
  BY <1>2 DEF MemoryInv, ListsRight, NoLoop
<1>5. tracker \in malloced /\ tracker \notin Chain(next, trackers) /\ tracker \notin Kept
      /\ tracker \notin InHand /\ tracker \notin orphans
  BY <1>2 DEF MemoryInv, Placed, Apart
<1> QED
  BY <1>1, <1>2, <1>3, <1>4, <1>5, KeepersAre

\* A tracker that the main thread may reap is no live thread's: either its
\* thread is dead, or it is the main thread, which frees all.
LEMMA ReapedIsUnused ==
    ASSUME MemoryInv, pc[Main] = "walk", NEW a \in Trackers, Reap(a), NEW t \in Threads, tid[a] = t
    PROVE  held[t] = {}
<1>1. CASE thread_tid[Main] = tid[a]
  BY <1>1, MainAssumption, TidsAssumption DEF MemoryInv, BlocksRight, HoldersRight, Reap
<1>2. CASE thread_tid[Main] # tid[a]
  BY <1>2 DEF MemoryInv, HoldersRight, Reap
<1> QED
  BY <1>1, <1>2

\* A tracker and its block are freed.
LEMMA FreeOneKeeps == ASSUME MemoryInv, FreeOne PROVE MemoryInv'
<1> USE NullAssumption, AddressesAssumption, MainAssumption
<1>1. PICK x, o, r : x = tracker /\ o = memory[tracker] /\ r = next[tracker]
  OBVIOUS
<1>2. /\ pc[Main] = "walk" /\ x # NULL /\ Reap(x) /\ tracker' = r /\ malloced' = malloced \ {x, o}
      /\ next' = [next EXCEPT ![x] = NULL] /\ tid' = [tid EXCEPT ![x] = Main] /\ memory' = [memory EXCEPT ![x] = NULL]
      /\ UNCHANGED <<trackers, thread_tid, alive, pc, my, what, keepers, last, held, orphans>>
  BY <1>1 DEF FreeOne, At
<1>3. MemoryTypeOK
  BY DEF MemoryInv
<1>4. /\ x \in Trackers /\ r \in Pointers /\ x \in malloced
      /\ Chain(next, tracker) = {x} \cup Chain(next, r)
      /\ x \notin Chain(next, r) /\ NoLoop(next, r)
      /\ x \notin Chain(next, trackers) /\ x \notin Chain(next, keepers)
      /\ x \notin InHand /\ x \notin orphans
  BY <1>1, <1>2, HeadOfWalk
<1>5. /\ \A c \in Trackers : next'[c] = IF c = x THEN NULL ELSE next[c]
      /\ \A c \in Trackers : tid'[c] = IF c = x THEN Main ELSE tid[c]
      /\ \A c \in Trackers : memory'[c] = IF c = x THEN NULL ELSE memory[c]
  BY <1>2, <1>3, <1>4 DEF MemoryTypeOK, Links
<1>6. MemoryTypeOK'
  <2>1. next' \in Links /\ tid' \in [Trackers -> Threads] /\ memory' \in [Trackers -> Blocks \cup {NULL}]
    BY <1>2, <1>3 DEF MemoryTypeOK, Links, Pointers
  <2> QED
    BY <1>2, <1>3, <1>4, <2>1 DEF MemoryTypeOK
<1>7. next \in Links /\ next' \in Links /\ trackers \in Pointers /\ keepers \in Pointers
  BY <1>3, <1>6 DEF MemoryTypeOK
<1>8. /\ \A c \in Chain(next, r) : next'[c] = next[c]
      /\ \A c \in Chain(next, trackers) : next'[c] = next[c]
      /\ \A c \in Chain(next, keepers) : next'[c] = next[c]
  BY <1>4, <1>5, <1>7, ChainIsLeast
<1>9. /\ Chain(next', r) = Chain(next, r) /\ Chain(next', trackers) = Chain(next, trackers)
      /\ Chain(next', keepers) = Chain(next, keepers)
  BY <1>4, <1>7, <1>8, ChainSame
<1>10. NoLoop(next', r) /\ NoLoop(next', trackers) /\ NoLoop(next', keepers)
  <2>1. NoLoop(next, trackers) /\ NoLoop(next, keepers)
    BY DEF MemoryInv, ListsRight
  <2> QED
    BY <1>4, <1>7, <1>8, <2>1, NoLoopSame
<1>11. Kept' = Kept /\ InHand' = InHand
  BY <1>2, <1>9 DEF Kept, InHand
<1>12. ListsRight'
  <2>1. last # NULL => last \in Chain(next, keepers) /\ next'[last] = next[last]
    BY <1>8 DEF MemoryInv, ListsRight
  <2> QED
    BY <1>2, <1>9, <1>10, <2>1 DEF MemoryInv, ListsRight
<1>13. o \in Blocks
  BY <1>1, <1>3, <1>4 DEF MemoryInv, BlocksRight, MemoryTypeOK
<1>14. Placed'
  <2>1. malloced' \cap Trackers = (malloced \cap Trackers) \ {x}
    BY <1>2, <1>13
  <2>2. x \notin Kept
    BY <1>4 DEF Kept
  <2>3. /\ Chain(next, trackers)' = Chain(next, trackers) /\ Chain(next, tracker)' = Chain(next, r)
        /\ Chain(next, r) = Chain(next, tracker) \ {x} /\ orphans' = orphans
    BY <1>2, <1>4, <1>9
  <2>4. /\ malloced \cap Trackers = Chain(next, trackers) \cup InHand \cup Chain(next, tracker) \cup Kept \cup orphans
        /\ Apart(Chain(next, trackers), InHand, Chain(next, tracker), Kept, orphans)
    BY DEF MemoryInv, Placed
  <2>5. malloced' \cap Trackers = Chain(next, trackers) \cup InHand \cup Chain(next, r) \cup Kept \cup orphans
    BY <1>4, <2>1, <2>2, <2>3, <2>4
  <2>6. Apart(Chain(next, trackers), InHand, Chain(next, r), Kept, orphans)
    BY <2>3, <2>4 DEF Apart
  <2> QED
    BY <1>11, <2>3, <2>5, <2>6 DEF Placed
<1>15. HandsRight'
  <2>1. \A t \in Threads : my[t] # NULL => my[t] \in Trackers /\ my[t] # x
    BY <1>3, <1>4 DEF MemoryTypeOK, Pointers, InHand
  <2> QED
    BY <1>2, <1>5, <2>1 DEF MemoryInv, HandsRight
<1>16. BlocksRight /\ o = memory[x]
  BY <1>1 DEF MemoryInv
<1>17. /\ \A c \in Trackers : c # x => memory[c] # o
       /\ \A c \in Trackers : c \in malloced' <=> c \in malloced /\ c # x
       /\ \A c \in Blocks : c \in malloced' <=> c \in malloced /\ c # o
  BY <1>2, <1>4, <1>13, <1>16 DEF BlocksRight
<1>18. BlocksRight'
  <2>1. \A c \in Trackers : memory'[c] # NULL <=> c \in malloced' /\ c \notin orphans'
    BY <1>2, <1>5, <1>16, <1>17 DEF BlocksRight
  <2>2. \A c \in Trackers : memory'[c] # NULL => memory'[c] \in malloced'
    BY <1>3, <1>5, <1>16, <1>17 DEF BlocksRight, MemoryTypeOK
  <2>3. \A c, d \in Trackers : memory'[c] = memory'[d] /\ memory'[c] # NULL => c = d
    BY <1>5, <1>16 DEF BlocksRight
  <2> QED
    BY <1>2, <1>16, <2>1, <2>2, <2>3 DEF BlocksRight
<1>19. HoldersRight'
  <2>1. HoldersRight
    BY DEF MemoryInv
  <2>2. ASSUME NEW u \in Threads, NEW c \in held[u] PROVE \E d \in Trackers : memory'[d] = c /\ tid'[d] = u
    <3>1. PICK d \in Trackers : memory[d] = c /\ tid[d] = u
      BY <2>1 DEF HoldersRight
    <3>2. d # x
      BY <1>2, <1>4, <3>1, ReapedIsUnused
    <3> QED
      BY <1>5, <3>1, <3>2
  <2> QED
    BY <1>2, <2>1, <2>2 DEF HoldersRight
<1> QED
  BY <1>6, <1>12, <1>14, <1>15, <1>18, <1>19 DEF MemoryInv
\* A tracker is kept: it becomes the head of the keepers.
LEMMA KeepOneKeeps == ASSUME MemoryInv, KeepOne PROVE MemoryInv'
<1> USE NullAssumption, MainAssumption
<1>1. PICK x, r, k : x = tracker /\ r = next[tracker] /\ k = keepers
  OBVIOUS
<1>2. /\ pc[Main] = "walk" /\ x # NULL /\ tracker' = r /\ last' = IF last = NULL THEN x ELSE last
      /\ next' = [next EXCEPT ![x] = k] /\ keepers' = x
      /\ UNCHANGED <<trackers, tid, memory, malloced, thread_tid, alive, pc, my, what, held, orphans>>
  BY <1>1 DEF KeepOne, At
<1>3. MemoryTypeOK
  BY DEF MemoryInv
<1>4. /\ x \in Trackers /\ r \in Pointers /\ x \in malloced
      /\ Chain(next, tracker) = {x} \cup Chain(next, r)
      /\ x \notin Chain(next, r) /\ NoLoop(next, r)
      /\ x \notin Chain(next, trackers) /\ x \notin Chain(next, k)
      /\ x \notin InHand /\ x \notin orphans
  BY <1>1, <1>2, HeadOfWalk
<1>5. \A c \in Trackers : next'[c] = IF c = x THEN k ELSE next[c]
  BY <1>2, <1>3, <1>4 DEF MemoryTypeOK, Links
<1>6. MemoryTypeOK'
  <2>1. k \in Pointers /\ x \in Pointers
    BY <1>1, <1>3 DEF MemoryTypeOK
  <2>2. next' \in Links
    BY <1>2, <1>3, <2>1 DEF MemoryTypeOK, Links
  <2> QED
    BY <1>2, <1>3, <1>4, <2>1, <2>2 DEF MemoryTypeOK
<1>7. next \in Links /\ next' \in Links /\ trackers \in Pointers /\ k \in Pointers
  BY <1>1, <1>3, <1>6 DEF MemoryTypeOK
<1>8. /\ \A c \in Chain(next, r) : next'[c] = next[c]
      /\ \A c \in Chain(next, trackers) : next'[c] = next[c]
      /\ \A c \in Chain(next, k) : next'[c] = next[c]
  BY <1>4, <1>5, <1>7, ChainIsLeast
<1>9. /\ Chain(next', r) = Chain(next, r) /\ Chain(next', trackers) = Chain(next, trackers)
      /\ Chain(next', k) = Chain(next, k)
  BY <1>4, <1>7, <1>8, ChainSame
<1>10. NoLoop(next', r) /\ NoLoop(next', trackers) /\ NoLoop(next', k)
  <2>1. NoLoop(next, trackers) /\ NoLoop(next, k)
    BY <1>1 DEF MemoryInv, ListsRight
  <2> QED
    BY <1>4, <1>7, <1>8, <2>1, NoLoopSame
<1>11. Chain(next', x) = {x} \cup Chain(next, k) /\ NoLoop(next', x)
  <2>1. next'[x] = k
    BY <1>4, <1>5
  <2>2. x \notin Chain(next', next'[x]) /\ NoLoop(next', next'[x])
    BY <1>4, <1>9, <1>10, <2>1
  <2> QED
    BY <1>4, <1>7, <1>9, <2>1, <2>2, ChainGrows
<1>12. Kept = Chain(next, k) /\ Kept' = {x} \cup Kept /\ InHand' = InHand
  BY <1>1, <1>2, <1>11 DEF Kept, InHand
<1>13. ListsRight'
  <2>1. CASE k = NULL
    <3>1. last' = x /\ next'[x] = NULL
      BY <1>1, <1>2, <1>4, <1>5, <2>1 DEF MemoryInv, ListsRight
    <3> QED
      BY <1>2, <1>4, <1>10, <1>11, <3>1 DEF ListsRight
  <2>2. CASE k # NULL
    <3>1. last # NULL /\ last \in Chain(next, k) /\ next[last] = NULL
      BY <1>1, <1>2, <2>2, <1>7, ChainIsLeast DEF MemoryInv, ListsRight
    <3>2. last' = last /\ next'[last] = NULL
      BY <1>2, <1>8, <3>1
    <3> QED
      BY <1>2, <1>4, <1>10, <1>11, <3>1, <3>2 DEF ListsRight
  <2> QED
    BY <2>1, <2>2
<1>14. Placed'
  <2>1. /\ Chain(next, trackers)' = Chain(next, trackers) /\ Chain(next, tracker)' = Chain(next, r)
        /\ Chain(next, r) = Chain(next, tracker) \ {x} /\ x \in Chain(next, tracker)
        /\ malloced' = malloced /\ orphans' = orphans
    BY <1>2, <1>4, <1>9
  <2>2. /\ malloced \cap Trackers = Chain(next, trackers) \cup InHand \cup Chain(next, tracker) \cup Kept \cup orphans
        /\ Apart(Chain(next, trackers), InHand, Chain(next, tracker), Kept, orphans)
    BY DEF MemoryInv, Placed
  <2>3. malloced \cap Trackers = Chain(next, trackers) \cup InHand \cup Chain(next, r) \cup ({x} \cup Kept) \cup orphans
    BY <2>1, <2>2
  <2>4. Apart(Chain(next, trackers), InHand, Chain(next, r), {x} \cup Kept, orphans)
    BY <2>1, <2>2 DEF Apart
  <2> QED
    BY <1>12, <2>1, <2>3, <2>4 DEF Placed
<1>15. HandsRight' /\ BlocksRight' /\ HoldersRight'
  BY <1>2 DEF MemoryInv, HandsRight, BlocksRight, HoldersRight
<1> QED
  BY <1>6, <1>13, <1>14, <1>15 DEF MemoryInv

\* The end of the keepers is linked to the head of the list, for the first time
\* or once more because a thread has pushed since: what is kept stays the same.
LEMMA KeepersLinked ==
    ASSUME MemoryInv, tracker = NULL, keepers # NULL, pc[Main] \in {"walk", "restore"},
           next' = [next EXCEPT ![last] = trackers],
           UNCHANGED <<trackers, tid, memory, malloced, thread_tid, alive, my, what, tracker, keepers, last, held, orphans>>,
           pc' = [pc EXCEPT ![Main] = "restore"]
    PROVE  MemoryInv'
<1> USE NullAssumption, MainAssumption
<1>1. PICK l, h, k : l = last /\ h = trackers /\ k = keepers
  OBVIOUS
<1>2. MemoryTypeOK
  BY DEF MemoryInv
<1>3. next \in Links /\ h \in Pointers /\ k \in Pointers /\ NoLoop(next, k) /\ NoLoop(next, h)
  BY <1>1, <1>2 DEF MemoryTypeOK, MemoryInv, ListsRight
<1>4. l \in Trackers /\ l \in Chain(next, k) /\ next[l] \in Pointers /\ l # NULL
  BY <1>1, <1>3, ChainWithin DEF MemoryInv, ListsRight
<1>5. Chain(next, NULL) = {}
  BY <1>3, ChainUnfolds DEF Pointers
<1>6. Kept = Chain(next, k) \ Chain(next, next[l]) /\ Chain(next, next[l]) \subseteq Chain(next, h)
  <2>1. CASE pc[Main] = "walk"
    BY <1>1, <1>4, <1>5, <2>1 DEF MemoryInv, ListsRight, Kept
  <2>2. CASE pc[Main] = "restore"
    BY <1>1, <2>2 DEF MemoryInv, ListsRight, Kept
  <2> QED
    BY <2>1, <2>2
<1>7. (Chain(next, k) \ Chain(next, next[l])) \cap Chain(next, h) = {}
  BY <1>1, <1>6 DEF MemoryInv, Placed, Apart
<1>8. next' \in Links /\ next' = [next EXCEPT ![l] = h] /\ next'[l] = h
  BY <1>1, <1>3, <1>4 DEF Links
<1>9. /\ Chain(next', h) = Chain(next, h) /\ NoLoop(next', h)
      /\ Chain(next', k) = Kept \cup Chain(next, h)
      /\ NoLoop(next', k) /\ l \in Chain(next', k)
  <2>1. PICK f, g : f = next /\ g = next'
    OBVIOUS
  <2>2. /\ f \in Links /\ g \in Links /\ g[l] = h /\ k \in Pointers /\ h \in Pointers /\ l \in Chain(f, k)
        /\ \A b \in Trackers : b # l => g[b] = f[b]
    BY <1>3, <1>4, <1>8, <2>1 DEF Links
  <2>3. /\ NoLoop(f, k) /\ NoLoop(f, h) /\ Chain(f, f[l]) \subseteq Chain(f, h)
        /\ (Chain(f, k) \ Chain(f, f[l])) \cap Chain(f, h) = {}
    BY <1>3, <1>6, <1>7, <2>1
  <2>4. /\ Chain(g, h) = Chain(f, h) /\ NoLoop(g, h)
        /\ Chain(g, k) = (Chain(f, k) \ Chain(f, f[l])) \cup Chain(f, h)
        /\ NoLoop(g, k) /\ l \in Chain(g, k)
    BY <2>2, <2>3, ChainLinked
  <2> QED
    BY <1>6, <2>1, <2>4
<1>10. Chain(next', NULL) = {} /\ NoLoop(next', NULL)
  <2>1. Chain(next', NULL) = {}
    BY <1>8, ChainUnfolds DEF Pointers
  <2> QED
    BY <2>1 DEF NoLoop
<1>11. \A u \in Threads : pc'[u] = IF u = Main THEN "restore" ELSE pc[u]
  BY <1>2 DEF MemoryTypeOK
<1>12. Kept' = Kept /\ InHand' = InHand
  <2>1. Kept' = Chain(next', k) \ Chain(next', h)
    BY <1>1, <1>8, <1>11 DEF Kept
  <2> QED
    BY <1>6, <1>7, <1>9, <2>1 DEF InHand
<1>13. ListsRight'
  BY <1>1, <1>4, <1>8, <1>9, <1>10, <1>11 DEF ListsRight
<1>14. MemoryTypeOK'
  <2>1. pc' \in [Threads -> {"idle", "push", "walk", "restore"}]
    BY <1>2 DEF MemoryTypeOK
  <2> QED
    BY <1>2, <1>8, <2>1 DEF MemoryTypeOK
<1>15. Placed'
  BY <1>1, <1>5, <1>9, <1>10, <1>12 DEF MemoryInv, Placed, Apart
<1>16. HandsRight' /\ BlocksRight' /\ HoldersRight'
  <2>1. HandsRight'
    BY <1>11 DEF MemoryInv, HandsRight
  <2>2. BlocksRight' /\ HoldersRight'
    BY <1>11 DEF MemoryInv, BlocksRight, HoldersRight
  <2> QED
    BY <2>1, <2>2
<1> QED
  BY <1>13, <1>14, <1>15, <1>16 DEF MemoryInv

LEMMA ReadHeadKeeps == ASSUME MemoryInv, ReadHead PROVE MemoryInv'
<1> USE MainAssumption
<1>1. /\ pc[Main] = "walk" /\ tracker = NULL
      /\ UNCHANGED <<trackers, tid, memory, malloced, thread_tid, alive, my, what, tracker, keepers, last, held, orphans>>
  BY DEF ReadHead, At, callvars
<1>2. CASE keepers # NULL
  BY <1>1, <1>2, KeepersLinked DEF ReadHead, Goto
<1>3. CASE keepers = NULL
  <2>1. next' = next /\ pc' = [pc EXCEPT ![Main] = "idle"]
    BY <1>3 DEF ReadHead, Goto
  <2>2. MemoryTypeOK
    BY DEF MemoryInv
  <2>3. \A u \in Threads : pc'[u] = IF u = Main THEN "idle" ELSE pc[u]
    BY <2>1, <2>2 DEF MemoryTypeOK
  <2>4. MemoryTypeOK'
    <3>1. pc' \in [Threads -> {"idle", "push", "walk", "restore"}]
      BY <2>1, <2>2 DEF MemoryTypeOK
    <3> QED
      BY <1>1, <2>1, <2>2, <3>1 DEF MemoryTypeOK
  <2>5. ListsRight'
    BY <1>1, <1>3, <2>1, <2>3 DEF MemoryInv, ListsRight
  <2>6. Kept' = Kept /\ InHand' = InHand
    BY <1>1, <2>1, <2>3 DEF Kept, InHand
  <2>7. Placed'
    BY <1>1, <2>1, <2>6 DEF MemoryInv, Placed, Apart
  <2>8. HandsRight'
    BY <1>1, <2>3 DEF MemoryInv, HandsRight
  <2>9. BlocksRight' /\ HoldersRight'
    BY <1>1, <2>3 DEF MemoryInv, BlocksRight, HoldersRight
  <2> QED
    BY <2>4, <2>5, <2>7, <2>8, <2>9 DEF MemoryInv
<1> QED
  BY <1>2, <1>3

LEMMA PutBackAgainKeeps == ASSUME MemoryInv, PutBackAgain PROVE MemoryInv'
<1>1. /\ pc[Main] = "restore" /\ next' = [next EXCEPT ![last] = trackers] /\ pc' = pc
      /\ UNCHANGED <<trackers, tid, memory, malloced, thread_tid, alive, my, what, tracker, keepers, last, held, orphans>>
  BY DEF PutBackAgain, At, callvars
<1>2. pc' = [pc EXCEPT ![Main] = "restore"]
  BY <1>1, MainAssumption DEF MemoryInv, MemoryTypeOK
<1>3. tracker = NULL /\ keepers # NULL
  BY <1>1 DEF MemoryInv, ListsRight
<1> QED
  BY <1>1, <1>2, <1>3, KeepersLinked

\* The compare and swap succeeds: the keepers, and behind them what was pushed
\* meanwhile, are the list.
LEMMA PutBackKeeps == ASSUME MemoryInv, PutBack PROVE MemoryInv'
<1> USE NullAssumption, MainAssumption
<1>1. PICK k, h : k = keepers /\ h = trackers
  OBVIOUS
<1>2. /\ pc[Main] = "restore" /\ trackers = next[last] /\ trackers' = k
      /\ pc' = [pc EXCEPT ![Main] = "idle"] /\ keepers' = NULL /\ last' = NULL
      /\ UNCHANGED <<next, tid, memory, malloced, thread_tid, alive, my, what, tracker, held, orphans>>
  BY <1>1 DEF PutBack, At, Goto
<1>3. MemoryTypeOK
  BY DEF MemoryInv
<1>4. \A u \in Threads : pc'[u] = IF u = Main THEN "idle" ELSE pc[u]
  BY <1>2, <1>3 DEF MemoryTypeOK
<1>5. MemoryTypeOK'
  <2>1. pc' \in [Threads -> {"idle", "push", "walk", "restore"}]
    BY <1>2, <1>3 DEF MemoryTypeOK
  <2>2. k \in Pointers /\ NULL \in Pointers
    BY <1>1, <1>3 DEF MemoryTypeOK, Pointers
  <2> QED
    BY <1>2, <1>3, <2>1, <2>2 DEF MemoryTypeOK
<1>6. tracker = NULL /\ keepers # NULL
  BY <1>2 DEF MemoryInv, ListsRight
<1>7. Chain(next, NULL) = {} /\ NoLoop(next, NULL)
  <2>1. Chain(next, NULL) = {}
    BY <1>3, ChainUnfolds DEF MemoryTypeOK, Pointers
  <2> QED
    BY <2>1 DEF NoLoop
<1>8. Chain(next, k) = Kept \cup Chain(next, h) /\ NoLoop(next, k)
  <2>1. next \in Links /\ k \in Pointers /\ last \in Chain(next, k) /\ NoLoop(next, k)
    BY <1>1, <1>3, <1>6 DEF MemoryInv, ListsRight, MemoryTypeOK
  <2>2. Chain(next, h) \subseteq Chain(next, k)
    BY <1>1, <1>2, <2>1, ChainWithin
  <2>3. Kept = Chain(next, k) \ Chain(next, h)
    BY <1>1, <1>2 DEF Kept
  <2> QED
    BY <2>1, <2>2, <2>3
<1>9. Kept' = {} /\ InHand' = InHand
  BY <1>2, <1>7 DEF Kept, InHand
<1>10. ListsRight'
  BY <1>2, <1>4, <1>6, <1>7, <1>8 DEF ListsRight
<1>11. Placed'
  BY <1>1, <1>2, <1>6, <1>7, <1>8, <1>9 DEF MemoryInv, Placed, Apart
<1>12. HandsRight'
  BY <1>2, <1>4 DEF MemoryInv, HandsRight
<1>13. BlocksRight' /\ HoldersRight'
  BY <1>2, <1>4 DEF MemoryInv, BlocksRight, HoldersRight
<1> QED
  BY <1>5, <1>10, <1>11, <1>12, <1>13 DEF MemoryInv

-----------------------------------------------------------------------------
(* The theorems.                                                           *)

LEMMA MemoryStarts == ASSUME MemoryInit PROVE MemoryInv
<1> USE NullAssumption, MainAssumption DEF MemoryInit
<1>1. MemoryTypeOK
  BY DEF MemoryTypeOK, Links, Pointers
<1>2. Chain(next, NULL) = {} /\ NoLoop(next, NULL)
  <2>1. Chain(next, NULL) = {}
    BY <1>1, ChainUnfolds DEF MemoryTypeOK, Pointers
  <2> QED
    BY <2>1 DEF NoLoop
<1>3. ListsRight
  BY <1>2 DEF ListsRight
<1>4. HandsRight
  BY DEF HandsRight
<1>5. BlocksRight /\ HoldersRight
  BY DEF BlocksRight, HoldersRight
<1>6. Kept = {} /\ InHand = {}
  BY <1>2 DEF Kept, InHand
<1>7. Placed
  BY <1>2, <1>6 DEF Placed, Apart
<1> QED
  BY <1>1, <1>3, <1>4, <1>5, <1>7 DEF MemoryInv

\* However the threads' pushes, reallocations and ends interleave with the main
\* thread's walk of sxe_thread_memory_free, the inductive invariant holds.
THEOREM MemoryInvHolds == MemorySpec => []MemoryInv
<1>1. ASSUME MemoryInv, [MemoryNext]_memvars PROVE MemoryInv'
  <2>1. CASE MemoryNext
    <3>1. ASSUME NEW t \in Threads, Allocate(t) \/ AllocateFails(t) \/ Adds(t) \/ sxe_thread_realloc(t) \/ Exit(t) \/ Create(t)
          PROVE  MemoryInv'
      BY <1>1, <3>1, AllocateKeeps, AllocateFailsKeeps, PushKeeps, PushAgainKeeps, ReallocKeeps, ThreadsKeep DEF Adds
    <3>2. ASSUME NEW w \in {"UNUSED", "ALL"}, TakeAll(w) PROVE MemoryInv'
      BY <1>1, <3>2, TakeAllKeeps
    <3>3. CASE Frees
      BY <1>1, <3>3, FreeOneKeeps, KeepOneKeeps, ReadHeadKeeps, PutBackKeeps, PutBackAgainKeeps DEF Frees
    <3> QED
      BY <2>1, <3>1, <3>2, <3>3 DEF MemoryNext
  <2>2. CASE UNCHANGED memvars
    <3>1. UNCHANGED <<trackers, next, tid, memory, malloced, thread_tid, alive, pc, my, what, tracker, keepers, last, held, orphans>>
      BY <2>2 DEF memvars, callvars
    <3>2. MemoryTypeOK' /\ ListsRight' /\ HandsRight'
      BY <1>1, <3>1 DEF MemoryInv, MemoryTypeOK, ListsRight, HandsRight
    <3>3. BlocksRight' /\ HoldersRight'
      BY <1>1, <3>1 DEF MemoryInv, BlocksRight, HoldersRight
    <3>4. Placed'
      BY <1>1, <3>1 DEF MemoryInv, Placed, Apart, Kept, InHand
    <3> QED
      BY <3>2, <3>3, <3>4 DEF MemoryInv
  <2> QED
    BY <1>1, <2>1, <2>2
<1> QED
  BY <1>1, MemoryStarts, PTL DEF MemorySpec

\* No tracker is lost, freed while linked or reachable twice, and a block that a
\* live thread may use stays allocated and tracked for it: sxe-thread-memory.c is
\* right for any number of threads, trackers and blocks.
THEOREM MemoryIsSound == MemorySpec => []MemorySound
<1>1. ASSUME MemoryInv PROVE MemorySound
  <2>1. TrackersConserved
    BY <1>1, PlacedConserves DEF MemoryInv
  <2>2. HeldMemoryValid
    <3> SUFFICES ASSUME NEW t \in alive, NEW b \in held[t]
                 PROVE  b \in malloced /\ \E a \in malloced \cap Trackers : memory[a] = b /\ tid[a] = t
      BY DEF HeldMemoryValid
    <3>1. t \in Threads /\ b # NULL
      BY <1>1, NullAssumption DEF MemoryInv, MemoryTypeOK
    <3>2. PICK a \in Trackers : memory[a] = b /\ tid[a] = t
      BY <1>1, <3>1 DEF MemoryInv, HoldersRight
    <3>3. a \in malloced /\ b \in malloced
      BY <1>1, <3>1, <3>2 DEF MemoryInv, BlocksRight
    <3> QED
      BY <3>2, <3>3
  <2> QED
    BY <2>1, <2>2 DEF MemorySound
<1> QED
  BY <1>1, MemoryInvHolds, PTL

-----------------------------------------------------------------------------
(* A string holds what was written to it, of any sizes and any texts, but  *)
(* for what did not fit; the flag tells of that, unless it was a time.     *)

IsStr(s) == \E k, z, l, c, a, o, w, x, m, p, n :
    s = [kind |-> k, size |-> z, length |-> l, consumed |-> c, at |-> a, overflow |-> o,
         wrote |-> w, lost |-> x, misplaced |-> m, spilled |-> p, writes |-> n]

IsText(text) == \E S : text \in Seq(S)

\* The fields that a string and what was made of it share.
SameSpace(s, y) == y.kind = s.kind /\ y.size = s.size /\ y.consumed = s.consumed

\* The part that also holds of a string in which strncat has misplaced a text.
SpaceOK(s) == /\ IsStr(s)
              /\ s.kind \in {"cstr", "buffer"} /\ s.size \in Nat \ {0}
              /\ s.length \in 0 .. s.size /\ IsText(s.wrote) /\ s.length <= Len(s.wrote)
              /\ s.misplaced => s.kind = "cstr"
              /\ s.spilled => s.kind = "cstr"

\* Something of a text, and not only a time, was lost.
TextLost(lost) == lost \ {"time"} # {}

BytesKept(s) == /\ \A i \in 1 .. s.length : s.at[i - 1] = s.wrote[i]
                /\ s.overflow <=> TextLost(s.lost)

StrOK(s) == SpaceOK(s) /\ (~s.misplaced => BytesKept(s))

LEMMA TextIsLost ==
    ASSUME NEW lost
    PROVE  TextLost(lost \cup {"text"}) /\ (TextLost(lost \cup {"time"}) <=> TextLost(lost)) /\ ~TextLost({})
  BY DEF TextLost

IsPutIn(y, s, i, bytes) ==
    /\ IsStr(y) /\ SameSpace(s, y)
    /\ y.length = s.length /\ y.wrote = s.wrote /\ y.misplaced = s.misplaced
    /\ y.lost = s.lost /\ y.overflow = s.overflow
    /\ y.at = [j \in 0 .. s.size |-> IF j \in i .. (i + Len(bytes) - 1) THEN bytes[j - i + 1] ELSE s.at[j]]
    /\ y.spilled = (s.spilled \/ (bytes # <<>> /\ i + Len(bytes) > s.size))

LEMMA PutBytesIs ==
    ASSUME NEW s, IsStr(s), NEW i, NEW bytes
    PROVE  IsPutIn(PutBytes(s, i, bytes), s, i, bytes)
<1> DEFINE y == PutBytes(s, i, bytes)
<1>1. PICK a : a = [j \in 0 .. s.size |-> IF j \in i .. (i + Len(bytes) - 1) THEN bytes[j - i + 1] ELSE s.at[j]]
  OBVIOUS
<1>2. PICK p : p = (s.spilled \/ (bytes # <<>> /\ i + Len(bytes) > s.size))
  OBVIOUS
<1>3. y = [s EXCEPT !.at = a, !.spilled = p]
  BY <1>1, <1>2 DEF PutBytes
<1> HIDE DEF y
<1>4. /\ IsStr(y) /\ SameSpace(s, y)
      /\ y.length = s.length /\ y.wrote = s.wrote /\ y.misplaced = s.misplaced
      /\ y.lost = s.lost /\ y.overflow = s.overflow /\ y.at = a /\ y.spilled = p
  <2> PICK k, z, l, c, a0, o, w, x, m, p0, n :
         s = [kind |-> k, size |-> z, length |-> l, consumed |-> c, at |-> a0, overflow |-> o,
              wrote |-> w, lost |-> x, misplaced |-> m, spilled |-> p0, writes |-> n]
    BY DEF IsStr
  <2>1. y = [kind |-> k, size |-> z, length |-> l, consumed |-> c, at |-> a, overflow |-> o,
             wrote |-> w, lost |-> x, misplaced |-> m, spilled |-> p, writes |-> n]
    BY <1>3
  <2>2. IsStr(y)
    BY <2>1 DEF IsStr
  <2> QED
    BY <2>1, <2>2 DEF SameSpace
<1>5. IsPutIn(y, s, i, bytes)
  BY <1>1, <1>2, <1>4 DEF IsPutIn
<1> QED
  BY <1>5 DEF y

Holds(y, s, text, l, over) ==
    /\ IsStr(y) /\ SameSpace(s, y) /\ y.at = s.at /\ y.spilled = s.spilled /\ y.misplaced = s.misplaced
    /\ y.wrote = SubSeq(s.wrote, 1, s.length) \o text /\ y.length = l
    /\ y.lost = IF l < Len(SubSeq(s.wrote, 1, s.length) \o text) THEN s.lost \cup {"text"} ELSE s.lost
    /\ y.overflow = (s.overflow \/ over)

LEMMA HoldingIs ==
    ASSUME NEW s, IsStr(s), NEW text, NEW l, NEW over
    PROVE  Holds(Holding(s, text, l, over), s, text, l, over)
<1> DEFINE y == Holding(s, text, l, over)
<1>1. PICK w : w = SubSeq(s.wrote, 1, s.length) \o text
  OBVIOUS
<1>2. PICK x : x = IF l < Len(w) THEN s.lost \cup {"text"} ELSE s.lost
  OBVIOUS
<1>3. PICK o : o = (s.overflow \/ over)
  OBVIOUS
<1>v. PICK v : v = s.writes + 1
  OBVIOUS
<1>4. y = [s EXCEPT !.wrote = w, !.length = l, !.lost = x, !.overflow = o, !.writes = v]
  BY <1>1, <1>2, <1>3, <1>v DEF Holding
<1> HIDE DEF y
<1>5. /\ IsStr(y) /\ SameSpace(s, y) /\ y.at = s.at /\ y.spilled = s.spilled /\ y.misplaced = s.misplaced
      /\ y.wrote = w /\ y.length = l /\ y.lost = x /\ y.overflow = o
  <2> PICK k, z, l0, c, a, o0, w0, x0, m, p, n :
         s = [kind |-> k, size |-> z, length |-> l0, consumed |-> c, at |-> a, overflow |-> o0,
              wrote |-> w0, lost |-> x0, misplaced |-> m, spilled |-> p, writes |-> n]
    BY DEF IsStr
  <2>1. y = [kind |-> k, size |-> z, length |-> l, consumed |-> c, at |-> a, overflow |-> o,
             wrote |-> w, lost |-> x, misplaced |-> m, spilled |-> p, writes |-> v]
    BY <1>4
  <2>2. IsStr(y)
    BY <2>1 DEF IsStr
  <2> QED
    BY <2>1, <2>2 DEF SameSpace
<1>6. Holds(y, s, text, l, over)
  BY <1>1, <1>2, <1>3, <1>5 DEF Holds
<1> QED
  BY <1>6 DEF y

\* The text that a string should hold once a text was appended.
IsWhole(whole, wrote, l, text) ==
    /\ IsText(whole) /\ Len(whole) = l + Len(text) /\ Len(text) \in Nat
    /\ \A i \in 1 .. l : whole[i] = wrote[i]
    /\ \A i \in 1 .. Len(text) : whole[l + i] = text[i]

LEMMA WholeIs ==
    ASSUME NEW wrote, IsText(wrote), NEW text, IsText(text), NEW l \in Nat, l <= Len(wrote)
    PROVE  IsWhole(SubSeq(wrote, 1, l) \o text, wrote, l, text)
<1> DEFINE whole == SubSeq(wrote, 1, l) \o text
<1> PICK S, T : wrote \in Seq(S) /\ text \in Seq(T)
  BY DEF IsText
<1> DEFINE U == S \cup T
<1>1. wrote \in Seq(U) /\ text \in Seq(U)
  <2>1. S \subseteq U /\ T \subseteq U
    OBVIOUS
  <2> HIDE DEF U
  <2> QED
    BY <2>1
<1> HIDE DEF U
<1>2. PICK k \in Nat, n \in Nat : k = Len(wrote) /\ n = Len(text)
  BY <1>1
<1>3. PICK first : first = SubSeq(wrote, 1, l)
  OBVIOUS
<1>31. whole = first \o text
  BY <1>3
<1> HIDE DEF whole
<1>4. first \in Seq(U) /\ Len(first) = l /\ \A i \in 1 .. l : first[i] = wrote[i]
  BY <1>1, <1>3
<1>5. whole \in Seq(U) /\ Len(whole) = l + n
  BY <1>1, <1>2, <1>31, <1>4, ConcatProperties
<1>6. \A i \in 1 .. l : whole[i] = first[i]
  BY <1>1, <1>2, <1>31, <1>4, ConcatProperties
<1>7. ASSUME NEW i \in 1 .. n PROVE whole[l + i] = text[i]
  <2>1. PICK j : j = l + i
    OBVIOUS
  <2>2. j \in 1 .. l + n /\ j > l /\ j - l = i
    BY <2>1
  <2>3. whole[j] = text[j - l]
    <3>1. (first \o text)[j] = IF j <= Len(first) THEN first[j] ELSE text[j - Len(first)]
      <4>1. j \in 1 .. Len(first) + Len(text)
        BY <1>2, <1>4, <2>2
      <4> QED
        BY <1>1, <1>4, <4>1, ConcatProperties
    <3>2. ~(j <= Len(first)) /\ Len(first) = l
      BY <1>4, <2>2
    <3> QED
      BY <1>31, <3>1, <3>2
  <2> QED
    BY <2>1, <2>2, <2>3
<1> QED
  BY <1>2, <1>4, <1>5, <1>6, <1>7 DEF IsText, IsWhole, whole
\* The first l bytes once bytes that begin with the first n of a text were put where the string ends.
PutRight(s, put, text, l) == \A i \in 1 .. l : put.at[i - 1] = IF i <= s.length THEN s.at[i - 1] ELSE text[i - s.length]

\* The first n bytes of a text begin the bytes, length of them.
IsFirst(bytes, text, n, length) == Len(bytes) = length /\ \A i \in 1 .. n : bytes[i] = text[i]

LEMMA PlaceOf ==
    ASSUME NEW i \in Int, NEW k \in Int, NEW b \in Int, i > k, i <= k + b
    PROVE  i - 1 \in k .. (k + b - 1) /\ (i - 1) - k + 1 = i - k
  OBVIOUS

LEMMA BytesPut ==
    ASSUME NEW s, StrOK(s), NEW text, NEW n \in Nat, NEW size \in Nat, n <= size,
           NEW bytes, IsFirst(bytes, text, n, size),
           NEW put, put = PutBytes(s, s.length, bytes), NEW l \in Nat, l <= s.length + n, l <= s.size
    PROVE  PutRight(s, put, text, l)
<1> PICK b \in Nat : b = size /\ b = Len(bytes)
  BY DEF IsFirst
<1> PICK k \in Nat, z \in Nat : k = s.length /\ z = s.size
  BY DEF StrOK, SpaceOK
<1>0. n <= b /\ \A i \in 1 .. n : bytes[i] = text[i]
  BY DEF IsFirst
<1>1. put.at = [j \in 0 .. z |-> IF j \in k .. (k + b - 1) THEN bytes[j - k + 1] ELSE s.at[j]]
  <2>1. IsStr(s)
    BY DEF StrOK, SpaceOK
  <2>2. IsPutIn(put, s, s.length, bytes)
    BY <2>1, PutBytesIs
  <2> QED
    BY <2>2 DEF IsPutIn
<1> SUFFICES ASSUME NEW i \in 1 .. l PROVE put.at[i - 1] = IF i <= k THEN s.at[i - 1] ELSE text[i - k]
  BY DEF PutRight
<1>2. i - 1 \in 0 .. z
  OBVIOUS
<1>3. put.at[i - 1] = IF i - 1 \in k .. (k + b - 1) THEN bytes[(i - 1) - k + 1] ELSE s.at[i - 1]
  BY <1>1, <1>2
<1>4. CASE i <= k
  BY <1>3, <1>4
<1>5. CASE ~(i <= k)
  <2>1. i \in Int /\ i > k /\ i <= k + n /\ i <= k + b
    BY <1>0, <1>5
  <2>2. i - 1 \in k .. (k + b - 1) /\ (i - 1) - k + 1 = i - k
    BY <2>1, PlaceOf
  <2>3. i - k \in 1 .. n
    BY <2>1
  <2> QED
    BY <1>0, <1>3, <1>5, <2>2, <2>3
<1> QED
  BY <1>4, <1>5

\* What was put is held.
LEMMA HoldingKeeps ==
    ASSUME NEW s, StrOK(s), NEW text, IsText(text), NEW put,
           IsStr(put), SameSpace(s, put), put.length = s.length, put.wrote = s.wrote, put.misplaced = s.misplaced,
           put.lost = s.lost, put.overflow = s.overflow, put.spilled => s.kind = "cstr",
           NEW l \in 0 .. s.size, l <= s.length + Len(text), NEW over, over <=> l < s.length + Len(text),
           NEW y, y = Holding(put, text, l, over)
    PROVE  SpaceOK(y) /\ (~s.misplaced /\ PutRight(s, put, text, l) => BytesKept(y))
           /\ y.misplaced = s.misplaced /\ y.kind = s.kind
<1>1. PICK whole : whole = SubSeq(s.wrote, 1, s.length) \o text
  OBVIOUS
<1>2. PICK k \in Nat : k = s.length /\ k <= Len(s.wrote)
  BY DEF StrOK, SpaceOK
<1>3. /\ IsText(whole) /\ Len(whole) = k + Len(text) /\ Len(text) \in Nat
      /\ \A i \in 1 .. k : whole[i] = s.wrote[i]
      /\ \A i \in 1 .. Len(text) : whole[k + i] = text[i]
  <2>1. IsText(s.wrote)
    BY DEF StrOK, SpaceOK
  <2>2. PICK w : w = s.wrote
    OBVIOUS
  <2>3. IsWhole(SubSeq(w, 1, k) \o text, w, k, text)
    BY <1>2, <2>1, <2>2, WholeIs
  <2> QED
    BY <1>1, <1>2, <2>2, <2>3 DEF IsWhole
<1>4. /\ IsStr(y) /\ SameSpace(put, y) /\ y.at = put.at /\ y.spilled = put.spilled /\ y.misplaced = put.misplaced
      /\ y.wrote = whole /\ y.length = l
      /\ y.lost = (IF l < Len(whole) THEN s.lost \cup {"text"} ELSE s.lost) /\ y.overflow = (s.overflow \/ over)
  <2>1. Holds(y, put, text, l, over)
    BY HoldingIs
  <2> QED
    BY <1>1, <2>1 DEF Holds
<1>5. y.kind = s.kind /\ y.size = s.size
  BY <1>4 DEF SameSpace
<1>6. SpaceOK(y)
  BY <1>2, <1>3, <1>4, <1>5 DEF StrOK, SpaceOK
<1>7. ASSUME ~s.misplaced, PutRight(s, put, text, l) PROVE BytesKept(y)
  <2>1. over <=> l < Len(whole)
    BY <1>2, <1>3
  <2>2. s.overflow <=> TextLost(s.lost)
    BY <1>7 DEF StrOK, BytesKept
  <2>3. y.overflow <=> TextLost(y.lost)
    <3>1. CASE l < Len(whole)
      <4>1. TextLost(y.lost) /\ over
        BY <1>4, <2>1, <3>1, TextIsLost
      <4> QED
        BY <1>4, <4>1, Zenon
    <3>2. CASE ~(l < Len(whole))
      <4>1. y.lost = s.lost /\ ~over
        BY <1>4, <2>1, <3>2
      <4> QED
        BY <1>4, <2>2, <4>1, Zenon
    <3> QED
      BY <3>1, <3>2
  <2>4. ASSUME NEW i \in 1 .. l PROVE y.at[i - 1] = y.wrote[i]
    <3>1. put.at[i - 1] = IF i <= k THEN s.at[i - 1] ELSE text[i - k]
      BY <1>2, <1>7 DEF PutRight
    <3>2. CASE i <= k
      <4>1. i \in 1 .. k
        BY <3>2
      <4>2. s.at[i - 1] = s.wrote[i]
        BY <1>2, <1>7, <4>1 DEF StrOK, BytesKept
      <4> QED
        BY <1>3, <1>4, <3>1, <3>2, <4>1, <4>2
    <3>3. CASE ~(i <= k)
      <4>1. i - k \in 1 .. Len(text) /\ k + (i - k) = i
        BY <1>2, <1>3, <3>3
      <4> QED
        BY <1>3, <1>4, <3>1, <3>3, <4>1
    <3> QED
      BY <3>2, <3>3
  <2> QED
    BY <1>4, <2>3, <2>4 DEF BytesKept
<1> QED
  BY <1>4, <1>5, <1>6, <1>7
\* The first n bytes of a text, and those with a NUL after them.
LEMMA FirstBytes ==
    ASSUME NEW text, IsText(text), NEW n \in Nat, n <= Len(text)
    PROVE  /\ IsFirst(SubSeq(text, 1, n), text, n, n)
           /\ IsFirst(Append(SubSeq(text, 1, n), NUL), text, n, n + 1)
<1> PICK S : text \in Seq(S)
  BY DEF IsText
<1>1. PICK k \in Nat : k = Len(text)
  OBVIOUS
<1>2. PICK first : first = SubSeq(text, 1, n)
  OBVIOUS
<1>3. first \in Seq(S) /\ Len(first) = n /\ \A i \in 1 .. n : first[i] = text[i]
  BY <1>1, <1>2
<1>4. PICK T : T = S \cup {NUL}
  OBVIOUS
<1>5. first \in Seq(T) /\ NUL \in T
  BY <1>3, <1>4
<1>6. PICK more : more = Append(first, NUL)
  OBVIOUS
<1>7. Len(more) = n + 1 /\ \A i \in 1 .. n : more[i] = first[i]
  BY <1>3, <1>5, <1>6
<1> QED
  BY <1>2, <1>3, <1>6, <1>7 DEF IsFirst

\* Bytes that begin with the first of a text were put where the string ends, and are held.
LEMMA AppendKeeps ==
    ASSUME NEW s, StrOK(s), NEW text, IsText(text), NEW n \in Nat, n <= Len(text), NEW size \in Nat, n <= size,
           NEW bytes, IsFirst(bytes, text, n, size), s.kind = "cstr" \/ s.length + size <= s.size,
           NEW l \in 0 .. s.size, l <= s.length + n, NEW over, over <=> l < s.length + Len(text)
    PROVE  StrOK(Holding(PutBytes(s, s.length, bytes), text, l, over))
<1>0. IsStr(s)
  BY DEF StrOK, SpaceOK
<1>1. PICK put : put = PutBytes(s, s.length, bytes)
  OBVIOUS
<1>2. PICK y : y = Holding(put, text, l, over)
  OBVIOUS
<1>3. IsPutIn(put, s, s.length, bytes)
  BY <1>0, <1>1, PutBytesIs
<1>4. Len(bytes) = size /\ \A i \in 1 .. n : bytes[i] = text[i]
  BY DEF IsFirst
<1>5. Len(text) \in Nat
  BY DEF IsText
<1>6. s.length \in Nat /\ s.size \in Nat /\ (s.spilled => s.kind = "cstr")
  BY DEF StrOK, SpaceOK
<1>7. PutRight(s, put, text, l)
  <2>1. l \in Nat /\ l <= s.size
    BY <1>6
  <2> QED
    BY <1>1, <2>1, BytesPut
<1>8. put.spilled => s.kind = "cstr"
  <2>1. put.spilled => s.spilled \/ s.length + Len(bytes) > s.size
    BY <1>3 DEF IsPutIn
  <2> QED
    BY <1>4, <1>6, <2>1
<1>9. l <= s.length + Len(text)
  BY <1>5, <1>6
<1>10. /\ IsStr(put) /\ SameSpace(s, put) /\ put.length = s.length /\ put.wrote = s.wrote
       /\ put.misplaced = s.misplaced /\ put.lost = s.lost /\ put.overflow = s.overflow
  BY <1>3 DEF IsPutIn
<1>11. /\ SpaceOK(y) /\ y.misplaced = s.misplaced
       /\ ~s.misplaced /\ PutRight(s, put, text, l) => BytesKept(y)
  BY <1>2, <1>8, <1>9, <1>10, HoldingKeeps
<1> QED
  BY <1>1, <1>2, <1>7, <1>11 DEF StrOK
LEMMA MemcpyKeeps ==
    ASSUME NEW s, StrOK(s), NEW text, IsText(text) PROVE StrOK(sxe_buffer_memcpy(s, text))
<1>1. PICK k \in Nat, z \in Nat, t \in Nat : k = s.length /\ z = s.size /\ t = Len(text) /\ k <= z
  BY DEF StrOK, SpaceOK, IsText
<1>2. PICK n \in Nat : n = Least(Len(text), Room(s))
  BY <1>1 DEF Least, Room
<1>3. n <= t /\ n <= z - k /\ (n < t <=> t > z - k)
  BY <1>1, <1>2 DEF Least, Room
<1>4. PICK bytes : bytes = SubSeq(text, 1, n)
  OBVIOUS
<1>5. IsFirst(bytes, text, n, n)
  BY <1>1, <1>3, <1>4, FirstBytes
<1>6. PICK l \in 0 .. s.size : l = s.length + n
  BY <1>1, <1>3
<1>60. (n < Len(text)) <=> (l < s.length + Len(text))
  BY <1>1, <1>6
<1>7. PICK over : over = (n < Len(text))
  OBVIOUS
<1>8. over <=> l < s.length + Len(text)
  BY <1>60, <1>7, Zenon
<1>9. n <= Len(text) /\ n <= n /\ l <= s.length + n /\ s.length + n <= s.size
  BY <1>1, <1>3, <1>6
<1>10. StrOK(Holding(PutBytes(s, s.length, bytes), text, l, over))
  BY <1>5, <1>8, <1>9, AppendKeeps
<1> QED
  BY <1>2, <1>4, <1>6, <1>7, <1>10 DEF sxe_buffer_memcpy

\* A time that fits.
LEMMA TimeKept ==
    ASSUME NEW s, StrOK(s), NEW text, IsText(text), Len(text) < Room(s)
    PROVE  StrOK(Holding(PutBytes(s, s.length, Append(text, NUL)), text, s.length + Len(text), FALSE))
<1>1. PICK k \in Nat, z \in Nat, n \in Nat : k = s.length /\ z = s.size /\ n = Len(text) /\ k <= z /\ n < z - k
  BY DEF StrOK, SpaceOK, IsText, Room
<1>2. SubSeq(text, 1, n) = text
  BY <1>1 DEF IsText
<1>3. PICK bytes : bytes = Append(text, NUL)
  OBVIOUS
<1>4. IsFirst(Append(SubSeq(text, 1, n), NUL), text, n, n + 1)
  BY <1>1, FirstBytes
<1>5. PICK size \in Nat : size = n + 1
  BY <1>1
<1>6. IsFirst(bytes, text, n, size)
  BY <1>2, <1>3, <1>4, <1>5
<1>7. PICK l \in 0 .. s.size : l = s.length + Len(text)
  BY <1>1
<1>8. FALSE <=> l < s.length + Len(text)
  BY <1>1, <1>7
<1>9. n <= Len(text) /\ n <= size /\ l <= s.length + n /\ s.length + size <= s.size
  BY <1>1, <1>5, <1>7
<1>10. StrOK(Holding(PutBytes(s, s.length, bytes), text, l, FALSE))
  BY <1>6, <1>8, <1>9, AppendKeeps
<1> QED
  BY <1>3, <1>7, <1>10

\* A time that does not fit, of which n bytes were written after the string.
LEMMA TimeDropped ==
    ASSUME NEW s, StrOK(s), NEW text, IsText(text), NEW n \in Nat, n <= Len(text), n <= Room(s)
    PROVE  StrOK([PutBytes(s, s.length, SubSeq(text, 1, n)) EXCEPT !.lost = @ \cup {"time"}])
<1>1. PICK k \in Nat, z \in Nat : k = s.length /\ z = s.size /\ k <= z /\ k + n <= z
  BY DEF StrOK, SpaceOK, Room
<1>2. PICK bytes : bytes = SubSeq(text, 1, n)
  OBVIOUS
<1>3. Len(bytes) = n
  BY <1>2, FirstBytes DEF IsFirst
<1>4. PICK put : put = PutBytes(s, s.length, bytes)
  OBVIOUS
<1>5. IsPutIn(put, s, s.length, bytes)
  BY <1>4, PutBytesIs DEF StrOK, SpaceOK
<1>6. /\ IsStr(put) /\ SameSpace(s, put) /\ put.length = s.length /\ put.wrote = s.wrote
      /\ put.misplaced = s.misplaced /\ put.lost = s.lost /\ put.overflow = s.overflow
      /\ put.at = [j \in 0 .. z |-> IF j \in k .. (k + n - 1) THEN bytes[j - k + 1] ELSE s.at[j]]
      /\ put.spilled = (s.spilled \/ (bytes # <<>> /\ k + n > z))
  BY <1>1, <1>3, <1>5 DEF IsPutIn
<1>7. PICK x : x = s.lost \cup {"time"}
  OBVIOUS
<1>8. PICK y : y = [put EXCEPT !.lost = x]
  OBVIOUS
<1>9. /\ IsStr(y) /\ y.kind = put.kind /\ y.size = put.size /\ y.length = put.length /\ y.at = put.at
      /\ y.overflow = put.overflow /\ y.wrote = put.wrote /\ y.lost = x /\ y.misplaced = put.misplaced /\ y.spilled = put.spilled
  <2> PICK k1, z1, l, c, a, o, w, x1, m, p, n1 :
         put = [kind |-> k1, size |-> z1, length |-> l, consumed |-> c, at |-> a, overflow |-> o,
                wrote |-> w, lost |-> x1, misplaced |-> m, spilled |-> p, writes |-> n1]
    BY <1>6 DEF IsStr
  <2>1. y = [kind |-> k1, size |-> z1, length |-> l, consumed |-> c, at |-> a, overflow |-> o,
             wrote |-> w, lost |-> x, misplaced |-> m, spilled |-> p, writes |-> n1]
    BY <1>8
  <2>2. IsStr(y)
    BY <2>1 DEF IsStr
  <2> QED
    BY <2>1, <2>2
<1>10. y.kind = s.kind /\ y.size = s.size
  BY <1>6, <1>9 DEF SameSpace
<1>11. ~(k + n > z)
  BY <1>1
<1>12. y.spilled => s.spilled
  BY <1>6, <1>9, <1>11, Zenon
<1>13. SpaceOK(y)
  BY <1>6, <1>9, <1>10, <1>12 DEF StrOK, SpaceOK
<1>14. ASSUME ~s.misplaced PROVE BytesKept(y)
  <2>1. ASSUME NEW i \in 1 .. k PROVE y.at[i - 1] = y.wrote[i]
    <3>1. i - 1 \in 0 .. z /\ ~(i - 1 \in k .. (k + n - 1))
      BY <1>1
    <3>2. s.at[i - 1] = s.wrote[i]
      BY <1>1, <1>14 DEF StrOK, BytesKept
    <3> QED
      BY <1>6, <1>9, <3>1, <3>2
  <2>2. y.overflow <=> TextLost(y.lost)
    <3>1. s.overflow <=> TextLost(s.lost)
      BY <1>14 DEF StrOK, BytesKept
    <3>2. TextLost(x) <=> TextLost(s.lost)
      BY <1>7, TextIsLost
    <3> QED
      BY <1>6, <1>9, <3>1, <3>2, Zenon
  <2> QED
    BY <1>1, <1>6, <1>9, <2>1, <2>2 DEF BytesKept
<1>15. y = [PutBytes(s, s.length, SubSeq(text, 1, n)) EXCEPT !.lost = @ \cup {"time"}]
  BY <1>2, <1>4, <1>6, <1>7, <1>8
<1> QED
  BY <1>6, <1>9, <1>13, <1>14, <1>15 DEF StrOK

LEMMA FtimeKeeps ==
    ASSUME NEW s, StrOK(s), NEW text, IsText(text), NEW n \in MayBegin(s, text)
    PROVE  StrOK(sxe_buffer_ftime(s, text, n))
<1>1. n \in Nat /\ n <= Len(text) /\ n <= Room(s)
  BY DEF MayBegin, StrOK, SpaceOK, Room, IsText
<1>2. CASE Len(text) < Room(s)
  BY <1>2, TimeKept DEF sxe_buffer_ftime
<1>3. CASE ~(Len(text) < Room(s))
  BY <1>1, <1>3, TimeDropped DEF sxe_buffer_ftime
<1> QED
  BY <1>2, <1>3

LEMMA VprintfKeeps ==
    ASSUME NEW s, StrOK(s), NEW text, IsText(text) PROVE StrOK(sxe_buffer_vprintf(s, text))
<1>1. PICK k \in Nat, z \in Nat, t \in Nat : k = s.length /\ z = s.size /\ t = Len(text) /\ k <= z /\ z > 0
  BY DEF StrOK, SpaceOK, IsText
<1>2. PICK l \in 0 .. s.size : l = IF t < z - k THEN k + t ELSE z - 1
  BY <1>1
<1>3. PICK over : over = IF t < z - k THEN FALSE ELSE TRUE
  OBVIOUS
<1>4. over <=> l < s.length + Len(text)
  <2>1. CASE t < z - k
    <3>1. ~(l < s.length + Len(text))
      BY <1>1, <1>2, <2>1
    <3> QED
      BY <1>3, <2>1, <3>1, Zenon
  <2>2. CASE ~(t < z - k)
    <3>1. l < s.length + Len(text)
      BY <1>1, <1>2, <2>2
    <3> QED
      BY <1>3, <2>2, <3>1, Zenon
  <2> QED
    BY <2>1, <2>2
<1>5. CASE k < z
  <2>1. PICK n \in Nat : n = Least(Len(text), Room(s) - 1)
    BY <1>1, <1>5 DEF Least, Room
  <2>2. n <= t /\ n <= z - k - 1 /\ (t < z - k => n = t) /\ (~(t < z - k) => n = z - k - 1)
    BY <1>1, <2>1 DEF Least, Room
  <2>3. PICK size \in Nat : size = n + 1
    BY <2>2
  <2>4. PICK bytes : bytes = Append(SubSeq(text, 1, n), NUL)
    OBVIOUS
  <2>5. n <= Len(text)
    BY <1>1, <2>2
  <2>6. IsFirst(bytes, text, n, size)
    BY <2>3, <2>4, <2>5, FirstBytes
  <2>7. n <= size /\ l <= s.length + n /\ s.length + size <= s.size
    <3>1. n <= size /\ k + size <= z
      BY <1>1, <2>2, <2>3
    <3>2. l <= k + n
      <4>1. CASE t < z - k
        BY <1>1, <1>2, <2>2, <4>1
      <4>2. CASE ~(t < z - k)
        BY <1>1, <1>2, <2>2, <4>2
      <4> QED
        BY <4>1, <4>2
    <3> QED
      BY <1>1, <3>1, <3>2
  <2>8. StrOK(Holding(PutBytes(s, s.length, bytes), text, l, over))
    BY <1>4, <2>5, <2>6, <2>7, AppendKeeps
  <2>9. Room(s) # 0 /\ Room(s) = z - k
    BY <1>1, <1>5 DEF Room
  <2> QED
    BY <1>1, <1>2, <1>3, <2>1, <2>4, <2>8, <2>9 DEF sxe_buffer_vprintf
<1>6. CASE ~(k < z)
  <2>1. Room(s) = 0 /\ k = z /\ ~(t < z - k) /\ l = z - 1
    BY <1>1, <1>2, <1>6 DEF Room
  <2>2. PICK y : y = Holding(s, text, l, over)
    OBVIOUS
  <2>3. /\ IsStr(s) /\ SameSpace(s, s) /\ (s.spilled => s.kind = "cstr") /\ l <= s.length + Len(text)
    BY <1>1, <2>1 DEF StrOK, SpaceOK, SameSpace
  <2>4. PutRight(s, s, text, l)
    BY <1>1, <2>1 DEF PutRight
  <2>5. /\ SpaceOK(y) /\ y.misplaced = s.misplaced
        /\ ~s.misplaced /\ PutRight(s, s, text, l) => BytesKept(y)
    BY <1>4, <2>2, <2>3, HoldingKeeps
  <2>6. sxe_buffer_vprintf(s, text) = y
    <3>1. ~(Len(text) < Room(s)) /\ l = s.size - 1 /\ over = TRUE
      BY <1>1, <1>3, <2>1
    <3> QED
      BY <2>1, <2>2, <3>1 DEF sxe_buffer_vprintf
  <2> QED
    BY <2>4, <2>5, <2>6 DEF StrOK
<1> QED
  BY <1>5, <1>6
\* One byte put at i.
LEMMA NulPut ==
    ASSUME NEW s, StrOK(s), NEW i \in Nat, i < s.size, NEW put, put = PutBytes(s, i, <<NUL>>)
    PROVE  /\ IsPutIn(put, s, i, <<NUL>>)
           /\ \A j \in 0 .. s.size : j # i => put.at[j] = s.at[j]
           /\ put.spilled => s.kind = "cstr"
<1>0. IsStr(s) /\ s.size \in Nat /\ (s.spilled => s.kind = "cstr")
  BY DEF StrOK, SpaceOK
<1>1. PICK b : b = <<NUL>>
  OBVIOUS
<1>2. IsPutIn(put, s, i, b)
  BY <1>0, <1>1, PutBytesIs
<1>3. Len(b) = 1
  BY <1>1
<1>4. \A j \in 0 .. s.size : j # i => put.at[j] = s.at[j]
  BY <1>0, <1>2, <1>3 DEF IsPutIn
<1>5. put.spilled => s.spilled \/ i + Len(b) > s.size
  BY <1>2 DEF IsPutIn
<1>6. put.spilled => s.kind = "cstr"
  BY <1>0, <1>3, <1>5
<1> QED
  BY <1>1, <1>2, <1>4, <1>6

LEMMA GetStrKeeps ==
    ASSUME NEW s, StrOK(s) PROVE StrOK(sxe_buffer_get_str(s))
<1>1. PICK k \in Nat, z \in Nat : k = s.length /\ z = s.size /\ k <= z /\ z > 0
  BY DEF StrOK, SpaceOK
<1>2. PICK l \in Nat : l = Least(s.length, s.size - 1)
  BY <1>1 DEF Least
<1>3. l <= k /\ l < z /\ (l < k <=> k >= z)
  BY <1>1, <1>2 DEF Least
<1>4. PICK put : put = PutBytes(s, l, <<NUL>>)
  OBVIOUS
<1>5. /\ IsPutIn(put, s, l, <<NUL>>) /\ (put.spilled => s.kind = "cstr")
      /\ \A j \in 0 .. s.size : j # l => put.at[j] = s.at[j]
  BY <1>1, <1>3, <1>4, NulPut
<1>6. PICK o : o = (s.overflow \/ s.length >= s.size)
  OBVIOUS
<1>7. PICK x : x = IF l < s.length THEN s.lost \cup {"text"} ELSE s.lost
  OBVIOUS
<1>8. PICK y : y = [put EXCEPT !.length = l, !.overflow = o, !.lost = x]
  OBVIOUS
<1>9. /\ IsStr(put) /\ SameSpace(s, put) /\ put.wrote = s.wrote /\ put.misplaced = s.misplaced
      /\ put.overflow = s.overflow /\ put.lost = s.lost
  BY <1>5 DEF IsPutIn
<1>10. sxe_buffer_get_str(s) = y
  BY <1>2, <1>4, <1>6, <1>7, <1>8, <1>9 DEF sxe_buffer_get_str
<1>11. /\ IsStr(y) /\ y.kind = put.kind /\ y.size = put.size /\ y.length = l /\ y.at = put.at /\ y.overflow = o /\ y.wrote = put.wrote
       /\ y.lost = x /\ y.misplaced = put.misplaced /\ y.spilled = put.spilled
  <2> PICK k1, z1, l1, c, a, o1, w, x1, m, p, n :
         put = [kind |-> k1, size |-> z1, length |-> l1, consumed |-> c, at |-> a, overflow |-> o1,
                wrote |-> w, lost |-> x1, misplaced |-> m, spilled |-> p, writes |-> n]
    BY <1>9 DEF IsStr
  <2>1. y = [kind |-> k1, size |-> z1, length |-> l, consumed |-> c, at |-> a, overflow |-> o,
             wrote |-> w, lost |-> x, misplaced |-> m, spilled |-> p, writes |-> n]
    BY <1>8
  <2>2. IsStr(y)
    BY <2>1 DEF IsStr
  <2> QED
    BY <2>1, <2>2
<1>12. y.kind = s.kind /\ y.size = s.size
  BY <1>9, <1>11 DEF SameSpace
<1>13. SpaceOK(y)
  <2>1. l \in 0 .. z
    BY <1>1, <1>3
  <2>2. l <= Len(s.wrote)
    BY <1>1, <1>3 DEF StrOK, SpaceOK, IsText
  <2> QED
    BY <1>1, <1>5, <1>9, <1>11, <1>12, <2>1, <2>2 DEF StrOK, SpaceOK
<1>14. ASSUME ~s.misplaced PROVE BytesKept(y)
  <2>1. ASSUME NEW i \in 1 .. l PROVE y.at[i - 1] = y.wrote[i]
    <3>1. i \in 1 .. k /\ i - 1 \in 0 .. z /\ i - 1 # l
      BY <1>1, <1>3
    <3>2. s.at[i - 1] = s.wrote[i]
      BY <1>1, <1>14, <3>1 DEF StrOK, BytesKept
    <3> QED
      BY <1>1, <1>5, <1>9, <1>11, <3>1, <3>2
  <2>2. s.overflow <=> TextLost(s.lost)
    BY <1>14 DEF StrOK, BytesKept
  <2>3. (l < s.length) <=> (s.length >= s.size)
    BY <1>1, <1>3
  <2>4. o <=> TextLost(x)
    <3>1. CASE l < s.length
      <4>1. TextLost(x)
        BY <1>7, <3>1, TextIsLost
      <4> QED
        BY <1>6, <2>3, <3>1, <4>1, Zenon
    <3>2. CASE ~(l < s.length)
      <4>1. x = s.lost
        BY <1>7, <3>2
      <4> QED
        BY <1>6, <2>2, <2>3, <3>2, <4>1, Zenon
    <3> QED
      BY <3>1, <3>2
  <2> QED
    BY <1>11, <2>1, <2>4 DEF BytesKept
<1> QED
  BY <1>9, <1>10, <1>11, <1>13, <1>14 DEF StrOK

LEMMA ClearKeeps ==
    ASSUME NEW s, StrOK(s) PROVE StrOK(sxe_buffer_clear(s))
<1>1. s.size \in Nat \ {0} /\ s.kind \in {"cstr", "buffer"}
  BY DEF StrOK, SpaceOK
<1>2. PICK put : put = PutBytes(s, 0, <<NUL>>)
  OBVIOUS
<1>3. IsPutIn(put, s, 0, <<NUL>>) /\ (put.spilled => s.kind = "cstr")
  <2>1. PICK i \in Nat : i = 0 /\ i < s.size
    BY <1>1
  <2> QED
    BY <1>2, <2>1, NulPut
<1>4. PICK y : y = [put EXCEPT !.length = 0, !.overflow = FALSE, !.wrote = <<>>, !.lost = {}, !.misplaced = FALSE]
  OBVIOUS
<1>5. sxe_buffer_clear(s) = y
  BY <1>2, <1>4 DEF sxe_buffer_clear
<1>6. IsStr(put) /\ put.kind = s.kind /\ put.size = s.size
  BY <1>3 DEF IsPutIn, SameSpace
<1>7. /\ IsStr(y) /\ y.kind = put.kind /\ y.size = put.size /\ y.length = 0 /\ y.wrote = <<>>
      /\ y.overflow = FALSE /\ y.lost = {} /\ y.misplaced = FALSE /\ y.spilled = put.spilled
  <2> PICK k, z, l, c, a, o, w, x, m, p, n :
         put = [kind |-> k, size |-> z, length |-> l, consumed |-> c, at |-> a, overflow |-> o,
                wrote |-> w, lost |-> x, misplaced |-> m, spilled |-> p, writes |-> n]
    BY <1>6 DEF IsStr
  <2>1. y = [kind |-> k, size |-> z, length |-> 0, consumed |-> c, at |-> a, overflow |-> FALSE,
             wrote |-> <<>>, lost |-> {}, misplaced |-> FALSE, spilled |-> p, writes |-> n]
    BY <1>4
  <2>2. IsStr(y)
    BY <2>1 DEF IsStr
  <2> QED
    BY <2>1, <2>2
<1>8. IsText(<<>>) /\ Len(<<>>) = 0
  BY DEF IsText
<1>9. SpaceOK(y)
  BY <1>1, <1>3, <1>6, <1>7, <1>8 DEF SpaceOK
<1>10. BytesKept(y)
  <2>1. ~TextLost(y.lost) /\ y.overflow = FALSE
    BY <1>7, TextIsLost
  <2>2. \A i \in 1 .. y.length : y.at[i - 1] = y.wrote[i]
    BY <1>7
  <2> QED
    BY <2>1, <2>2, Zenon DEF BytesKept
<1> QED
  BY <1>5, <1>9, <1>10 DEF StrOK

LEMMA StringConsumeKeeps ==
    ASSUME NEW s, StrOK(s), NEW i PROVE StrOK(sxe_buffer_consume(s, i))
<1> PICK k, z, l, c, a, o, w, x, m, p, n :
       s = [kind |-> k, size |-> z, length |-> l, consumed |-> c, at |-> a, overflow |-> o,
            wrote |-> w, lost |-> x, misplaced |-> m, spilled |-> p, writes |-> n]
  BY DEF StrOK, SpaceOK, IsStr
<1>1. PICK y : y = sxe_buffer_consume(s, i)
  OBVIOUS
<1>2. y = [kind |-> k, size |-> z, length |-> l, consumed |-> c + i, at |-> a, overflow |-> o,
           wrote |-> w, lost |-> x, misplaced |-> m, spilled |-> p, writes |-> n]
  BY <1>1 DEF sxe_buffer_consume
<1>3. IsStr(y)
  BY <1>2 DEF IsStr
<1>4. /\ y.kind = s.kind /\ y.size = s.size /\ y.length = s.length /\ y.wrote = s.wrote /\ y.at = s.at
      /\ y.overflow = s.overflow /\ y.lost = s.lost /\ y.misplaced = s.misplaced /\ y.spilled = s.spilled
  BY <1>2
<1>5. SpaceOK(y)
  BY <1>3, <1>4 DEF StrOK, SpaceOK
<1>6. BytesKept(s) => BytesKept(y)
  BY <1>4 DEF BytesKept
<1> QED
  BY <1>1, <1>4, <1>5, <1>6 DEF StrOK
LEMMA CatKeeps ==
    ASSUME NEW s, StrOK(s), s.kind = "cstr", NEW text, IsText(text) PROVE StrOK(sxe_cstr_cat(s, text))
<1>1. PICK k \in Nat, z \in Nat, t \in Nat : k = s.length /\ z = s.size /\ t = Len(text) /\ k <= z
  BY DEF StrOK, SpaceOK, IsText
<1>2. PICK n \in Nat : n = Least(Len(text), Room(s))
  BY <1>1 DEF Least, Room
<1>3. n <= t /\ n <= z - k /\ (t <= z - k => n = t) /\ (~(t <= z - k) => n = z - k)
  BY <1>1, <1>2 DEF Least, Room
<1>4. PICK bytes : bytes = Append(SubSeq(text, 1, n), NUL)
  OBVIOUS
<1>5. PICK size \in Nat : size = n + 1 /\ n <= size
  BY <1>2
<1>6. IsFirst(bytes, text, n, size)
  <2>1. n <= Len(text)
    BY <1>1, <1>3
  <2> QED
    BY <1>4, <1>5, <2>1, FirstBytes
<1>7. PICK l \in 0 .. s.size : l = Least(s.length + Len(text), s.size)
  BY <1>1 DEF Least
<1>8. l = k + n
  BY <1>1, <1>3, <1>7 DEF Least
<1>9. PICK over : over = (s.length + Len(text) > s.size)
  OBVIOUS
<1>10. over <=> l < s.length + Len(text)
  <2>1. (s.length + Len(text) > s.size) <=> (l < s.length + Len(text))
    BY <1>1, <1>3, <1>8
  <2> QED
    BY <1>9, <2>1, Zenon
<1> DEFINE nuls == {i \in s.length .. s.size : s.at[i] = NUL}
<1>11. PICK end : end = IF s.length \in nuls THEN s.length
                        ELSE IF nuls = {} THEN s.size ELSE CHOOSE i \in nuls : \A j \in nuls : i <= j
  OBVIOUS
<1>12. PICK put : put = PutBytes(s, end, bytes)
  OBVIOUS
<1>13. PICK holding : holding = Holding(put, text, l, over)
  OBVIOUS
<1>14. PICK m : m = (holding.misplaced \/ end # s.length)
  OBVIOUS
<1>15. PICK y : y = [holding EXCEPT !.misplaced = m]
  OBVIOUS
<1>16. sxe_cstr_cat(s, text) = y
  BY <1>2, <1>4, <1>7, <1>9, <1>11, <1>12, <1>13, <1>14, <1>15 DEF sxe_cstr_cat
<1>17. IsStr(s)
  BY DEF StrOK, SpaceOK
<1>18. IsPutIn(put, s, end, bytes)
  BY <1>12, <1>17, PutBytesIs
<1>19. /\ IsStr(put) /\ SameSpace(s, put) /\ put.length = s.length /\ put.wrote = s.wrote
       /\ put.misplaced = s.misplaced /\ put.lost = s.lost /\ put.overflow = s.overflow
  BY <1>18 DEF IsPutIn
<1>20. l <= s.length + Len(text) /\ l \in Nat /\ l <= s.length + n /\ l <= s.size
  BY <1>1, <1>3, <1>8
<1>21. /\ SpaceOK(holding) /\ holding.misplaced = s.misplaced /\ holding.kind = s.kind
       /\ ~s.misplaced /\ PutRight(s, put, text, l) => BytesKept(holding)
  BY <1>10, <1>13, <1>19, <1>20, HoldingKeeps
<1>22. ASSUME end = s.length PROVE PutRight(s, put, text, l)
  BY <1>5, <1>6, <1>12, <1>20, <1>22, BytesPut
<1>23. /\ IsStr(y) /\ y.kind = holding.kind /\ y.size = holding.size /\ y.length = holding.length /\ y.at = holding.at
       /\ y.overflow = holding.overflow /\ y.wrote = holding.wrote /\ y.lost = holding.lost /\ y.misplaced = m /\ y.spilled = holding.spilled
  <2> PICK k1, z1, l1, c, a, o, w, x, m1, p, n1 :
         holding = [kind |-> k1, size |-> z1, length |-> l1, consumed |-> c, at |-> a, overflow |-> o,
                 wrote |-> w, lost |-> x, misplaced |-> m1, spilled |-> p, writes |-> n1]
    BY <1>21 DEF SpaceOK, IsStr
  <2>1. y = [kind |-> k1, size |-> z1, length |-> l1, consumed |-> c, at |-> a, overflow |-> o,
             wrote |-> w, lost |-> x, misplaced |-> m, spilled |-> p, writes |-> n1]
    BY <1>15
  <2>2. IsStr(y)
    BY <2>1 DEF IsStr
  <2> QED
    BY <2>1, <2>2
<1>24. SpaceOK(y)
  BY <1>21, <1>23 DEF SpaceOK
<1>25. ASSUME ~y.misplaced PROVE BytesKept(y)
  <2>1. ~holding.misplaced /\ end = s.length
    BY <1>14, <1>23, <1>25, Zenon
  <2>2. BytesKept(holding)
    BY <1>21, <1>22, <2>1
  <2> QED
    BY <1>23, <2>2 DEF BytesKept
<1> QED
  BY <1>16, <1>24, <1>25 DEF StrOK

LEMMA StringsInitOK == StringsInit => StrOK(str)
<1> SUFFICES ASSUME NEW kind \in {"cstr", "buffer"}, NEW size \in Sizes, NEW rest, str = sxe_buffer_construct(kind, size, rest)
             PROVE  StrOK(str)
  BY DEF StringsInit
<1>0. size \in Nat \ {0}
  BY StringsAssumption
<1>1. PICK a : a = [i \in 0 .. size |-> IF i < size THEN rest ELSE Stale]
  OBVIOUS
<1>2. str = [kind |-> kind, size |-> size, length |-> 0, consumed |-> 0, at |-> a, overflow |-> FALSE,
             wrote |-> <<>>, lost |-> {}, misplaced |-> FALSE, spilled |-> FALSE, writes |-> 0]
  BY <1>1 DEF sxe_buffer_construct
<1>3. IsStr(str)
  BY <1>2 DEF IsStr
<1>4. IsText(<<>>) /\ Len(<<>>) = 0
  BY DEF IsText
<1>5. SpaceOK(str)
  BY <1>0, <1>2, <1>3, <1>4 DEF SpaceOK
<1>6. BytesKept(str)
  <2>1. str.lost = {} /\ str.overflow = FALSE
    BY <1>2
  <2>2. ~TextLost({})
    BY TextIsLost
  <2>3. ASSUME NEW i \in 1 .. str.length PROVE FALSE
    BY <1>2
  <2> QED
    BY <2>1, <2>2, <2>3, Zenon DEF BytesKept
<1> QED
  BY <1>5, <1>6 DEF StrOK

LEMMA StringsStep == StrOK(str) /\ [StringsNext]_str => StrOK(str)'
<1> SUFFICES ASSUME StrOK(str), [StringsNext]_str PROVE StrOK(str')
  BY DEF StrOK, SpaceOK, BytesKept, IsStr
<1>1. ASSUME NEW text \in Pieces,
             \/ str' = IF str.kind = "cstr" THEN sxe_cstr_cat(str, text) ELSE sxe_buffer_memcpy(str, text)
             \/ str' = sxe_buffer_vprintf(str, text)
             \/ \E n \in MayBegin(str, text) : str' = sxe_buffer_ftime(str, text, n)
      PROVE  StrOK(str')
  <2>1. IsText(text)
    BY StringsAssumption DEF IsText
  <2>2. str.kind = "cstr" => StrOK(sxe_cstr_cat(str, text))
    BY <2>1, CatKeeps
  <2>3. /\ StrOK(sxe_buffer_memcpy(str, text)) /\ StrOK(sxe_buffer_vprintf(str, text))
        /\ \A n \in MayBegin(str, text) : StrOK(sxe_buffer_ftime(str, text, n))
    BY <2>1, MemcpyKeeps, VprintfKeeps, FtimeKeeps
  <2> QED
    BY <1>1, <2>2, <2>3
<1>2. CASE str' = sxe_buffer_get_str(str)
  BY <1>2, GetStrKeeps
<1>3. CASE str' = sxe_buffer_clear(str)
  BY <1>3, ClearKeeps
<1>4. CASE str' = sxe_buffer_consume(str, 1)
  BY <1>4, StringConsumeKeeps
<1>5. CASE UNCHANGED str
  BY <1>5
<1> QED
  BY <1>1, <1>2, <1>3, <1>4, <1>5 DEF StringsNext

LEMMA StringsInvImplies == StrOK(str) => TextKept
<1> SUFFICES ASSUME StrOK(str), ~str.misplaced PROVE TextKept
  BY DEF TextKept
<1>1. BytesKept(str) /\ SpaceOK(str)
  BY DEF StrOK
<1>2. str.length <= str.size
  BY <1>1 DEF SpaceOK
<1> QED
  BY <1>1, <1>2 DEF TextKept, SpaceOK, BytesKept, TextLost

\* For spaces of any size and texts of any length: a cstr or buffer holds in order
\* the bytes that fitted, and is flagged when, and only when, bytes of a text that was
\* copied or printed were dropped.  A time that sxe_buffer_ftime cannot fit is dropped
\* whole and changes no flag.  Only a cstr writes beyond its space.  All this unless
\* strncat found no NUL where the cstr ends.
THEOREM TextAlwaysKept == StringsSpec => []TextKept
  BY StringsInitOK, StringsStep, StringsInvImplies, PTL DEF StringsSpec

-----------------------------------------------------------------------------
(* A look in the hash misses no key, for any threads, keys, hash sums and  *)
(* number of elements.                                                     *)

Todos == {"ready", "fill", "add", "step", "compare", "value", "state", "give", "return"}
HashCall == [todo : Todos, key : HashKeys \cup {NoKey}, id : Ids \cup {NotFound}, back : Ids \cup {NotFound}, last : Nat,
             state : States, removes : BOOLEAN, always : BOOLEAN, reentered : BOOLEAN, freed : BOOLEAN, answer : Nat]
Hash == [state : [Ids -> States], stamp : [Ids -> Nat], clock : Nat, key : [Ids -> HashKeys \cup {NoKey}], value : [Ids -> Nat],
         thread : [HashThreads -> HashCall], sets : Nat, gets : Nat, stored : SUBSET (HashKeys \X Nat),
         aborted : BOOLEAN, stolen : BOOLEAN]

\* No two elements have the same stamp, and a key is written with a value.
Stamped(h) == /\ \A e \in Ids : h.stamp[e] <= h.clock
              /\ \A d, e \in Ids : h.stamp[d] = h.stamp[e] => d = e
Valued(h) == \A e \in Ids : h.key[e] # NoKey => h.value[e] # 0

\* What is in a bucket was stored.
InBuckets(h) == \A e \in Ids : h.state[e] \notin {UNUSED, NEWLY} => <<h.key[e], h.value[e]>> \in h.stored

\* The element that a thread is to fill or to add is new, and nobody else's.
Fills(th) == th.todo \in {"fill", "add"}
Filling(h, t) ==
    LET th == h.thread[t] IN
    Fills(th) => /\ h.state[th.id] = NEWLY /\ h.sets > 0
                 /\ th.todo = "add" => h.key[th.id] = th.key /\ <<th.key, h.value[th.id]>> \in h.stored
                 /\ \A u \in HashThreads \ {t} : Fills(h.thread[u]) => h.thread[u].id # th.id

\* The place of a walk: the element met last has the stamp last while it stays in the
\* bucket, the one before it is next to it, and all that have the key are ahead.
Walks(th) == th.todo \in {"step", "compare"} /\ th.id # NotFound
Stays(h, e, th) == e # NotFound /\ h.state[e] = Bucket(th.key)
Has(h, e, th) == h.state[e] = Bucket(th.key) /\ h.key[e] = th.key
PlaceKept(h, th) ==
    /\ \A e \in Ids : h.stamp[e] = th.last => e = th.id
    /\ ~th.reentered =>
         /\ Stays(h, th.id, th) => h.stamp[th.id] = th.last
         /\ Stays(h, th.back, th) =>
               /\ h.stamp[th.back] < th.last
               /\ \A e \in Ids : h.state[e] = Bucket(th.key) => h.stamp[e] <= h.stamp[th.back] \/ h.stamp[e] >= th.last
         /\ \A e \in Ids : Has(h, e, th) => h.stamp[e] > th.last \/ (th.todo = "compare" /\ h.stamp[e] = th.last)

\* What was found, and what is answered.
Found(h, th) ==
    /\ th.todo \in {"compare", "value"} /\ ~th.freed => h.state[th.id] = Bucket(th.key)
    /\ th.todo = "value" => h.key[th.id] # NoKey /\ (~th.freed => h.key[th.id] = th.key)
Answers(h, th) ==
    /\ th.todo \in {"step", "compare", "value"} => th.answer = NotFound
    /\ th.todo \in {"state", "give"} => th.answer # NotFound
    /\ th.todo \in {"state", "give", "return"} /\ th.answer # NotFound => <<th.key, th.answer>> \in h.stored \/ th.freed
    /\ th.todo = "return" /\ th.answer = NotFound => (th.always => th.reentered)

Looks(th) == th.todo \notin {"ready", "fill", "add"}
Looking(h, th) ==
    Looks(th) => /\ th.last <= h.clock /\ (th.always => Present(h, th.key))
                 /\ Walks(th) => PlaceKept(h, th)
                 /\ Found(h, th) /\ Answers(h, th)

\* A thread in a call has a key and, while it works on an element, an element.
Called(h, th) == /\ th.todo # "ready" => th.key \in HashKeys
                 /\ th.todo \notin {"ready", "step", "return"} => th.id # NotFound
                 /\ th.todo = "add" => h.key[th.id] # NoKey

HashInv(h) == /\ h \in Hash /\ Stamped(h) /\ \A t \in HashThreads : Called(h, h.thread[t])
              /\ ~h.stolen => /\ Valued(h) /\ InBuckets(h)
                              /\ \A t \in HashThreads : Filling(h, t) /\ Looking(h, h.thread[t])

LEMMA BucketIs == ASSUME NEW k \in HashKeys PROVE Bucket(k) \in States /\ Bucket(k) \notin {UNUSED, NEWLY}
<1>1. Sum[k] \in Nat /\ Elements \in Nat /\ Elements > 0
  BY HashAssumption
<1>2. Sum[k] % Elements \in 0 .. Elements - 1
  BY <1>1
<1> QED
  BY <1>1, <1>2 DEF Bucket, States, UNUSED, NEWLY, RESERVED

\* The oldest of some elements has the least stamp of them.
LEMMA OldestIs ==
    ASSUME hash \in Hash, NEW es \in SUBSET Ids, es # {}
    PROVE  Oldest(es) \in es /\ \A d \in es : hash.stamp[Oldest(es)] <= hash.stamp[d]
<1> DEFINE S == {hash.stamp[e] : e \in es}
<1>1. S \subseteq Nat /\ S # {}
  BY DEF Hash
<1>2. PICK n \in S : \A m \in S : n <= m
  BY <1>1, LeastNumber
<1>3. PICK e \in es : hash.stamp[e] = n
  OBVIOUS
<1>4. \A d \in es : hash.stamp[e] <= hash.stamp[d]
  BY <1>2, <1>3
<1> QED
  BY <1>4 DEF Oldest

\* The newest of some elements has the greatest stamp of them.
LEMMA NewestIs ==
    ASSUME hash \in Hash, Stamped(hash), NEW es \in SUBSET Ids, es # {}
    PROVE  Newest(es) \in es /\ \A d \in es : hash.stamp[d] <= hash.stamp[Newest(es)]
<1> DEFINE S == {hash.clock - hash.stamp[e] : e \in es}
<1>0. hash.clock \in Nat /\ \A e \in es : hash.stamp[e] \in Nat /\ hash.stamp[e] <= hash.clock
  BY DEF Hash, Stamped
<1>1. S \subseteq Nat /\ S # {}
  BY <1>0
<1>2. PICK n \in S : \A m \in S : n <= m
  BY <1>1, LeastNumber
<1>3. PICK e \in es : hash.clock - hash.stamp[e] = n
  OBVIOUS
<1>4. ASSUME NEW d \in es PROVE hash.stamp[d] <= hash.stamp[e]
  <2>1. n <= hash.clock - hash.stamp[d]
    BY <1>2
  <2> QED
    BY <2>1, <1>3, <1>0
<1> QED
  BY <1>4 DEF Newest

\* What is remembered, and what stays as it was.
LEMMA RemembersIs ==
    ASSUME NEW h, NEW th \in HashCall
    PROVE  LET r == Remembers(h, th) IN
           /\ r \in HashCall
           /\ r.todo = th.todo /\ r.key = th.key /\ r.id = th.id /\ r.back = th.back /\ r.last = th.last
           /\ r.state = th.state /\ r.removes = th.removes /\ r.answer = th.answer
           /\ th.key # NoKey =>
                 /\ r.always <=> th.always /\ Present(h, th.key)
                 /\ ~r.reentered => ~th.reentered /\ \A e \in {th.id, th.back} \ {NotFound} :
                                        h.state[e] = Bucket(th.key) => h.stamp[e] = hash.stamp[e]
                 /\ th.reentered => r.reentered
                 /\ ~r.freed => ~th.freed /\ (th.id # NotFound => h.state[th.id] = Bucket(th.key))
                 /\ th.freed => r.freed
<1>1. CASE th.key = NoKey
  BY <1>1 DEF Remembers
<1>2. CASE th.key # NoKey
  <2>1. PICK a, r, f : /\ a = (th.always /\ Present(h, th.key))
                       /\ r = (th.reentered \/ \E e \in {th.id, th.back} \ {NotFound} :
                                           h.state[e] = Bucket(th.key) /\ h.stamp[e] # hash.stamp[e])
                       /\ f = (th.freed \/ (th.id # NotFound /\ h.state[th.id] # Bucket(th.key)))
    OBVIOUS
  <2>2. Remembers(h, th) = [th EXCEPT !.always = a, !.reentered = r, !.freed = f]
    BY <1>2, <2>1 DEF Remembers
  <2>3. a \in BOOLEAN /\ r \in BOOLEAN /\ f \in BOOLEAN
    BY <2>1
  <2>4. Remembers(h, th) \in HashCall
    BY <2>2, <2>3 DEF HashCall
  <2>5. /\ Remembers(h, th).todo = th.todo /\ Remembers(h, th).key = th.key /\ Remembers(h, th).id = th.id
        /\ Remembers(h, th).back = th.back /\ Remembers(h, th).last = th.last
        /\ Remembers(h, th).state = th.state /\ Remembers(h, th).removes = th.removes /\ Remembers(h, th).answer = th.answer
        /\ Remembers(h, th).always = a /\ Remembers(h, th).reentered = r /\ Remembers(h, th).freed = f
    BY <2>2 DEF HashCall
  <2> QED
    BY <1>2, <2>1, <2>4, <2>5
<1> QED
  BY <1>1, <1>2

LEMMA WatchedIs ==
    ASSUME NEW h \in Hash
    PROVE  LET w == Watched(h) IN
           /\ w \in Hash
           /\ w.state = h.state /\ w.stamp = h.stamp /\ w.clock = h.clock /\ w.key = h.key /\ w.value = h.value
           /\ w.sets = h.sets /\ w.gets = h.gets /\ w.stored = h.stored /\ w.aborted = h.aborted /\ w.stolen = h.stolen
           /\ \A t \in HashThreads : w.thread[t] = Remembers(h, h.thread[t])
<1>1. PICK thread : thread = [t \in HashThreads |-> Remembers(h, h.thread[t])]
  OBVIOUS
<1>2. Watched(h) = [h EXCEPT !.thread = thread]
  BY <1>1 DEF Watched
<1>3. thread \in [HashThreads -> HashCall]
  <2>1. \A t \in HashThreads : h.thread[t] \in HashCall
    BY DEF Hash
  <2>2. \A t \in HashThreads : Remembers(h, h.thread[t]) \in HashCall
    BY <2>1, RemembersIs
  <2> QED
    BY <1>1, <2>2
<1>4. Watched(h) \in Hash
  BY <1>2, <1>3 DEF Hash
<1>5. /\ Watched(h).state = h.state /\ Watched(h).stamp = h.stamp /\ Watched(h).clock = h.clock
      /\ Watched(h).key = h.key /\ Watched(h).value = h.value /\ Watched(h).sets = h.sets
      /\ Watched(h).gets = h.gets /\ Watched(h).stored = h.stored /\ Watched(h).aborted = h.aborted
      /\ Watched(h).stolen = h.stolen /\ Watched(h).thread = thread
  BY <1>2 DEF Hash
<1> QED
  BY <1>1, <1>4, <1>5

\* From the hash to h, elements only move to tails, nothing that was stored is
\* forgotten, and only what is new is written.
Advances(h) ==
    /\ hash.clock <= h.clock /\ hash.stored \subseteq h.stored
    /\ \A e \in Ids : (h.stamp[e] = hash.stamp[e] /\ h.state[e] = hash.state[e]) \/ h.stamp[e] > hash.clock
    /\ \A e \in Ids : hash.key[e] # NoKey => h.key[e] # NoKey
    /\ \A e \in Ids : hash.state[e] # NEWLY => h.key[e] = hash.key[e] /\ h.value[e] = hash.value[e]

LEMMA LookingKept ==
    ASSUME hash \in Hash, Stamped(hash), NEW h \in Hash, Advances(h), NEW th \in HashCall, th.todo # "ready" => th.key \in HashKeys,
           th.todo \notin {"ready", "step", "return"} => th.id # NotFound, Looking(hash, th)
    PROVE  Looking(h, Remembers(h, th))
<1> DEFINE r == Remembers(h, th)
<1> SUFFICES ASSUME Looks(r) PROVE Looking(h, r)
  BY DEF Looking
<1>1. /\ r \in HashCall
      /\ r.todo = th.todo /\ r.key = th.key /\ r.id = th.id /\ r.back = th.back /\ r.last = th.last /\ r.answer = th.answer
  BY RemembersIs
<1>2. Looks(th) /\ th.todo # "ready" /\ th.key \in HashKeys /\ th.key # NoKey
  BY <1>1, HashAssumption DEF Looks
<1>3. /\ r.always <=> th.always /\ Present(h, th.key)
      /\ ~r.reentered => ~th.reentered /\ \A e \in {th.id, th.back} \ {NotFound} :
                             h.state[e] = Bucket(th.key) => h.stamp[e] = hash.stamp[e]
      /\ th.reentered => r.reentered
      /\ ~r.freed => ~th.freed /\ (th.id # NotFound => h.state[th.id] = Bucket(th.key))
      /\ th.freed => r.freed
  BY <1>2, RemembersIs
<1> HIDE DEF r
<1>4. th.id \in Ids \cup {NotFound} /\ th.back \in Ids \cup {NotFound} /\ th.last \in Nat
  BY DEF HashCall
<1>5. /\ \A e \in Ids : hash.stamp[e] \in Nat /\ h.stamp[e] \in Nat /\ hash.stamp[e] <= hash.clock
      /\ hash.clock \in Nat /\ h.clock \in Nat /\ th.last <= hash.clock /\ hash.clock <= h.clock
  BY <1>2 DEF Hash, Stamped, Looking, Advances
<1>6. Bucket(th.key) \notin {UNUSED, NEWLY}
  BY <1>2, BucketIs
<1>7. r.last <= h.clock /\ (r.always => Present(h, r.key))
  BY <1>1, <1>3, <1>4, <1>5
<1>8. ASSUME Walks(r) PROVE PlaceKept(h, r)
  <2>1. Walks(th) /\ PlaceKept(hash, th) /\ th.id \in Ids
    BY <1>8, <1>1, <1>2, <1>4 DEF Walks, Looking
  <2>2. ASSUME NEW e \in Ids, h.stamp[e] = th.last PROVE e = th.id
    <3>1. h.stamp[e] = hash.stamp[e]
      BY <2>2, <1>4, <1>5 DEF Advances
    <3> QED
      BY <2>1, <2>2, <3>1 DEF PlaceKept
  <2>3. ASSUME ~r.reentered, Stays(h, th.id, th) PROVE h.stamp[th.id] = th.last
    <3>1. h.stamp[th.id] = hash.stamp[th.id]
      BY <2>3, <1>3 DEF Stays
    <3>2. h.state[th.id] = hash.state[th.id]
      BY <3>1, <2>1, <1>5 DEF Advances
    <3> QED
      BY <3>1, <3>2, <2>1, <2>3, <1>3 DEF PlaceKept, Stays
  <2>4. ASSUME ~r.reentered, Stays(h, th.back, th)
        PROVE  /\ h.stamp[th.back] < th.last
               /\ \A e \in Ids : h.state[e] = Bucket(th.key) => h.stamp[e] <= h.stamp[th.back] \/ h.stamp[e] >= th.last
    <3>0. th.back \in Ids
      BY <2>4, <1>4 DEF Stays
    <3>1. h.stamp[th.back] = hash.stamp[th.back]
      BY <2>4, <1>3 DEF Stays
    <3>2. h.state[th.back] = hash.state[th.back]
      BY <3>0, <3>1, <1>5 DEF Advances
    <3>3. /\ hash.stamp[th.back] < th.last
          /\ \A e \in Ids : hash.state[e] = Bucket(th.key) => hash.stamp[e] <= hash.stamp[th.back] \/ hash.stamp[e] >= th.last
      BY <3>2, <2>1, <2>4, <1>3 DEF PlaceKept, Stays
    <3>4. ASSUME NEW e \in Ids, h.state[e] = Bucket(th.key) PROVE h.stamp[e] <= h.stamp[th.back] \/ h.stamp[e] >= th.last
      <4>1. CASE h.stamp[e] = hash.stamp[e] /\ h.state[e] = hash.state[e]
        BY <4>1, <3>4, <3>3, <3>1
      <4>2. CASE h.stamp[e] > hash.clock
        BY <4>2, <1>4, <1>5
      <4> QED
        BY <4>1, <4>2 DEF Advances
    <3> QED
      BY <3>1, <3>3, <3>4
  <2>5. ASSUME ~r.reentered, NEW e \in Ids, Has(h, e, th)
        PROVE  h.stamp[e] > th.last \/ (th.todo = "compare" /\ h.stamp[e] = th.last)
    <3>1. CASE h.stamp[e] = hash.stamp[e] /\ h.state[e] = hash.state[e]
      <4>1. hash.state[e] # NEWLY
        BY <3>1, <2>5, <1>6 DEF Has
      <4>2. Has(hash, e, th)
        BY <4>1, <3>1, <2>5 DEF Has, Advances
      <4> QED
        BY <4>2, <3>1, <2>1, <2>5, <1>3 DEF PlaceKept
    <3>2. CASE h.stamp[e] > hash.clock
      BY <3>2, <1>4, <1>5
    <3> QED
      BY <3>1, <3>2 DEF Advances
  <2> QED
    BY <2>2, <2>3, <2>4, <2>5, <1>1 DEF PlaceKept, Stays, Has
<1>9. Found(h, r)
  <2>1. Found(hash, th)
    BY <1>2 DEF Looking
  <2>2. ASSUME r.todo \in {"compare", "value"} PROVE th.id \in Ids
    BY <2>2, <1>1, <1>4
  <2>3. ASSUME r.todo \in {"compare", "value"}, ~r.freed PROVE h.state[r.id] = Bucket(r.key)
    BY <2>3, <2>2, <1>1, <1>3 DEF NotFound, Ids
  <2>4. ASSUME r.todo = "value" PROVE h.key[r.id] # NoKey
    BY <2>4, <2>1, <2>2, <1>1 DEF Found, Advances
  <2>5. ASSUME r.todo = "value", ~r.freed PROVE h.key[r.id] = r.key
    <3>1. hash.state[th.id] = Bucket(th.key) /\ hash.key[th.id] = th.key
      BY <2>1, <2>5, <1>1, <1>3 DEF Found
    <3> QED
      BY <3>1, <2>2, <2>5, <1>1, <1>6 DEF Advances
  <2> QED
    BY <2>3, <2>4, <2>5 DEF Found
<1>10. Answers(h, r)
  BY <1>1, <1>2, <1>3 DEF Looking, Answers, Advances
<1> QED
  BY <1>7, <1>8, <1>9, <1>10 DEF Looking

\* The others, when one thread's step is watched.
LEMMA WatchedKeeps ==
    ASSUME HashInv(hash), NEW h \in Hash, Stamped(h), NEW t \in HashThreads,
           \A u \in HashThreads \ {t} : h.thread[u] = hash.thread[u],
           \A e \in Ids : hash.key[e] # NoKey => h.key[e] # NoKey,
           Called(h, h.thread[t]),
           ~h.stolen => /\ ~hash.stolen /\ Advances(h) /\ Valued(h) /\ InBuckets(h)
                        /\ \A u \in HashThreads : Filling(h, u)
                        /\ Looking(h, Remembers(h, h.thread[t]))
    PROVE  HashInv(Watched(h))
<1> DEFINE w == Watched(h)
<1>1. /\ w \in Hash
      /\ w.state = h.state /\ w.stamp = h.stamp /\ w.clock = h.clock /\ w.key = h.key /\ w.value = h.value
      /\ w.sets = h.sets /\ w.gets = h.gets /\ w.stored = h.stored /\ w.aborted = h.aborted /\ w.stolen = h.stolen
      /\ \A u \in HashThreads : w.thread[u] = Remembers(h, h.thread[u])
  BY WatchedIs
<1>2. \A u \in HashThreads : h.thread[u] \in HashCall /\ hash.thread[u] \in HashCall
  BY DEF Hash, HashInv
<1> HIDE DEF w
<1>3. ASSUME NEW u \in HashThreads
      PROVE  w.thread[u].todo = h.thread[u].todo /\ w.thread[u].key = h.thread[u].key /\ w.thread[u].id = h.thread[u].id
  <2>1. h.thread[u] \in HashCall /\ w.thread[u] = Remembers(h, h.thread[u])
    BY <1>1, <1>2
  <2> QED
    BY <2>1, RemembersIs
<1>4. ASSUME NEW u \in HashThreads PROVE Called(h, h.thread[u])
  <2>1. CASE u = t
    BY <2>1
  <2>2. CASE u # t
    <3>1. Called(hash, hash.thread[u]) /\ h.thread[u] = hash.thread[u]
      BY <2>2 DEF HashInv
    <3>2. hash.thread[u].todo = "add" => hash.thread[u].id \in Ids
      BY <3>1, <1>2 DEF Called, HashCall
    <3> QED
      BY <3>1, <3>2 DEF Called
  <2> QED
    BY <2>1, <2>2
<1>5. \A u \in HashThreads : Called(w, w.thread[u])
  BY <1>4, <1>3, <1>1 DEF Called
<1>6. Stamped(w)
  BY <1>1 DEF Stamped
<1>7. ASSUME ~w.stolen PROVE Valued(w) /\ InBuckets(w) /\ \A u \in HashThreads : Filling(w, u) /\ Looking(w, w.thread[u])
  <2>1. ~h.stolen /\ ~hash.stolen
    BY <1>7, <1>1
  <2>2. Valued(w) /\ InBuckets(w)
    BY <2>1, <1>1 DEF Valued, InBuckets
  <2>3. ASSUME NEW u \in HashThreads PROVE Filling(w, u)
    BY <2>1, <1>1, <1>3 DEF Filling, Fills
  <2>4. ASSUME NEW u \in HashThreads PROVE Looking(h, Remembers(h, h.thread[u]))
    <3>1. CASE u = t
      BY <3>1, <2>1
    <3>2. CASE u # t
      <4>1. /\ hash \in Hash /\ Stamped(hash) /\ Advances(h) /\ hash.thread[u] \in HashCall
            /\ Called(hash, hash.thread[u]) /\ Looking(hash, hash.thread[u]) /\ h.thread[u] = hash.thread[u]
        BY <3>2, <2>1, <1>2 DEF HashInv
      <4> QED
        BY <4>1, LookingKept DEF Called
    <3> QED
      BY <3>1, <3>2
  <2>5. ASSUME NEW u \in HashThreads PROVE Looking(w, w.thread[u])
    <3>1. Looking(h, w.thread[u])
      BY <2>4, <1>1
    <3> QED
      BY <3>1, <1>1 DEF Looking, Present, PlaceKept, Found, Answers, Has, Stays
  <2> QED
    BY <2>2, <2>3, <2>5
<1> QED
  BY <1>1, <1>5, <1>6, <1>7 DEF HashInv, w

\* And when it changes nothing but its own place in its call.
LEMMA AloneKeeps ==
    ASSUME HashInv(hash), NEW h \in Hash, NEW t \in HashThreads,
           h.state = hash.state, h.stamp = hash.stamp, h.clock = hash.clock, h.key = hash.key, h.value = hash.value,
           h.sets = hash.sets, h.stored = hash.stored, h.stolen = hash.stolen,
           \A u \in HashThreads \ {t} : h.thread[u] = hash.thread[u],
           Called(hash, h.thread[t]), ~Fills(h.thread[t]),
           ~hash.stolen => Looking(hash, h.thread[t])
    PROVE  HashInv(h)
<1>1. \A u \in HashThreads : Called(h, h.thread[u])
  BY DEF HashInv, Called
<1>2. Stamped(h)
  BY DEF HashInv, Stamped
<1>3. ASSUME ~h.stolen PROVE Valued(h) /\ InBuckets(h) /\ \A u \in HashThreads : Filling(h, u) /\ Looking(h, h.thread[u])
  <2>1. Valued(h) /\ InBuckets(h)
    BY <1>3 DEF HashInv, Valued, InBuckets
  <2>2. ASSUME NEW u \in HashThreads PROVE Filling(h, u)
    BY <1>3 DEF HashInv, Filling
  <2>3. ASSUME NEW u \in HashThreads PROVE Looking(h, h.thread[u])
    <3>1. Looking(hash, h.thread[u])
      BY <1>3 DEF HashInv
    <3> QED
      BY <3>1 DEF Looking, Present, PlaceKept, Found, Answers, Has, Stays
  <2> QED
    BY <2>1, <2>2, <2>3
<1> QED
  BY <1>1, <1>2, <1>3 DEF HashInv

-----------------------------------------------------------------------------
(* The steps.                                                              *)

LEMMA MovedIs ==
    ASSUME hash \in Hash, Stamped(hash), NEW e \in Ids, NEW new \in States
    PROVE  LET m == Moved(hash, e, new) IN
           /\ m \in Hash /\ Stamped(m)
           /\ m.state = [hash.state EXCEPT ![e] = new] /\ m.stamp = [hash.stamp EXCEPT ![e] = hash.clock + 1]
           /\ m.clock = hash.clock + 1
           /\ m.key = hash.key /\ m.value = hash.value /\ m.thread = hash.thread /\ m.sets = hash.sets /\ m.gets = hash.gets
           /\ m.stored = hash.stored /\ m.aborted = hash.aborted /\ m.stolen = hash.stolen
<1> DEFINE m == Moved(hash, e, new)
<1>1. m \in Hash
  <2>1. m = [hash EXCEPT !.state = [hash.state EXCEPT ![e] = new], !.clock = hash.clock + 1,
                         !.stamp = [hash.stamp EXCEPT ![e] = hash.clock + 1]]
    BY DEF Hash, Moved
  <2>2. /\ [hash.state EXCEPT ![e] = new] \in [Ids -> States] /\ hash.clock + 1 \in Nat
        /\ [hash.stamp EXCEPT ![e] = hash.clock + 1] \in [Ids -> Nat]
    BY DEF Hash
  <2> HIDE DEF m
  <2> QED
    BY <2>1, <2>2 DEF Hash
<1>2. /\ m.state = [hash.state EXCEPT ![e] = new] /\ m.stamp = [hash.stamp EXCEPT ![e] = hash.clock + 1]
      /\ m.clock = hash.clock + 1
      /\ m.key = hash.key /\ m.value = hash.value /\ m.thread = hash.thread /\ m.sets = hash.sets /\ m.gets = hash.gets
      /\ m.stored = hash.stored /\ m.aborted = hash.aborted /\ m.stolen = hash.stolen
  BY DEF Hash, Moved
<1>3. Stamped(m)
  <2>1. hash.clock \in Nat /\ hash.stamp \in [Ids -> Nat]
    BY DEF Hash
  <2> HIDE DEF m
  <2> QED
    BY <2>1, <1>2 DEF Stamped
<1> QED
  BY <1>1, <1>2, <1>3

\* Moving an element is an advance, whoever else does what.
LEMMA MovedAdvances ==
    ASSUME hash \in Hash, Stamped(hash), NEW e \in Ids, NEW new \in States, NEW h \in Hash,
           h.state = [hash.state EXCEPT ![e] = new], h.stamp = [hash.stamp EXCEPT ![e] = hash.clock + 1],
           h.clock = hash.clock + 1, h.key = hash.key, h.value = hash.value, h.stored = hash.stored
    PROVE  Advances(h)
<1>1. hash.clock \in Nat /\ hash.stamp \in [Ids -> Nat] /\ hash.state \in [Ids -> States]
  BY DEF Hash
<1> QED
  BY <1>1 DEF Advances

LEMMA ReadyIs == Ready \in HashCall /\ Ready.todo = "ready" /\ Ready.key = NoKey /\ Ready.id = NotFound
BY HashAssumption DEF Ready, HashCall, Todos, States, UNUSED, RESERVED, NotFound

LEMMA TakeKeeps == ASSUME HashInv(hash), NEW t \in HashThreads, sxe_hash_take(t) PROVE HashInv(hash')
<1>1. PICK k \in HashKeys : LET e == Oldest(Queue(UNUSED)) IN
          /\ HashDoes(t, "ready") /\ e # NotFound
          /\ hash' = Watched([Moved(hash, e, NEWLY) EXCEPT
                           !.sets = @ + 1, !.thread[t] = [Ready EXCEPT !.todo = "fill", !.id = e, !.key = k]])
  BY DEF sxe_hash_take
<1>2. PICK e : e = Oldest(Queue(UNUSED))
  OBVIOUS
<1>3. hash \in Hash /\ Stamped(hash)
  BY DEF HashInv
<1>4. e \in Ids /\ hash.state[e] = UNUSED
  <2>1. Queue(UNUSED) # {} /\ Queue(UNUSED) \in SUBSET Ids
    BY <1>1 DEF Oldest, Queue
  <2>2. e \in Queue(UNUSED)
    BY <2>1, <1>2, <1>3, OldestIs
  <2> QED
    BY <2>2 DEF Queue
<1>5. PICK c : c = [Ready EXCEPT !.todo = "fill", !.id = e, !.key = k]
  OBVIOUS
<1>6. c \in HashCall /\ c.todo = "fill" /\ c.id = e /\ c.key = k
  BY <1>4, <1>5, ReadyIs DEF HashCall, Todos
<1>7. PICK m : m = Moved(hash, e, NEWLY)
  OBVIOUS
<1>8. NEWLY \in States
  BY HashAssumption DEF NEWLY, States, RESERVED
<1>9. /\ m \in Hash /\ Stamped(m)
      /\ m.state = [hash.state EXCEPT ![e] = NEWLY] /\ m.stamp = [hash.stamp EXCEPT ![e] = hash.clock + 1]
      /\ m.clock = hash.clock + 1
      /\ m.key = hash.key /\ m.value = hash.value /\ m.thread = hash.thread /\ m.sets = hash.sets /\ m.gets = hash.gets
      /\ m.stored = hash.stored /\ m.aborted = hash.aborted /\ m.stolen = hash.stolen
  BY <1>3, <1>4, <1>7, <1>8, MovedIs
<1>10. PICK h : h = [m EXCEPT !.sets = @ + 1, !.thread[t] = c]
  OBVIOUS
<1>11. /\ h \in Hash
       /\ h.state = m.state /\ h.stamp = m.stamp /\ h.clock = m.clock /\ h.key = m.key /\ h.value = m.value
       /\ h.thread = [m.thread EXCEPT ![t] = c] /\ h.sets = m.sets + 1
       /\ h.stored = m.stored /\ h.stolen = m.stolen
  <2>1. h = [m EXCEPT !.sets = m.sets + 1, !.thread = [m.thread EXCEPT ![t] = c]]
    BY <1>9, <1>10 DEF Hash
  <2>2. m.sets + 1 \in Nat /\ [m.thread EXCEPT ![t] = c] \in [HashThreads -> HashCall]
    BY <1>6, <1>9 DEF Hash
  <2> QED
    BY <1>9, <2>1, <2>2 DEF Hash
<1>12. hash' = Watched(h)
  BY <1>1, <1>2, <1>5, <1>7, <1>10
<1>13. hash.thread \in [HashThreads -> HashCall] /\ hash.sets \in Nat /\ hash.state \in [Ids -> States]
  BY <1>3 DEF Hash
<1>14. h.thread[t] = c /\ \A u \in HashThreads \ {t} : h.thread[u] = hash.thread[u]
  BY <1>9, <1>11, <1>13
<1>15. Stamped(h) /\ Called(h, c)
  BY <1>6, <1>9, <1>11, <1>4 DEF Stamped, Called, NotFound, Ids
<1>16. ASSUME ~h.stolen
       PROVE  /\ Advances(h) /\ Valued(h) /\ InBuckets(h) /\ Looking(h, Remembers(h, c))
              /\ \A u \in HashThreads : Filling(h, u)
  <2>1. ~hash.stolen
    BY <1>16, <1>9, <1>11
  <2>2. Advances(h)
    BY <1>3, <1>4, <1>8, <1>9, <1>11, MovedAdvances
  <2>3. Valued(h) /\ InBuckets(h)
    BY <2>1, <1>9, <1>11, <1>4, <1>13 DEF HashInv, Valued, InBuckets
  <2>4. Looking(h, Remembers(h, c))
    BY <1>6, RemembersIs DEF Looking, Looks
  <2>5. ASSUME NEW u \in HashThreads PROVE Filling(h, u)
    <3>1. \A v \in HashThreads \ {t} : Fills(h.thread[v]) => h.state[h.thread[v].id] = NEWLY /\ h.thread[v].id # e
      <4>1. ASSUME NEW v \in HashThreads \ {t}, Fills(h.thread[v]) PROVE h.state[h.thread[v].id] = NEWLY /\ h.thread[v].id # e
        <5>1. hash.state[h.thread[v].id] = NEWLY /\ Fills(hash.thread[v]) /\ h.thread[v] = hash.thread[v]
          BY <4>1, <2>1, <1>14 DEF HashInv, Filling
        <5>2. h.thread[v].id \in Ids
          BY <5>1, <1>13 DEF HashInv, Called, Fills, HashCall
        <5> QED
          BY <5>1, <5>2, <1>4, <1>9, <1>11, <1>13 DEF UNUSED, NEWLY
      <4> QED
        BY <4>1
    <3>2. CASE u = t
      BY <3>1, <3>2, <1>4, <1>6, <1>9, <1>11, <1>13, <1>14 DEF Filling
    <3>3. CASE u # t
      BY <3>1, <3>3, <2>1, <1>6, <1>9, <1>11, <1>13, <1>14 DEF Filling, HashInv
    <3> QED
      BY <3>2, <3>3
  <2> QED
    BY <2>2, <2>3, <2>4, <2>5
<1>17. h.stolen = hash.stolen /\ h.key = hash.key
  BY <1>9, <1>11
<1> QED
  BY <1>11, <1>12, <1>14, <1>15, <1>16, <1>17, WatchedKeeps

LEMMA SetKeeps == ASSUME HashInv(hash), NEW t \in HashThreads, sxe_hash_set(t) PROVE HashInv(hash')
<1>1. PICK th : th = hash.thread[t]
  OBVIOUS
<1>2. PICK h : h = [hash EXCEPT !.key[th.id] = th.key, !.value[th.id] = hash.sets,
                                !.stored = @ \cup {<<th.key, hash.sets>>},
                                !.thread[t].todo = "add"]
  OBVIOUS
<1>3. hash' = Watched(h) /\ th.todo = "fill"
  BY <1>1, <1>2 DEF sxe_hash_set, HashDoes
<1>4. hash \in Hash /\ Stamped(hash) /\ hash.thread \in [HashThreads -> HashCall] /\ th \in HashCall
  BY <1>1 DEF HashInv, Hash
<1>5. th.key \in HashKeys /\ th.id \in Ids
  BY <1>1, <1>3, <1>4 DEF HashInv, Called, HashCall
<1>6. PICK c : c = [th EXCEPT !.todo = "add"]
  OBVIOUS
<1>7. c \in HashCall /\ c.todo = "add" /\ c.id = th.id /\ c.key = th.key
  BY <1>4, <1>6 DEF HashCall, Todos
<1>8. /\ h \in Hash
      /\ h.state = hash.state /\ h.stamp = hash.stamp /\ h.clock = hash.clock /\ h.sets = hash.sets
      /\ h.key = [hash.key EXCEPT ![th.id] = th.key] /\ h.value = [hash.value EXCEPT ![th.id] = hash.sets]
      /\ h.stored = hash.stored \cup {<<th.key, hash.sets>>} /\ h.stolen = hash.stolen
      /\ h.thread = [hash.thread EXCEPT ![t] = c]
  <2>1. h = [hash EXCEPT !.key = [hash.key EXCEPT ![th.id] = th.key], !.value = [hash.value EXCEPT ![th.id] = hash.sets],
                         !.stored = hash.stored \cup {<<th.key, hash.sets>>}, !.thread = [hash.thread EXCEPT ![t] = c]]
    BY <1>1, <1>2, <1>4, <1>6 DEF Hash
  <2>2. /\ [hash.key EXCEPT ![th.id] = th.key] \in [Ids -> HashKeys \cup {NoKey}]
        /\ [hash.value EXCEPT ![th.id] = hash.sets] \in [Ids -> Nat]
        /\ hash.stored \cup {<<th.key, hash.sets>>} \in SUBSET (HashKeys \X Nat)
        /\ [hash.thread EXCEPT ![t] = c] \in [HashThreads -> HashCall]
    BY <1>4, <1>5, <1>7 DEF Hash
  <2> QED
    BY <1>4, <2>1, <2>2 DEF Hash
<1>9. h.thread[t] = c /\ \A u \in HashThreads \ {t} : h.thread[u] = hash.thread[u]
  BY <1>4, <1>8
<1>10. hash.key \in [Ids -> HashKeys \cup {NoKey}] /\ hash.value \in [Ids -> Nat] /\ hash.sets \in Nat
  BY <1>4 DEF Hash
<1>11. /\ Stamped(h) /\ Called(h, c)
       /\ \A e \in Ids : hash.key[e] # NoKey => h.key[e] # NoKey
  <2>1. th.key # NoKey /\ th.id # NotFound
    BY <1>5, HashAssumption DEF NotFound, Ids
  <2>2. h.key[th.id] = th.key /\ \A e \in Ids \ {th.id} : h.key[e] = hash.key[e]
    BY <1>5, <1>8, <1>10
  <2>3. Stamped(h)
    BY <1>4, <1>8 DEF Stamped
  <2>4. Called(h, c)
    BY <1>5, <1>7, <2>1, <2>2 DEF Called
  <2> QED
    BY <2>1, <2>2, <2>3, <2>4
<1>12. ASSUME ~h.stolen
       PROVE  /\ Advances(h) /\ Valued(h) /\ InBuckets(h) /\ Looking(h, Remembers(h, c))
              /\ \A u \in HashThreads : Filling(h, u)
  <2>1. ~hash.stolen
    BY <1>12, <1>8
  <2>2. /\ hash.state[th.id] = NEWLY /\ hash.sets > 0
        /\ \A u \in HashThreads \ {t} : Fills(hash.thread[u]) => hash.thread[u].id # th.id
    BY <2>1, <1>1, <1>3 DEF HashInv, Filling, Fills
  <2>3. Advances(h)
    <3>1. hash.clock \in Nat
      BY <1>4 DEF Hash
    <3> QED
      BY <3>1, <2>2, <1>5, <1>8, <1>10, <1>11 DEF Advances
  <2>4. Valued(h) /\ InBuckets(h)
    BY <2>1, <2>2, <1>5, <1>8, <1>10 DEF HashInv, Valued, InBuckets
  <2>5. Looking(h, Remembers(h, c))
    BY <1>7, RemembersIs DEF Looking, Looks
  <2>6. ASSUME NEW u \in HashThreads PROVE Filling(h, u)
    <3>1. CASE u = t
      BY <3>1, <2>2, <1>5, <1>7, <1>8, <1>9, <1>10 DEF Filling
    <3>2. ASSUME u # t, Fills(h.thread[u]) PROVE Filling(h, u)
      <4>1. hash.thread[u].id # th.id /\ h.thread[u] = hash.thread[u] /\ Filling(hash, u)
        BY <3>2, <2>1, <2>2, <1>9 DEF HashInv
      <4>2. h.key[hash.thread[u].id] = hash.key[hash.thread[u].id] /\ h.value[hash.thread[u].id] = hash.value[hash.thread[u].id]
        BY <4>1, <1>8, <1>10
      <4>3. \A v \in HashThreads \ {u} : Fills(h.thread[v]) => h.thread[v].id # h.thread[u].id
        BY <4>1, <3>2, <1>7, <1>9 DEF Filling
      <4> QED
        BY <4>1, <4>2, <4>3, <3>2, <1>8 DEF Filling
    <3> QED
      BY <3>1, <3>2 DEF Filling
  <2> QED
    BY <2>3, <2>4, <2>5, <2>6
<1> QED
  BY <1>3, <1>8, <1>9, <1>11, <1>12, WatchedKeeps

LEMMA AbortKeeps == ASSUME HashInv(hash), hash' = [hash EXCEPT !.aborted = TRUE] PROVE HashInv(hash')
<1>1. PICK h : h = [hash EXCEPT !.aborted = TRUE]
  OBVIOUS
<1>2. hash \in Hash
  BY DEF HashInv
<1>3. /\ h \in Hash
      /\ h.state = hash.state /\ h.stamp = hash.stamp /\ h.clock = hash.clock /\ h.key = hash.key /\ h.value = hash.value
      /\ h.sets = hash.sets /\ h.stored = hash.stored /\ h.stolen = hash.stolen /\ h.thread = hash.thread
  BY <1>1, <1>2 DEF Hash
<1>4. HashInv(h)
  BY <1>3 DEF HashInv, Stamped, Called, Valued, InBuckets, Filling, Looking, Present, PlaceKept, Found, Answers, Has, Stays
<1> QED
  BY <1>1, <1>4

LEMMA AddKeeps == ASSUME HashInv(hash), NEW t \in HashThreads, sxe_hash_add(t) PROVE HashInv(hash')
<1>1. PICK e : e = hash.thread[t].id
  OBVIOUS
<1>2. PICK new : new = Bucket(hash.key[e])
  OBVIOUS
<1>3. /\ hash.thread[t].todo = "add"
      /\ hash' = IF hash.state[e] = NEWLY THEN Watched([Moved(hash, e, new) EXCEPT !.thread[t] = Ready])
                 ELSE [hash EXCEPT !.aborted = TRUE]
  BY <1>1, <1>2 DEF sxe_hash_add, HashDoes
<1>4. /\ hash \in Hash /\ Stamped(hash) /\ hash.thread \in [HashThreads -> HashCall]
      /\ hash.key \in [Ids -> HashKeys \cup {NoKey}] /\ hash.state \in [Ids -> States] /\ hash.thread[t] \in HashCall
  BY DEF HashInv, Hash
<1>5. e \in Ids /\ hash.key[e] \in HashKeys
  <2>1. Called(hash, hash.thread[t])
    BY DEF HashInv
  <2>2. e \in Ids
    BY <2>1, <1>1, <1>3, <1>4 DEF Called, HashCall
  <2> QED
    BY <2>1, <2>2, <1>1, <1>3, <1>4 DEF Called
<1>6. new \in States /\ new \notin {UNUSED, NEWLY}
  BY <1>2, <1>5, BucketIs
<1>7. CASE hash.state[e] # NEWLY
  BY <1>3, <1>7, AbortKeeps
<1>8. CASE hash.state[e] = NEWLY
  <2>1. PICK m : m = Moved(hash, e, new)
    OBVIOUS
  <2>2. /\ m \in Hash /\ Stamped(m)
        /\ m.state = [hash.state EXCEPT ![e] = new] /\ m.stamp = [hash.stamp EXCEPT ![e] = hash.clock + 1]
        /\ m.clock = hash.clock + 1
        /\ m.key = hash.key /\ m.value = hash.value /\ m.thread = hash.thread /\ m.sets = hash.sets
        /\ m.stored = hash.stored /\ m.stolen = hash.stolen
    BY <1>4, <1>5, <1>6, <2>1, MovedIs
  <2>3. PICK h : h = [m EXCEPT !.thread[t] = Ready]
    OBVIOUS
  <2>4. /\ h \in Hash
        /\ h.state = m.state /\ h.stamp = m.stamp /\ h.clock = m.clock /\ h.key = m.key /\ h.value = m.value
        /\ h.thread = [m.thread EXCEPT ![t] = Ready] /\ h.sets = m.sets
        /\ h.stored = m.stored /\ h.stolen = m.stolen
    <3>1. h = [m EXCEPT !.thread = [m.thread EXCEPT ![t] = Ready]]
      BY <2>2, <2>3 DEF Hash
    <3>2. [m.thread EXCEPT ![t] = Ready] \in [HashThreads -> HashCall]
      BY <2>2, <1>4, ReadyIs
    <3> QED
      BY <2>2, <3>1, <3>2 DEF Hash
  <2>5. hash' = Watched(h)
    BY <1>3, <1>8, <2>1, <2>3
  <2>6. h.thread[t] = Ready /\ \A u \in HashThreads \ {t} : h.thread[u] = hash.thread[u]
    BY <2>2, <2>4, <1>4
  <2>7. Stamped(h) /\ Called(h, Ready)
    BY <2>2, <2>4, ReadyIs DEF Stamped, Called
  <2>8. ASSUME ~h.stolen
        PROVE  /\ Advances(h) /\ Valued(h) /\ InBuckets(h) /\ Looking(h, Remembers(h, Ready))
               /\ \A u \in HashThreads : Filling(h, u)
    <3>1. ~hash.stolen
      BY <2>8, <2>2, <2>4
    <3>2. Advances(h)
      <4>1. /\ h.state = [hash.state EXCEPT ![e] = new] /\ h.stamp = [hash.stamp EXCEPT ![e] = hash.clock + 1]
            /\ h.clock = hash.clock + 1 /\ h.key = hash.key /\ h.value = hash.value /\ h.stored = hash.stored
        BY <2>2, <2>4
      <4> QED
        BY <1>4, <1>5, <1>6, <2>4, <4>1, MovedAdvances
    <3>3. /\ hash.key[e] = hash.thread[t].key /\ <<hash.thread[t].key, hash.value[e]>> \in hash.stored
          /\ \A u \in HashThreads \ {t} : Fills(hash.thread[u]) => hash.thread[u].id # e
      BY <3>1, <1>1, <1>3 DEF HashInv, Filling, Fills
    <3>4. Valued(h) /\ InBuckets(h)
      BY <3>1, <3>3, <2>2, <2>4, <1>4, <1>5 DEF HashInv, Valued, InBuckets
    <3>5. Looking(h, Remembers(h, Ready))
      BY ReadyIs, RemembersIs DEF Looking, Looks
    <3>6. ASSUME NEW u \in HashThreads PROVE Filling(h, u)
      <4>1. CASE u = t
        BY <4>1, <2>6, ReadyIs DEF Filling, Fills
      <4>2. ASSUME u # t, Fills(h.thread[u]) PROVE Filling(h, u)
        <5>1. Filling(hash, u) /\ h.thread[u] = hash.thread[u] /\ h.thread[u].id # e
          BY <4>2, <3>1, <3>3, <2>6 DEF HashInv
        <5>2. h.state[h.thread[u].id] = NEWLY
          BY <5>1, <4>2, <2>2, <2>4, <1>4 DEF Filling
        <5>3. \A v \in HashThreads \ {u} : Fills(h.thread[v]) => h.thread[v].id # h.thread[u].id
          BY <5>1, <4>2, <2>6, ReadyIs DEF Filling, Fills
        <5> QED
          BY <5>1, <5>2, <5>3, <4>2, <2>2, <2>4 DEF Filling
      <4> QED
        BY <4>1, <4>2 DEF Filling
    <3> QED
      BY <3>2, <3>3, <3>4, <3>5, <3>6
  <2>9. h.stolen = hash.stolen /\ \A d \in Ids : hash.key[d] # NoKey => h.key[d] # NoKey
    BY <2>2, <2>4
  <2>10. HashInv(Watched(h))
    BY <2>4, <2>6, <2>7, <2>8, <2>9, WatchedKeeps
  <2> QED
    BY <2>5, <2>10
<1> QED
  BY <1>7, <1>8

\* What the step of one call leaves as it was.
LEMMA CallIs ==
    ASSUME HashInv(hash), NEW t \in HashThreads, NEW c \in HashCall, Called(hash, c), ~Fills(c), ~hash.stolen => Looking(hash, c)
    PROVE  HashInv([hash EXCEPT !.thread[t] = c])
<1>1. PICK h : h = [hash EXCEPT !.thread[t] = c]
  OBVIOUS
<1>2. hash \in Hash /\ hash.thread \in [HashThreads -> HashCall]
  BY DEF HashInv, Hash
<1>3. h = [hash EXCEPT !.thread = [hash.thread EXCEPT ![t] = c]]
  BY <1>1, <1>2 DEF Hash
<1>4. [hash.thread EXCEPT ![t] = c] \in [HashThreads -> HashCall]
  BY <1>2
<1>5. /\ h \in Hash
      /\ h.state = hash.state /\ h.stamp = hash.stamp /\ h.clock = hash.clock /\ h.key = hash.key /\ h.value = hash.value
      /\ h.sets = hash.sets /\ h.stored = hash.stored /\ h.stolen = hash.stolen
      /\ h.thread = [hash.thread EXCEPT ![t] = c]
  BY <1>2, <1>3, <1>4 DEF Hash
<1>6. h.thread[t] = c /\ \A u \in HashThreads \ {t} : h.thread[u] = hash.thread[u]
  BY <1>2, <1>5
<1>7. HashInv(h)
  BY <1>5, <1>6, AloneKeeps
<1> QED
  BY <1>1, <1>7

LEMMA GetKeeps == ASSUME HashInv(hash), NEW t \in HashThreads, sxe_hash_get(t) PROVE HashInv(hash')
<1>1. PICK k \in HashKeys, removes \in BOOLEAN :
          hash' = [hash EXCEPT !.gets = @ + 1,
                               !.thread[t] = [Ready EXCEPT !.todo = "step", !.key = k, !.removes = removes,
                                                             !.always = Present(hash, k)]]
  BY DEF sxe_hash_get
<1>2. PICK c : c = [Ready EXCEPT !.todo = "step", !.key = k, !.removes = removes, !.always = Present(hash, k)]
  OBVIOUS
<1>3. Present(hash, k) \in BOOLEAN
  BY DEF Present
<1>4. c \in HashCall /\ c.todo = "step" /\ c.key = k /\ c.id = NotFound /\ c.last = 0 /\ (c.always <=> Present(hash, k))
      /\ c.answer = NotFound
  BY <1>2, <1>3, ReadyIs DEF HashCall, Todos, Ready
<1>5. hash \in Hash /\ hash.thread \in [HashThreads -> HashCall] /\ hash.gets \in Nat /\ hash.clock \in Nat
  BY DEF HashInv, Hash
<1>6. PICK h : h = [hash EXCEPT !.gets = @ + 1, !.thread[t] = c]
  OBVIOUS
<1>7. h = [hash EXCEPT !.gets = hash.gets + 1, !.thread = [hash.thread EXCEPT ![t] = c]]
  BY <1>5, <1>6 DEF Hash
<1>8. [hash.thread EXCEPT ![t] = c] \in [HashThreads -> HashCall] /\ hash.gets + 1 \in Nat
  BY <1>4, <1>5
<1>9. /\ h \in Hash
      /\ h.state = hash.state /\ h.stamp = hash.stamp /\ h.clock = hash.clock /\ h.key = hash.key /\ h.value = hash.value
      /\ h.sets = hash.sets /\ h.stored = hash.stored /\ h.stolen = hash.stolen
      /\ h.thread = [hash.thread EXCEPT ![t] = c]
  BY <1>5, <1>7, <1>8 DEF Hash
<1>10. h.thread[t] = c /\ \A u \in HashThreads \ {t} : h.thread[u] = hash.thread[u]
  BY <1>5, <1>9
<1>11. Called(hash, c) /\ ~Fills(c)
  BY <1>4 DEF Called, Fills
<1>12. Looking(hash, c)
  BY <1>4, <1>5 DEF Looking, Walks, Found, Answers
<1>13. HashInv(h)
  BY <1>9, <1>10, <1>11, <1>12, AloneKeeps
<1> QED
  BY <1>1, <1>2, <1>6, <1>13

LEMMA CompareKeeps == ASSUME HashInv(hash), NEW t \in HashThreads, Compare(t) PROVE HashInv(hash')
<1>1. PICK th : th = hash.thread[t]
  OBVIOUS
<1>2. PICK c : c = [th EXCEPT !.todo = IF hash.key[th.id] = th.key THEN "value" ELSE "step"]
  OBVIOUS
<1>3. hash \in Hash /\ hash.thread \in [HashThreads -> HashCall] /\ th \in HashCall /\ Called(hash, th)
  BY <1>1 DEF HashInv, Hash
<1>4. th.todo = "compare" /\ hash' = [hash EXCEPT !.thread[t] = c]
  BY <1>1, <1>2, <1>3 DEF Compare, HashDoes, Hash
<1>5. /\ c \in HashCall /\ c.todo = IF hash.key[th.id] = th.key THEN "value" ELSE "step"
      /\ c.key = th.key /\ c.id = th.id /\ c.back = th.back /\ c.last = th.last /\ c.answer = th.answer
      /\ c.always = th.always /\ c.reentered = th.reentered /\ c.freed = th.freed
  BY <1>2, <1>3 DEF HashCall, Todos
<1>6. th.key \in HashKeys /\ th.id \in Ids /\ th.id # NotFound
  BY <1>3, <1>4 DEF Called, HashCall
<1>7. Called(hash, c) /\ ~Fills(c)
  BY <1>5, <1>6 DEF Called, Fills
<1>8. ASSUME ~hash.stolen PROVE Looking(hash, c)
  <2>1. Looking(hash, th) /\ Looks(th) /\ Walks(th)
    BY <1>8, <1>1, <1>4, <1>6 DEF HashInv, Looks, Walks
  <2>2. c.last <= hash.clock /\ (c.always => Present(hash, c.key))
    BY <2>1, <1>5 DEF Looking
  <2>3. ASSUME Walks(c) PROVE PlaceKept(hash, c)
    <3>1. PlaceKept(hash, th)
      BY <2>1 DEF Looking
    <3>2. hash.key[th.id] # th.key /\ c.todo = "step"
      BY <2>3, <1>5 DEF Walks
    <3>3. ASSUME ~th.reentered, NEW e \in Ids, Has(hash, e, th) PROVE hash.stamp[e] > th.last
      BY <3>1, <3>2, <3>3 DEF PlaceKept, Has
    <3> QED
      BY <3>1, <3>2, <3>3, <1>5 DEF PlaceKept, Has, Stays
  <2>4. Found(hash, c)
    BY <2>1, <1>4, <1>5, <1>6, HashAssumption DEF Looking, Found
  <2>5. Answers(hash, c)
    BY <2>1, <1>4, <1>5 DEF Looking, Answers
  <2> QED
    BY <2>2, <2>3, <2>4, <2>5 DEF Looking
<1> QED
  BY <1>4, <1>5, <1>7, <1>8, CallIs

LEMMA ValueKeeps == ASSUME HashInv(hash), NEW t \in HashThreads, Value(t) PROVE HashInv(hash')
<1>1. PICK th : th = hash.thread[t]
  OBVIOUS
<1>2. PICK c : c = [th EXCEPT !.answer = hash.value[th.id], !.todo = IF th.removes THEN "state" ELSE "return"]
  OBVIOUS
<1>3. hash \in Hash /\ hash.thread \in [HashThreads -> HashCall] /\ th \in HashCall /\ Called(hash, th)
  BY <1>1 DEF HashInv, Hash
<1>4. th.todo = "value" /\ hash' = [hash EXCEPT !.thread[t] = c]
  BY <1>1, <1>2, <1>3 DEF Value, HashDoes, Hash
<1>5. th.key \in HashKeys /\ th.id \in Ids /\ th.id # NotFound
  BY <1>3, <1>4 DEF Called, HashCall
<1>6. /\ c \in HashCall /\ c.todo \in {"state", "return"} /\ c.answer = hash.value[th.id]
      /\ c.key = th.key /\ c.id = th.id /\ c.last = th.last
      /\ c.always = th.always /\ c.reentered = th.reentered /\ c.freed = th.freed
  <2>1. hash.value[th.id] \in Nat
    BY <1>3, <1>5 DEF Hash
  <2> QED
    BY <2>1, <1>2, <1>3 DEF HashCall, Todos
<1>7. Called(hash, c) /\ ~Fills(c)
  BY <1>5, <1>6 DEF Called, Fills
<1>8. ASSUME ~hash.stolen PROVE Looking(hash, c)
  <2>1. Looking(hash, th) /\ Looks(th) /\ Valued(hash) /\ InBuckets(hash)
    BY <1>8, <1>1, <1>4 DEF HashInv, Looks
  <2>2. c.last <= hash.clock /\ (c.always => Present(hash, c.key))
    BY <2>1, <1>6 DEF Looking
  <2>3. ~Walks(c) /\ Found(hash, c)
    BY <1>6 DEF Walks, Found
  <2>4. c.answer # NotFound
    BY <2>1, <1>4, <1>5, <1>6 DEF Looking, Found, Valued, NotFound
  <2>5. ASSUME ~th.freed PROVE <<th.key, hash.value[th.id]>> \in hash.stored
    <3>1. hash.state[th.id] = Bucket(th.key) /\ hash.key[th.id] = th.key
      BY <2>1, <2>5, <1>4 DEF Looking, Found
    <3> QED
      BY <3>1, <2>1, <1>5, BucketIs DEF InBuckets
  <2>6. Answers(hash, c)
    BY <2>4, <2>5, <1>6 DEF Answers
  <2> QED
    BY <2>2, <2>3, <2>6 DEF Looking
<1> QED
  BY <1>4, <1>6, <1>7, <1>8, CallIs

LEMMA StateKeeps == ASSUME HashInv(hash), NEW t \in HashThreads, sxe_hash_give(t) PROVE HashInv(hash')
<1>1. PICK th : th = hash.thread[t]
  OBVIOUS
<1>2. PICK c : c = [th EXCEPT !.state = hash.state[th.id], !.todo = "give"]
  OBVIOUS
<1>3. hash \in Hash /\ hash.thread \in [HashThreads -> HashCall] /\ th \in HashCall /\ Called(hash, th)
  BY <1>1 DEF HashInv, Hash
<1>4. th.todo = "state" /\ hash' = [hash EXCEPT !.thread[t] = c]
  BY <1>1, <1>2, <1>3 DEF sxe_hash_give, HashDoes, Hash
<1>5. th.key \in HashKeys /\ th.id \in Ids /\ th.id # NotFound
  BY <1>3, <1>4 DEF Called, HashCall
<1>6. /\ c \in HashCall /\ c.todo = "give" /\ c.answer = th.answer
      /\ c.key = th.key /\ c.id = th.id /\ c.last = th.last
      /\ c.always = th.always /\ c.reentered = th.reentered /\ c.freed = th.freed
  <2>1. hash.state[th.id] \in States
    BY <1>3, <1>5 DEF Hash
  <2> QED
    BY <2>1, <1>2, <1>3 DEF HashCall, Todos
<1>7. Called(hash, c) /\ ~Fills(c)
  BY <1>5, <1>6 DEF Called, Fills
<1>8. ASSUME ~hash.stolen PROVE Looking(hash, c)
  <2>1. Looking(hash, th) /\ Looks(th)
    BY <1>8, <1>1, <1>4 DEF HashInv, Looks
  <2> QED
    BY <2>1, <1>4, <1>6 DEF Looking, Walks, Found, Answers
<1> QED
  BY <1>4, <1>6, <1>7, <1>8, CallIs

LEMMA ReturnKeeps == ASSUME HashInv(hash), NEW t \in HashThreads, Return(t) PROVE HashInv(hash')
<1>1. hash' = [hash EXCEPT !.thread[t] = Ready]
  BY DEF Return
<1>2. Called(hash, Ready) /\ ~Fills(Ready) /\ Looking(hash, Ready)
  BY ReadyIs DEF Called, Fills, Looking, Looks
<1> QED
  BY <1>1, <1>2, ReadyIs, CallIs

\* On from an element of the bucket: nothing of the bucket lies between.
LEMMA AfterIs ==
    ASSUME hash \in Hash, NEW bucket \in SUBSET Ids, NEW e \in bucket
    PROVE  LET a == After(bucket, e) IN
           /\ a.back = e /\ a.id \in bucket \cup {NotFound}
           /\ a.id = NotFound => \A d \in bucket : hash.stamp[d] <= hash.stamp[e]
           /\ a.id # NotFound => /\ hash.stamp[a.id] > hash.stamp[e]
                                 /\ \A d \in bucket : hash.stamp[d] <= hash.stamp[e] \/ hash.stamp[d] >= hash.stamp[a.id]
<1> DEFINE later == {d \in bucket : hash.stamp[d] > hash.stamp[e]}
<1>1. After(bucket, e).id = Oldest(later) /\ After(bucket, e).back = e
  BY DEF After
<1>2. \A d \in bucket : hash.stamp[d] \in Nat
  BY DEF Hash
<1>3. CASE later = {}
  <2>1. Oldest(later) = NotFound
    BY <1>3 DEF Oldest
  <2>2. \A d \in bucket : hash.stamp[d] <= hash.stamp[e]
    BY <1>2, <1>3
  <2> QED
    BY <1>1, <2>1, <2>2
<1>4. CASE later # {}
  <2>1. Oldest(later) \in later /\ \A d \in later : hash.stamp[Oldest(later)] <= hash.stamp[d]
    BY <1>4, OldestIs
  <2>2. Oldest(later) # NotFound
    BY <2>1 DEF Ids, NotFound
  <2> QED
    BY <1>1, <1>2, <2>1, <2>2
<1> QED
  BY <1>3, <1>4

\* A step of a walk finds what is next in the bucket, and passes nothing with the key.
LEMMA WalkOn ==
    ASSUME hash \in Hash, Stamped(hash), NEW th \in HashCall, th.key \in HashKeys, th.todo = "step"
    PROVE  LET to == WalkerStep(th) IN
           /\ to.id \in Ids \cup {NotFound} /\ to.back \in Ids \cup {NotFound}
           /\ to.id # NotFound => hash.state[to.id] = Bucket(th.key)
           /\ to.id # NotFound /\ Stays(hash, to.back, th) =>
                 /\ hash.stamp[to.back] < hash.stamp[to.id]
                 /\ \A e \in Ids : hash.state[e] = Bucket(th.key) =>
                       hash.stamp[e] <= hash.stamp[to.back] \/ hash.stamp[e] >= hash.stamp[to.id]
           /\ ~th.reentered /\ (th.id # NotFound => PlaceKept(hash, th)) =>
                 \A e \in Ids : Has(hash, e, th) => to.id # NotFound /\ hash.stamp[e] >= hash.stamp[to.id]
<1> DEFINE to == WalkerStep(th)
           bucket == Queue(Bucket(th.key))
           met == {e \in bucket : hash.stamp[e] < th.last}
<1>1. /\ bucket \in SUBSET Ids /\ \A e \in Ids : e \in bucket <=> hash.state[e] = Bucket(th.key)
      /\ \A e \in Ids : Has(hash, e, th) => e \in bucket
  BY DEF Queue, Has
<1>2. /\ \A e \in Ids : hash.stamp[e] \in Nat
      /\ th.last \in Nat /\ th.id \in Ids \cup {NotFound} /\ th.back \in Ids \cup {NotFound}
      /\ NotFound \notin Ids
  <2>1. NotFound \notin Ids
    BY DEF Ids, NotFound
  <2> QED
    BY <2>1 DEF Hash, HashCall
<1>3. to = IF th.id = NotFound THEN [id |-> Oldest(bucket), back |-> NotFound]
           ELSE IF th.id \in bucket THEN After(bucket, th.id)
           ELSE IF th.back \in bucket THEN After(bucket, th.back)
           ELSE [id |-> Oldest(bucket \ met), back |-> Newest(met)]
  BY DEF WalkerStep
<1> HIDE DEF to, bucket
<1>4. CASE th.id = NotFound
  <2>1. to.id = Oldest(bucket) /\ to.back = NotFound
    BY <1>3, <1>4
  <2>2. CASE bucket = {}
    BY <2>1, <2>2, <1>1 DEF Oldest, Stays, to
  <2>3. CASE bucket # {}
    <3>1. to.id \in bucket /\ \A d \in bucket : hash.stamp[to.id] <= hash.stamp[d]
      BY <2>1, <2>3, <1>1, OldestIs
    <3> QED
      BY <3>1, <2>1, <1>1, <1>2 DEF Stays, to
  <2> QED
    BY <2>2, <2>3
<1>5. ASSUME NEW e \in bucket, to = After(bucket, e), th.id # NotFound,
             ~th.reentered /\ PlaceKept(hash, th) => hash.stamp[e] <= th.last
      PROVE  LET to0 == to IN
             /\ to0.id \in Ids \cup {NotFound} /\ to0.back \in Ids \cup {NotFound}
             /\ to0.id # NotFound => hash.state[to0.id] = Bucket(th.key)
             /\ to0.id # NotFound /\ Stays(hash, to0.back, th) =>
                   /\ hash.stamp[to0.back] < hash.stamp[to0.id]
                   /\ \A d \in Ids : hash.state[d] = Bucket(th.key) =>
                         hash.stamp[d] <= hash.stamp[to0.back] \/ hash.stamp[d] >= hash.stamp[to0.id]
             /\ ~th.reentered /\ (th.id # NotFound => PlaceKept(hash, th)) =>
                   \A d \in Ids : Has(hash, d, th) => to0.id # NotFound /\ hash.stamp[d] >= hash.stamp[to0.id]
  <2>1. /\ to.back = e /\ to.id \in bucket \cup {NotFound}
        /\ to.id = NotFound => \A d \in bucket : hash.stamp[d] <= hash.stamp[e]
        /\ to.id # NotFound => /\ hash.stamp[to.id] > hash.stamp[e]
                               /\ \A d \in bucket : hash.stamp[d] <= hash.stamp[e] \/ hash.stamp[d] >= hash.stamp[to.id]
    BY <1>1, <1>5, AfterIs
  <2>2. ASSUME ~th.reentered, PlaceKept(hash, th), NEW d \in Ids, Has(hash, d, th)
        PROVE  to.id # NotFound /\ hash.stamp[d] >= hash.stamp[to.id]
    <3>1. hash.stamp[d] > th.last
      BY <2>2 DEF PlaceKept
    <3>2. hash.stamp[d] > hash.stamp[e] /\ d \in bucket
      BY <3>1, <2>2, <1>1, <1>2, <1>5
    <3>3. ~(hash.stamp[d] <= hash.stamp[e])
      BY <3>2, <1>1, <1>2
    <3> QED
      BY <3>2, <3>3, <2>1
  <2>3. to.id # NotFound => hash.state[to.id] = Bucket(th.key)
    BY <2>1, <1>1
  <2>4. \A d \in Ids : hash.state[d] = Bucket(th.key) => d \in bucket
    BY <1>1
  <2> QED
    BY <2>1, <2>2, <2>3, <2>4, <1>1, <1>5
<1>6. CASE th.id # NotFound /\ th.id \in bucket
  <2>1. to = After(bucket, th.id)
    BY <1>3, <1>6
  <2>2. ~th.reentered /\ PlaceKept(hash, th) => hash.stamp[th.id] <= th.last
    BY <1>1, <1>2, <1>6 DEF PlaceKept, Stays
  <2> QED
    BY <2>1, <2>2, <1>5, <1>6 DEF to
<1>7. CASE th.id # NotFound /\ th.id \notin bucket /\ th.back \in bucket
  <2>1. to = After(bucket, th.back)
    BY <1>3, <1>7
  <2>2. ~th.reentered /\ PlaceKept(hash, th) => hash.stamp[th.back] <= th.last
    BY <1>1, <1>2, <1>7 DEF PlaceKept, Stays
  <2> QED
    BY <2>1, <2>2, <1>5, <1>7 DEF to
<1>8. CASE th.id # NotFound /\ th.id \notin bucket /\ th.back \notin bucket
  <2>1. to.id = Oldest(bucket \ met) /\ to.back = Newest(met)
    BY <1>3, <1>8
  <2>2. /\ bucket \ met \in SUBSET Ids /\ met \in SUBSET Ids
        /\ \A d \in bucket \ met : hash.stamp[d] >= th.last
    BY <1>1, <1>2
  <2>3. /\ to.id \in (bucket \ met) \cup {NotFound}
        /\ to.id # NotFound => \A d \in bucket \ met : hash.stamp[to.id] <= hash.stamp[d]
        /\ bucket \ met # {} => to.id # NotFound
    <3>1. CASE bucket \ met = {}
      BY <2>1, <3>1 DEF Oldest
    <3>2. CASE bucket \ met # {}
      BY <2>1, <2>2, <3>2, <1>2, OldestIs
    <3> QED
      BY <3>1, <3>2
  <2>4. to.back \in met \cup {NotFound} /\ \A d \in met : to.back \in met /\ hash.stamp[d] <= hash.stamp[to.back]
    <3>1. CASE met = {}
      BY <2>1, <3>1 DEF Newest
    <3>2. CASE met # {}
      BY <2>1, <2>2, <3>2, NewestIs
    <3> QED
      BY <3>1, <3>2
  <2>5. to.id \in Ids \cup {NotFound} /\ to.back \in Ids \cup {NotFound}
    BY <2>2, <2>3, <2>4
  <2>6. to.id # NotFound => hash.state[to.id] = Bucket(th.key)
    BY <2>3, <1>1
  <2>7. ASSUME to.id # NotFound, Stays(hash, to.back, th)
        PROVE  /\ hash.stamp[to.back] < hash.stamp[to.id]
               /\ \A e \in Ids : hash.state[e] = Bucket(th.key) =>
                       hash.stamp[e] <= hash.stamp[to.back] \/ hash.stamp[e] >= hash.stamp[to.id]
    <3>1. to.back \in met /\ to.id \in bucket \ met
      BY <2>7, <2>3, <2>4 DEF Stays
    <3>2. hash.stamp[to.back] < th.last /\ hash.stamp[to.id] >= th.last
      BY <3>1, <2>2
    <3>3. hash.stamp[to.back] < hash.stamp[to.id]
      BY <3>1, <3>2, <1>1, <1>2
    <3>4. \A e \in bucket : hash.stamp[e] <= hash.stamp[to.back] \/ hash.stamp[e] >= hash.stamp[to.id]
      BY <2>3, <2>4, <2>7
    <3> QED
      BY <3>3, <3>4, <1>1
  <2>8. ASSUME ~th.reentered, PlaceKept(hash, th), NEW e \in Ids, Has(hash, e, th)
        PROVE  to.id # NotFound /\ hash.stamp[e] >= hash.stamp[to.id]
    <3>1. hash.stamp[e] > th.last
      BY <2>8 DEF PlaceKept
    <3>2. e \in bucket \ met
      BY <3>1, <2>8, <1>1, <1>2
    <3> QED
      BY <3>2, <2>3, <1>1, <1>2
  <2> QED
    BY <2>5, <2>6, <2>7, <2>8, <1>8 DEF to
<1> QED
  BY <1>4, <1>6, <1>7, <1>8

LEMMA LookKeeps == ASSUME HashInv(hash), NEW t \in HashThreads, sxe_hash_look(t) PROVE HashInv(hash')
<1>1. PICK th : th = hash.thread[t]
  OBVIOUS
<1>2. PICK to : to = WalkerStep(th)
  OBVIOUS
<1>3. PICK c : c = [th EXCEPT !.id = to.id, !.back = to.back, !.freed = FALSE,
                              !.last = IF to.id = NotFound THEN th.last ELSE hash.stamp[to.id],
                              !.todo = IF to.id = NotFound THEN "return" ELSE "compare"]
  OBVIOUS
<1>4. hash \in Hash /\ Stamped(hash) /\ hash.thread \in [HashThreads -> HashCall] /\ th \in HashCall /\ Called(hash, th)
  BY <1>1 DEF HashInv, Hash
<1>5. th.todo = "step" /\ hash' = [hash EXCEPT !.thread[t] = c]
  BY <1>1, <1>2, <1>3, <1>4 DEF sxe_hash_look, HashDoes, Hash, HashCall
<1>6. th.key \in HashKeys
  BY <1>4, <1>5 DEF Called
<1>7. /\ to.id \in Ids \cup {NotFound} /\ to.back \in Ids \cup {NotFound}
      /\ to.id # NotFound => hash.state[to.id] = Bucket(th.key)
      /\ to.id # NotFound /\ Stays(hash, to.back, th) =>
            /\ hash.stamp[to.back] < hash.stamp[to.id]
            /\ \A e \in Ids : hash.state[e] = Bucket(th.key) =>
                  hash.stamp[e] <= hash.stamp[to.back] \/ hash.stamp[e] >= hash.stamp[to.id]
      /\ ~th.reentered /\ (th.id # NotFound => PlaceKept(hash, th)) =>
            \A e \in Ids : Has(hash, e, th) => to.id # NotFound /\ hash.stamp[e] >= hash.stamp[to.id]
  BY <1>2, <1>4, <1>5, <1>6, WalkOn
<1>8. /\ \A e \in Ids : hash.stamp[e] \in Nat /\ hash.stamp[e] <= hash.clock
      /\ \A d, e \in Ids : hash.stamp[d] = hash.stamp[e] => d = e
      /\ th.last \in Nat
  BY <1>4 DEF Hash, Stamped, HashCall
<1>9. /\ c \in HashCall /\ c.todo = (IF to.id = NotFound THEN "return" ELSE "compare")
      /\ c.key = th.key /\ c.id = to.id /\ c.back = to.back /\ c.answer = th.answer
      /\ c.last = IF to.id = NotFound THEN th.last ELSE hash.stamp[to.id]
      /\ c.always = th.always /\ c.reentered = th.reentered /\ c.freed = FALSE
  <2>1. (IF to.id = NotFound THEN th.last ELSE hash.stamp[to.id]) \in Nat
    BY <1>7, <1>8
  <2>2. (IF to.id = NotFound THEN "return" ELSE "compare") \in Todos
    BY DEF Todos
  <2> QED
    BY <2>1, <2>2, <1>3, <1>4, <1>7 DEF HashCall
<1>10. Called(hash, c) /\ ~Fills(c)
  BY <1>6, <1>9 DEF Called, Fills
<1>11. ASSUME ~hash.stolen PROVE Looking(hash, c)
  <2>1. Looking(hash, th) /\ Looks(th)
    BY <1>11, <1>1, <1>5 DEF HashInv, Looks
  <2>2. th.id # NotFound => PlaceKept(hash, th)
    BY <2>1, <1>5 DEF Looking, Walks
  <2>3. ASSUME ~th.reentered, NEW e \in Ids, Has(hash, e, th) PROVE to.id # NotFound /\ hash.stamp[e] >= hash.stamp[to.id]
    BY <2>2, <2>3, <1>7
  <2>4. c.last <= hash.clock /\ (c.always => Present(hash, c.key))
    BY <2>1, <1>7, <1>8, <1>9 DEF Looking
  <2>5. ASSUME Walks(c) PROVE PlaceKept(hash, c)
    <3>1. c.id \in Ids /\ c.last = hash.stamp[c.id] /\ c.id = to.id /\ c.todo = "compare"
      BY <2>5, <1>7, <1>9 DEF Walks
    <3>2. ASSUME ~th.reentered, NEW e \in Ids, Has(hash, e, th) PROVE hash.stamp[e] > c.last \/ hash.stamp[e] = c.last
      BY <2>3, <3>1, <3>2, <1>8
    <3>3. \A e \in Ids : hash.stamp[e] = c.last => e = c.id
      BY <3>1, <1>8
    <3>4. Stays(hash, c.back, c) => /\ hash.stamp[c.back] < c.last
                                   /\ \A e \in Ids : hash.state[e] = Bucket(c.key) => hash.stamp[e] <= hash.stamp[c.back] \/ hash.stamp[e] >= c.last
      BY <3>1, <1>7, <1>9, <2>5 DEF Stays, Walks
    <3> QED
      BY <3>1, <3>2, <3>3, <3>4, <1>9 DEF PlaceKept, Has
  <2>6. Found(hash, c)
    BY <1>7, <1>9 DEF Found
  <2>7. ASSUME to.id = NotFound, th.always PROVE th.reentered
    <3>1. PICK e \in Ids : Has(hash, e, th)
      BY <2>1, <2>7 DEF Looking, Present, Has
    <3> QED
      BY <3>1, <2>3, <2>7
  <2>8. Answers(hash, c)
    BY <2>1, <2>7, <1>5, <1>9 DEF Looking, Answers
  <2> QED
    BY <2>4, <2>5, <2>6, <2>8 DEF Looking
<1> QED
  BY <1>5, <1>9, <1>10, <1>11, CallIs

LEMMA GiveKeeps == ASSUME HashInv(hash), NEW t \in HashThreads, Give(t) PROVE HashInv(hash')
<1>1. PICK th : th = hash.thread[t]
  OBVIOUS
<1>2. PICK e : e = th.id
  OBVIOUS
<1>3. /\ th.todo = "give"
      /\ hash' = IF hash.state[e] = th.state
                 THEN Watched([Moved(hash, e, UNUSED) EXCEPT !.thread[t].todo = "return",
                                                             !.stolen = @ \/ th.state = NEWLY])
                 ELSE [hash EXCEPT !.aborted = TRUE]
  BY <1>1, <1>2 DEF Give, HashDoes
<1>4. /\ hash \in Hash /\ Stamped(hash) /\ hash.thread \in [HashThreads -> HashCall] /\ th \in HashCall /\ Called(hash, th)
      /\ hash.state \in [Ids -> States] /\ hash.stolen \in BOOLEAN
  BY <1>1 DEF HashInv, Hash
<1>5. th.key \in HashKeys /\ e \in Ids
  BY <1>2, <1>3, <1>4 DEF Called, HashCall
<1>6. UNUSED \in States /\ UNUSED # NEWLY
  BY HashAssumption DEF UNUSED, NEWLY, States, RESERVED
<1>7. CASE hash.state[e] # th.state
  BY <1>3, <1>7, AbortKeeps
<1>8. CASE hash.state[e] = th.state
  <2>1. PICK m : m = Moved(hash, e, UNUSED)
    OBVIOUS
  <2>2. /\ m \in Hash /\ Stamped(m)
        /\ m.state = [hash.state EXCEPT ![e] = UNUSED] /\ m.stamp = [hash.stamp EXCEPT ![e] = hash.clock + 1]
        /\ m.clock = hash.clock + 1
        /\ m.key = hash.key /\ m.value = hash.value /\ m.thread = hash.thread /\ m.sets = hash.sets
        /\ m.stored = hash.stored /\ m.stolen = hash.stolen
    BY <1>4, <1>5, <1>6, <2>1, MovedIs
  <2>3. PICK c : c = [th EXCEPT !.todo = "return"]
    OBVIOUS
  <2>4. /\ c \in HashCall /\ c.todo = "return" /\ c.key = th.key /\ c.id = th.id /\ c.last = th.last /\ c.answer = th.answer
        /\ c.always = th.always /\ c.reentered = th.reentered /\ c.freed = th.freed
    BY <1>4, <2>3 DEF HashCall, Todos
  <2>5. PICK s \in BOOLEAN : s = (hash.stolen \/ th.state = NEWLY)
    BY <1>4
  <2>6. PICK h : h = [m EXCEPT !.thread[t].todo = "return", !.stolen = @ \/ th.state = NEWLY]
    OBVIOUS
  <2>7. /\ h \in Hash
        /\ h.state = m.state /\ h.stamp = m.stamp /\ h.clock = m.clock /\ h.key = m.key /\ h.value = m.value
        /\ h.thread = [m.thread EXCEPT ![t] = c] /\ h.sets = m.sets
        /\ h.stored = m.stored /\ h.stolen = s
    <3>1. h = [m EXCEPT !.thread = [m.thread EXCEPT ![t] = c], !.stolen = s]
      BY <1>1, <1>4, <2>2, <2>3, <2>5, <2>6 DEF Hash
    <3>2. [m.thread EXCEPT ![t] = c] \in [HashThreads -> HashCall]
      BY <2>2, <2>4, <1>4
    <3> QED
      BY <2>2, <2>5, <3>1, <3>2 DEF Hash
  <2>8. hash' = Watched(h)
    BY <1>3, <1>8, <2>1, <2>6
  <2>9. h.thread[t] = c /\ \A u \in HashThreads \ {t} : h.thread[u] = hash.thread[u]
    BY <2>2, <2>7, <1>4
  <2>10. Stamped(h) /\ Called(h, c)
    BY <2>2, <2>4, <2>7, <1>5 DEF Stamped, Called
  <2>11. ASSUME ~h.stolen
         PROVE  /\ ~hash.stolen /\ Advances(h) /\ Valued(h) /\ InBuckets(h) /\ Looking(h, Remembers(h, c))
                /\ \A u \in HashThreads : Filling(h, u)
    <3>1. ~hash.stolen /\ hash.state[e] # NEWLY
      BY <2>11, <2>5, <2>7, <1>8
    <3>2. Advances(h)
      <4>1. /\ h.state = [hash.state EXCEPT ![e] = UNUSED] /\ h.stamp = [hash.stamp EXCEPT ![e] = hash.clock + 1]
            /\ h.clock = hash.clock + 1 /\ h.key = hash.key /\ h.value = hash.value /\ h.stored = hash.stored
        BY <2>2, <2>7
      <4> QED
        BY <1>4, <1>5, <1>6, <2>7, <4>1, MovedAdvances
    <3>3. Valued(h) /\ InBuckets(h)
      BY <3>1, <2>2, <2>7, <1>4, <1>5 DEF HashInv, Valued, InBuckets
    <3>4. Looking(h, Remembers(h, c))
      <4>1. Looking(hash, th) /\ Looks(th)
        BY <3>1, <1>1, <1>3 DEF HashInv, Looks
      <4>2. Looking(hash, c)
        BY <4>1, <1>3, <2>4 DEF Looking, Walks, Found, Answers
      <4>3. c.key \in HashKeys /\ c.todo = "return"
        BY <2>4, <1>5
      <4> QED
        BY <4>2, <4>3, <3>2, <2>4, <2>7, <1>4, LookingKept
    <3>5. ASSUME NEW u \in HashThreads PROVE Filling(h, u)
      <4>1. CASE u = t
        BY <4>1, <2>4, <2>9 DEF Filling, Fills
      <4>2. ASSUME u # t, Fills(h.thread[u]) PROVE Filling(h, u)
        <5>1. Filling(hash, u) /\ h.thread[u] = hash.thread[u]
          BY <4>2, <3>1, <2>9 DEF HashInv
        <5>2. hash.state[h.thread[u].id] = NEWLY /\ h.thread[u].id # e
          BY <5>1, <4>2, <3>1 DEF Filling
        <5>3. h.state[h.thread[u].id] = NEWLY
          BY <5>2, <2>2, <2>7, <1>4
        <5>4. \A v \in HashThreads \ {u} : Fills(h.thread[v]) => h.thread[v].id # h.thread[u].id
          BY <5>1, <4>2, <2>4, <2>9 DEF Filling, Fills
        <5> QED
          BY <5>1, <5>3, <5>4, <4>2, <2>2, <2>7 DEF Filling
      <4> QED
        BY <4>1, <4>2 DEF Filling
    <3> QED
      BY <3>1, <3>2, <3>3, <3>4, <3>5
  <2>12. \A d \in Ids : hash.key[d] # NoKey => h.key[d] # NoKey
    BY <2>2, <2>7
  <2>13. HashInv(Watched(h))
    BY <2>7, <2>9, <2>10, <2>11, <2>12, WatchedKeeps
  <2> QED
    BY <2>8, <2>13
<1> QED
  BY <1>7, <1>8

LEMMA HashStarts == ASSUME HashInit PROVE HashInv(hash)
<1>1. hash = [state |-> [e \in Ids |-> UNUSED], stamp |-> [e \in Ids |-> e], clock |-> Elements,
              key |-> [e \in Ids |-> NoKey], value |-> [e \in Ids |-> 0],
              thread |-> [t \in HashThreads |-> Ready], sets |-> 0, gets |-> 0, stored |-> {},
              aborted |-> FALSE, stolen |-> FALSE]
  BY DEF HashInit
<1>2. /\ [e \in Ids |-> UNUSED] \in [Ids -> States] /\ [e \in Ids |-> e] \in [Ids -> Nat] /\ Elements \in Nat
      /\ [e \in Ids |-> NoKey] \in [Ids -> HashKeys \cup {NoKey}] /\ [e \in Ids |-> 0] \in [Ids -> Nat]
      /\ [t \in HashThreads |-> Ready] \in [HashThreads -> HashCall]
  BY HashAssumption, ReadyIs DEF Ids, States, UNUSED, RESERVED
<1>3. hash \in Hash
  BY <1>1, <1>2 DEF Hash
<1>4. Stamped(hash)
  BY <1>1, HashAssumption DEF Stamped, Ids
<1>5. Valued(hash) /\ InBuckets(hash)
  BY <1>1 DEF Valued, InBuckets
<1>6. ASSUME NEW t \in HashThreads PROVE Called(hash, hash.thread[t]) /\ Filling(hash, t) /\ Looking(hash, hash.thread[t])
  <2>1. hash.thread[t] = Ready
    BY <1>1
  <2> QED
    BY <2>1, ReadyIs DEF Called, Filling, Fills, Looking, Looks
<1> QED
  BY <1>3, <1>4, <1>5, <1>6 DEF HashInv

LEMMA HashStepsKeep == ASSUME HashInv(hash), [HashNext]_hash PROVE HashInv(hash')
<1>1. CASE UNCHANGED hash
  BY <1>1
<1>2. ASSUME NEW t \in HashThreads,
             \/ sxe_hash_take(t) \/ sxe_hash_set(t) \/ sxe_hash_add(t)
             \/ sxe_hash_get(t) \/ sxe_hash_look(t) \/ Compare(t) \/ Value(t)
             \/ sxe_hash_give(t) \/ Give(t) \/ Return(t)
      PROVE  HashInv(hash')
  BY <1>2, TakeKeeps, SetKeeps, AddKeeps, GetKeeps, LookKeeps, CompareKeeps, ValueKeeps, StateKeeps, GiveKeeps, ReturnKeeps
<1> QED
  BY <1>1, <1>2 DEF HashNext

LEMMA LooksAreRight == HashInv(hash) => LooksRight
<1> SUFFICES ASSUME HashInv(hash), ~hash.stolen, NEW t \in HashThreads, hash.thread[t].todo = "return"
             PROVE  LET th == hash.thread[t] IN
                    IF th.answer = NotFound THEN th.always => th.reentered
                    ELSE <<th.key, th.answer>> \in hash.stored \/ th.freed
  BY DEF LooksRight
<1>1. Looking(hash, hash.thread[t])
  BY DEF HashInv
<1> QED
  BY <1>1 DEF Looking, Looks, Answers

\* However many threads set, get and remove, a look returns nothing only if there was
\* a moment without its key, or its place was put at the end of the bucket; and what
\* a look returns was stored under its key, or is given meanwhile.
THEOREM LooksAlwaysRight == HashSpec => []LooksRight
<1> DEFINE Inv == HashInv(hash)
<1>1. HashInit => Inv
  BY HashStarts
<1>2. Inv /\ [HashNext]_hash => Inv'
  BY HashStepsKeep
<1>3. Inv => LooksRight
  BY LooksAreRight
<1> QED
  BY <1>1, <1>2, <1>3, PTL DEF HashSpec
=============================================================================
