--------------------------- MODULE SxeRingBuffer ----------------------------
(***************************************************************************)
(* lib-sxe-ring-buffer: one writer and readers that never stop it.  A      *)
(* reader keeps a place in the ring and the iteration it is in, and learns *)
(* from them whether the writer has lapped it.  Pointers are offsets from  *)
(* the array's base; the bytes of the stream are numbered from 1 and a     *)
(* cell holds the number of the byte written to it.  Readers do not meet,  *)
(* so one of them is modelled.                                             *)
(***************************************************************************)
EXTENDS Integers

CONSTANTS Size,        \* SXE_RING_BUFFER_SIZE
          UInt,        \* one more than the largest unsigned
          MaxWritten,  \* bound: bytes written
          MaxIteration \* bound: no wrap is forced beyond this iteration

ASSUME SizeAssumption == Size \in Nat \ {0}
ASSUME UIntAssumption == UInt \in Nat /\ UInt > 2 * Size
ASSUME BoundsAssumption == MaxWritten \in Nat /\ MaxIteration \in Nat

VARIABLES current, writen_end, iteration,        \* the ring's internals
          cells, written,                        \* the array, and how many bytes were written
          writable,                              \* the writer's writable_block, or -1
          itteration, data_block, data_block_len, \* the reader's context
          pos,                                   \* the number of the next byte the reader is to get
          state,                                 \* the reader: "out", "joined", "block" or "empty"
          astray,                                \* whether its replay was to begin beyond what was written
          aborted                                \* whether an assertion has failed

ring == <<current, writen_end, iteration, cells, written>>
context == <<itteration, data_block, data_block_len, pos, state, astray>>
ringvars == <<ring, writable, context, aborted>>

END == Size - 1

\* sxe_ring_buffer_new.
RingInit == /\ current = 0 /\ writen_end = 0 /\ iteration = 0
            /\ cells = [c \in 0 .. END |-> 0] /\ written = 0
            /\ writable = -1
            /\ itteration = 0 /\ data_block = 0 /\ data_block_len = 0 /\ pos = 1
            /\ state = "out" /\ astray = FALSE
            /\ aborted = FALSE

-----------------------------------------------------------------------------
(* The writer.                                                             *)

\* The next len bytes of the stream go to the cells from current on, which wrap.
Store(len) == /\ cells' = [c \in 0 .. END |-> LET k == (c - current + Size) % Size IN
                              IF k < len THEN written + 1 + k ELSE cells[c]]
              /\ written' = written + len

\* The head moves on, inside the array.
Advance(len) ==
    IF current + len = Size
    THEN current' = 0 /\ writen_end' = END /\ iteration' = iteration + 1
    ELSE /\ current' = current + len
         /\ writen_end' = IF writen_end < current' THEN current' - 1 ELSE writen_end
         /\ UNCHANGED iteration

sxe_ring_buffer_add(len) ==
    /\ ~aborted /\ written + len <= MaxWritten
    /\ Store(len)
    /\ IF Size - current >= len
       THEN Advance(len)
       ELSE /\ writen_end' = END
            /\ iteration' = iteration + 1
            /\ current' = len - (Size - current)
    /\ UNCHANGED <<writable, context, aborted>>

sxe_ring_buffer_next_writable_block ==
    /\ ~aborted
    /\ writable' = current
    /\ UNCHANGED <<ring, context, aborted>>

\* The caller filled the block that it was given, and nobody else wrote.
sxe_ring_buffer_wrote_block(len) ==
    /\ ~aborted /\ written + len <= MaxWritten
    /\ writable = current /\ len <= Size - current
    /\ Store(len)
    /\ Advance(len)
    /\ UNCHANGED <<writable, context, aborted>>

ForceWrap == /\ iteration < MaxIteration
             /\ writen_end' = current - 1
             /\ current' = 0
             /\ iteration' = iteration + 1

sxe_ring_buffer_force_ring_wrap ==
    /\ ~aborted
    /\ ForceWrap
    /\ UNCHANGED <<cells, written, writable, context, aborted>>

sxe_ring_buffer_next_writable_block_size(size) ==
    /\ ~aborted
    /\ IF Size - current < size THEN ForceWrap ELSE UNCHANGED <<current, writen_end, iteration>>
    /\ writable' = current'
    /\ UNCHANGED <<cells, written, context, aborted>>

-----------------------------------------------------------------------------
(* A reader.                                                               *)

\* A reader that replays starts half a ring back, or at the first byte.
sxe_ring_buffer_join(replay_half) ==
    LET half == Size \div 2
        back == replay_half /\ current < half /\ iteration # 0 IN
    /\ ~aborted
    /\ itteration' = IF back THEN iteration - 1 ELSE iteration
    /\ data_block' = IF ~replay_half THEN current
                     ELSE IF current >= half THEN current - half
                     ELSE IF iteration = 0 THEN 0
                     ELSE current + (writen_end + 1) \div 2
    /\ data_block_len' = 0
    /\ pos' = IF ~back THEN written + 1 - (current - data_block')
              ELSE IF data_block' <= writen_end THEN cells[data_block'] ELSE written + 1 - current
    /\ state' = "joined"
    /\ astray' = (back /\ data_block' > writen_end + 1)
    /\ UNCHANGED <<ring, writable, aborted>>

\* A mutant of Behind that lets the writer pass in the next iteration.
BehindOneLap == iteration > itteration + 1

\* The test of sxe_ring_buffer_check_over_run.
Behind == iteration > itteration + 1 \/ (iteration > itteration /\ current > data_block)

\* The reader is moved to the head, and told.
Overrun == /\ itteration' = iteration /\ data_block' = current /\ data_block_len' = 0
           /\ pos' = written + 1
           /\ state' = "joined"
           /\ astray' = FALSE
           /\ UNCHANGED <<ring, writable, aborted>>

Block(len) == /\ data_block_len' = len % UInt
              /\ state' = IF len = 0 THEN "empty" ELSE "block"

\* Up to the head; over a forced wrap at which the reader had read all; to the
\* end of the iteration; or nothing.
NextBlock ==
    /\ IF current > data_block THEN Block(current - data_block) /\ UNCHANGED <<data_block, itteration>>
       ELSE IF iteration = itteration + 1 /\ writen_end = data_block - 1
       THEN data_block' = 0 /\ itteration' = itteration + 1 /\ Block(current)
       ELSE IF iteration > itteration
       THEN Block(writen_end - data_block + 1) /\ UNCHANGED <<data_block, itteration>>
       ELSE Block(data_block_len) /\ UNCHANGED <<data_block, itteration>>
    /\ UNCHANGED <<ring, writable, pos, astray, aborted>>

sxe_ring_buffer_next_block ==
    /\ state # "out" /\ ~aborted
    /\ IF Behind THEN Overrun ELSE NextBlock

\* At the end of what was written in its iteration, the reader goes on at the
\* start of the array, unless that is where the writer is.
Consume(len) ==
    LET to == data_block + len
        wraps == to = writen_end + 1 /\ to # current IN
    /\ aborted' = (to > writen_end + 1 \/ (wraps /\ data_block_len # len))
    /\ data_block' = IF wraps THEN 0 ELSE to
    /\ itteration' = IF wraps THEN itteration + 1 ELSE itteration
    /\ data_block_len' = data_block_len - len
    /\ pos' = pos + len
    /\ state' = "joined"
    /\ UNCHANGED <<ring, writable, astray>>

sxe_ring_buffer_consumed(len) ==
    /\ state = "block" /\ ~aborted
    /\ len <= data_block_len
    /\ IF Behind THEN Overrun ELSE Consume(len)

RingNext == \/ \E len \in 0 .. Size : sxe_ring_buffer_add(len) \/ sxe_ring_buffer_wrote_block(len) \/ sxe_ring_buffer_consumed(len)
            \/ sxe_ring_buffer_next_writable_block
            \/ \E size \in 0 .. Size : sxe_ring_buffer_next_writable_block_size(size)
            \/ sxe_ring_buffer_force_ring_wrap
            \/ \E replay_half \in BOOLEAN : sxe_ring_buffer_join(replay_half)
            \/ sxe_ring_buffer_next_block

RingSpec == RingInit /\ [][RingNext]_ringvars

-----------------------------------------------------------------------------
\* As long as the overrun test does not object, the block that the reader was
\* given is what it is to read next: in order, complete, not overwritten.  A
\* replay that was to begin beyond what was written is excepted.
BlockIsStream == state = "block" /\ ~Behind /\ ~astray =>
                     /\ data_block + data_block_len <= Size
                     /\ \A k \in 0 .. data_block_len - 1 : cells[data_block + k] = pos + k

\* The assertions of sxe_ring_buffer_consumed hold for a reader that was given
\* a place in the ring.
RingAssertionsHold == aborted => astray

\* However the writer wraps, laps and forces the ring, a reader that is not told of
\* an overrun reads the stream, and no assertion fails.
RingSound == BlockIsStream /\ RingAssertionsHold
=============================================================================
