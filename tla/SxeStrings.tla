----------------------------- MODULE SxeStrings -----------------------------
(***************************************************************************)
(* sxe-cstr.c and sxe-buffer.c: counted strings in a space of fixed size,  *)
(* which need not be terminated.  What does not fit is dropped, and the    *)
(* string flagged.  A buffer, unlike a cstr, is also consumed from the     *)
(* front.  at has the bytes of the space and the one byte after it, which  *)
(* belongs to someone else.                                                *)
(***************************************************************************)
EXTENDS Integers, Sequences, FiniteSets

CONSTANTS Sizes,      \* the sizes of the space
          Pieces,     \* the texts that are appended
          MaxWrites   \* bound: texts appended

\* sxe_buffer_clear and sxe_buffer_get_str write a byte, so that there is one.
ASSUME StringsAssumption == Sizes \in SUBSET (Nat \ {0}) /\ \A text \in Pieces : text \in Seq({text[i] : i \in 1 .. Len(text)})

NUL == "nul"
Stale == "stale"      \* a byte that was never written

VARIABLE str

\* wrote is the text held and what was last appended to it; lost, what was dropped for
\* want of room, some of a text or a time; misplaced, whether strncat found no NUL where
\* the string ends.
sxe_buffer_construct(kind, size, rest) ==
    [kind |-> kind, size |-> size, length |-> 0, consumed |-> 0, at |-> [i \in 0 .. size |-> IF i < size THEN rest ELSE Stale],
     overflow |-> FALSE, wrote |-> <<>>, lost |-> {}, misplaced |-> FALSE, spilled |-> FALSE, writes |-> 0]

StringsInit == \E kind \in {"cstr", "buffer"}, size \in Sizes, rest \in {NUL, Stale} :
                  str = sxe_buffer_construct(kind, size, rest)

Room(s) == s.size - s.length
Least(a, b) == IF a < b THEN a ELSE b

\* Puts the bytes from i on; a byte beyond the one after the space is left out.
PutBytes(s, i, bytes) == [s EXCEPT !.at = [j \in 0 .. s.size |-> IF j \in i .. (i + Len(bytes) - 1) THEN bytes[j - i + 1] ELSE @[j]],
                              !.spilled = @ \/ (bytes # <<>> /\ i + Len(bytes) > s.size)]

\* The text now held is the first length bytes of the text that should be.
Holding(s, text, length, overflows) ==
    LET whole == SubSeq(s.wrote, 1, s.length) \o text
    IN [s EXCEPT !.wrote = whole, !.length = length, !.lost = IF length < Len(whole) THEN @ \cup {"text"} ELSE @,
                 !.overflow = @ \/ overflows, !.writes = @ + 1]

-----------------------------------------------------------------------------
\* strncat appends at the first NUL, and a NUL after what it appends.
sxe_cstr_cat(s, text) ==
    LET n == Least(Len(text), Room(s))
        nuls == {i \in s.length .. s.size : s.at[i] = NUL}
        end == IF s.length \in nuls THEN s.length
               ELSE IF nuls = {} THEN s.size ELSE CHOOSE i \in nuls : \A j \in nuls : i <= j
        put == PutBytes(s, end, Append(SubSeq(text, 1, n), NUL))
    IN [Holding(put, text, Least(s.length + Len(text), s.size), s.length + Len(text) > s.size)
           EXCEPT !.misplaced = @ \/ end # s.length]

\* A mutant of sxe_buffer_memcpy that does not flag a text when there is no room at all.
MemcpyQuiet(s, text) ==
    LET n == Least(Len(text), Room(s))
    IN Holding(PutBytes(s, s.length, SubSeq(text, 1, n)), text, s.length + n, n < Len(text) /\ Room(s) > 0)

sxe_buffer_memcpy(s, text) ==
    LET n == Least(Len(text), Room(s))
    IN Holding(PutBytes(s, s.length, SubSeq(text, 1, n)), text, s.length + n, n < Len(text))

\* vsnprintf ends what it writes, if it has room, with a NUL.  When the text does not
\* fit the length becomes size - 1, also when it was size.
sxe_buffer_vprintf(s, text) ==
    LET n == Least(Len(text), Room(s) - 1)
        put == IF Room(s) = 0 THEN s ELSE PutBytes(s, s.length, Append(SubSeq(text, 1, n), NUL))
    IN IF Len(text) < Room(s) THEN Holding(put, text, s.length + Len(text), FALSE)
       ELSE Holding(put, text, s.size - 1, TRUE)

\* strftime gives nothing if the time does not fit, but may have written its first n
\* bytes; the string is not flagged.
sxe_buffer_ftime(s, text, n) ==
    IF Len(text) < Room(s)
    THEN Holding(PutBytes(s, s.length, Append(text, NUL)), text, s.length + Len(text), FALSE)
    ELSE [PutBytes(s, s.length, SubSeq(text, 1, n)) EXCEPT !.lost = @ \cup {"time"}]

MayBegin(s, text) == {n \in 0 .. Len(text) : n = 0 \/ n < Room(s)}

sxe_buffer_get_str(s) ==
    LET length == Least(s.length, s.size - 1)
    IN [PutBytes(s, length, <<NUL>>) EXCEPT !.length = length, !.overflow = @ \/ s.length >= s.size,
                                       !.lost = IF length < s.length THEN @ \cup {"text"} ELSE @]

\* What was consumed stays so.
sxe_buffer_clear(s) == [PutBytes(s, 0, <<NUL>>) EXCEPT !.length = 0, !.overflow = FALSE,
                                                  !.wrote = <<>>, !.lost = {}, !.misplaced = FALSE]

\* length - consumed is unsigned, so it is large when it should be negative.
sxe_buffer_consume(s, n) == [s EXCEPT !.consumed = @ + n]
MayConsume(s, n) == n <= s.length - s.consumed \/ s.length < s.consumed

-----------------------------------------------------------------------------
StringsNext ==
    \/ /\ str.writes < MaxWrites
       /\ \E text \in Pieces :
             \/ str' = IF str.kind = "cstr" THEN sxe_cstr_cat(str, text) ELSE sxe_buffer_memcpy(str, text)
             \/ str' = sxe_buffer_vprintf(str, text)
             \/ \E n \in MayBegin(str, text) : str' = sxe_buffer_ftime(str, text, n)
    \/ str' = sxe_buffer_get_str(str)
    \/ str' = sxe_buffer_clear(str)
    \/ /\ str.kind = "buffer" /\ str.consumed < str.size
       /\ MayConsume(str, 1)
       /\ str' = sxe_buffer_consume(str, 1)

StringsSpec == StringsInit /\ [][StringsNext]_str

-----------------------------------------------------------------------------
\* However texts are appended, consumed and cleared, the string holds in order the
\* bytes that fitted and nothing else; and it is flagged when, and only when, bytes of a
\* text that was copied or printed were dropped.  A time that does not fit is dropped
\* whole and is not flagged: the flag says nothing of it, only the result of 0.  All this
\* unless strncat met no NUL where a cstr ends.  Only a cstr ever writes after its space,
\* the NUL of strncat.
TextKept ==
    ~str.misplaced => /\ str.length <= str.size
                      /\ \A i \in 1 .. str.length : str.at[i - 1] = str.wrote[i]
                      /\ str.overflow <=> str.lost \ {"time"} # {}
                      /\ str.spilled => str.kind = "cstr"
=============================================================================
