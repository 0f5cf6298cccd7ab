------------------------------ MODULE SxeJitson -----------------------------
(***************************************************************************)
(* lib-sxe-jitson: JSON values in arrays of fixed size tokens, built on a  *)
(* stack, indexed just in time by whichever thread first looks inside      *)
(* them, cloned and freed.                                                 *)
(*                                                                         *)
(* A value is a sequence of tokens.  word is the token's union: the size   *)
(* of a collection or, once it is indexed, its index; the collection       *)
(* around one that is still open; the string that a token owns.  len is    *)
(* the length, or in the names of an indexed object the link to the next   *)
(* name in the bucket.  Memory outside of the tokens (owned strings and    *)
(* indices) is numbered by allocation; one allocation may be made to fail. *)
(* stale (history) marks names copied when their len was already a link.   *)
(***************************************************************************)
EXTENDS Integers, SequencesExt, FiniteSetsExt, TLC

CONSTANTS Names,           \* member names
          NameLen,         \* the length of each
          Hash,            \* sxe_hash_sum of each
          Keys, Strings,   \* bound: the names and strings added, copied or owned
          Threads,         \* threads that look inside a value
          InitSize,        \* jitson_stack_init_size
          MaxIncr,         \* JITSON_STACK_MAX_INCR
          MaxTokens,       \* bound: tokens of the first value
          MaxBefore,       \* bound: tokens before a collection inside another
          MaxParts,        \* bound: elements or members of a collection
          MaxAllocs,       \* bound: allocations before a call that allocates
          MaxReads         \* bound: lookups of each thread

ASSUME NamesAssumption == NameLen \in [Names -> Nat] /\ Hash \in [Names -> Nat]
ASSUME StackSizesAssumption == InitSize \in Nat \ {0} /\ MaxIncr \in Nat \ {0}

VARIABLES stack,     \* tokens, open, maximum, and (history) broken: a call failed half way
          values,    \* the values extracted from the stack, or made by sxe_jitson_dup
          memory,    \* live allocations, the contents of indices, and (history) what a failed
                     \* sxe_jitson_dup or a cleared stack forgot, and what was freed twice
          readers,   \* what each thread is doing inside the first value
          calm       \* a scenario: the threads only read, or one thread builds and copies

jitsonVars == <<stack, values, memory, readers, calm>>

TOKEN_SIZE == 16
STRING_SIZE == 8
Token(type) == [type |-> type, len |-> 0, name |-> "", ref |-> "copy", key |-> FALSE, indexed |-> FALSE,
                word |-> 0, no_value |-> FALSE, stale |-> FALSE]
Collections == {"array", "object"}

sxe_jitson_string_len(t) == IF t.key \/ t.ref # "copy" THEN NameLen[t.name] ELSE t.len

StringSize(n) == 1 + (n + TOKEN_SIZE - STRING_SIZE) \div TOKEN_SIZE

sxe_jitson_string_size(t) == IF t.ref # "copy" THEN 1 ELSE StringSize(sxe_jitson_string_len(t))

sxe_jitson_size_indexed(m, t) == IF t.indexed THEN Last(m.index[t.word]) ELSE t.word

sxe_jitson_size(m, v, k) == CASE v[k].type = "string" -> sxe_jitson_string_size(v[k])
                              [] v[k].type \in Collections -> sxe_jitson_size_indexed(m, v[k])
                              [] OTHER -> 1

\* The first n values from k on: arrays hold elements, objects names and values.
RECURSIVE Offsets(_, _, _, _)
Offsets(m, v, k, n) == IF n = 0 THEN <<>> ELSE <<k>> \o Offsets(m, v, k + sxe_jitson_size(m, v, k), n - 1)

Parts(m, v, k) == Offsets(m, v, k + 1, IF v[k].type = "object" THEN 2 * v[k].len ELSE v[k].len)
NamesAt(m, v, k) == LET p == Parts(m, v, k) IN [i \in 1 .. v[k].len |-> p[2 * i - 1]]

-----------------------------------------------------------------------------
(* Memory.                                                                 *)

\* left counts the allocations that succeed before one fails.
Allocate(m) == IF m.left = 0 THEN [m EXCEPT !.failed = TRUE]
               ELSE [m EXCEPT !.left = @ - 1, !.next = @ + 1, !.live = @ \cup {m.next}]
Settled(m) == [m EXCEPT !.left = 0, !.failed = FALSE]
Release(m, id) == IF id \in m.live THEN [m EXCEPT !.live = @ \ {id}] ELSE [m EXCEPT !.twice = @ \cup {id}]

\* sxe_jitson_free_base: an owned string or an index goes with its token.
sxe_jitson_free_base(m, t) ==
    IF t.ref = "own" \/ t.indexed THEN Release(m, t.word) ELSE m

\* The free functions of the types: parts first.  Nothing looks at the index.
RECURSIVE Free(_, _, _)
Free(m, v, k) ==
    IF v[k].type \notin Collections THEN sxe_jitson_free_base(m, v[k])
    ELSE sxe_jitson_free_base(FoldLeft(LAMBDA n, i : Free(n, v, i), m, Parts(m, v, k)), v[k])

-----------------------------------------------------------------------------
(* The index.                                                              *)

\* A hash of n bytes from a name's start: another number when n is not its length.
sxe_hash_sum(name, n) == Hash[name] + (n - NameLen[name])

\* One turn of the loop over an object's members: the name's len becomes its link.
Link(m, v, k, i) ==
    LET t == v[i]
        n == IF t.ref = "copy" THEN t.len ELSE NameLen[t.name]
        bucket == 1 + ((sxe_hash_sum(t.name, n) + 1000) % v[k].len) IN
    [memory |-> [m EXCEPT !.index[v[k].word][bucket] = i - k],
     value |-> [v EXCEPT ![i].len = m.index[v[k].word][bucket]]]

EmptyIndex(v, k) == [i \in 1 .. v[k].len + 1 |-> IF i = v[k].len + 1 THEN v[k].word ELSE 0]

\* The type flag is set first, then the index, then the index is filled.
Flagged(v, k) == [v EXCEPT ![k].indexed = TRUE]
Pointed(v, k, id) == [v EXCEPT ![k].word = id]
FillArray(m, v, k) ==
    LET p == Parts(m, v, k) IN [m EXCEPT !.index[v[k].word] = [i \in DOMAIN @ |-> IF i \in DOMAIN p THEN p[i] - k ELSE @[i]]]
FillObject(m, v, k) ==
    FoldLeft(LAMBDA c, i : Link(c.memory, c.value, k, i), [memory |-> m, value |-> v], NamesAt(m, v, k))

\* All of it, by a thread that is alone.
Index(m, v, k) ==
    LET a == Allocate(m)
        id == m.next
        b == [a EXCEPT !.index = @ @@ (id :> EmptyIndex(v, k))]
        w == Pointed(Flagged(v, k), k, id) IN
    IF v[k].indexed THEN [memory |-> m, value |-> v]
    ELSE IF a.failed THEN [memory |-> a, value |-> v]
    ELSE IF v[k].type = "array" THEN [memory |-> FillArray(b, w, k), value |-> w]
    ELSE FillObject(b, w, k)

\* The chain of a bucket: the offset of a value, or 0.
RECURSIVE Chain(_, _, _, _, _)
Chain(m, v, k, offset, name) ==
    IF offset = 0 THEN 0
    ELSE IF v[k + offset].name = name THEN k + offset + sxe_jitson_size(m, v, k + offset)
    ELSE Chain(m, v, k, v[k + offset].len, name)

Find(m, v, k, name) == Chain(m, v, k, m.index[v[k].word][1 + ((Hash[name] + 1000) % v[k].len)], name)

-----------------------------------------------------------------------------
(* The JSON of a value: c.out is the tokens in the order in which they are *)
(* written.  Every collection is indexed on the way; an index that cannot  *)
(* be allocated is used all the same.                                      *)

Indexed(c, k) == LET x == Index(c.memory, c.value, k) IN [c EXCEPT !.memory = x.memory, !.value = x.value, !.crashed = @ \/ x.memory.failed]
Written(c, k) == [c EXCEPT !.out = Append(@, k)]

RECURSIVE sxe_jitson_build_json(_, _)

sxe_jitson_array_build_json(c, k) ==
    FoldLeft(LAMBDA x, i : IF x.crashed THEN x ELSE sxe_jitson_build_json(x, k + x.memory.index[x.value[k].word][i]),
             Written(Indexed(c, k), k), [i \in 1 .. c.value[k].len |-> i])

\* A mutant of BuildBucket that forgets the links.
BuildBucketFirst(c, k, offset) ==
    LET name == sxe_jitson_build_json(c, k + offset) IN
    IF offset = 0 THEN c ELSE sxe_jitson_build_json(name, k + offset + sxe_jitson_size(c.memory, c.value, k + offset))

\* The members of one bucket: names and values.
RECURSIVE BuildBucket(_, _, _)
BuildBucket(c, k, offset) ==
    IF offset = 0 \/ c.crashed THEN c
    ELSE LET name == sxe_jitson_build_json(c, k + offset)
             value == sxe_jitson_build_json(name, k + offset + sxe_jitson_size(c.memory, c.value, k + offset)) IN
         BuildBucket(value, k, value.value[k + offset].len)

sxe_jitson_object_build_json(c, k) ==
    FoldLeft(LAMBDA x, i : IF x.crashed THEN x ELSE BuildBucket(x, k, x.memory.index[x.value[k].word][i]),
             Written(Indexed(c, k), k), [i \in 1 .. c.value[k].len |-> i])

sxe_jitson_build_json(c, k) ==
    CASE c.value[k].type = "object" /\ c.value[k].len # 0 -> sxe_jitson_object_build_json(c, k)
      [] c.value[k].type = "array" /\ c.value[k].len # 0 -> sxe_jitson_array_build_json(c, k)
      [] OTHER -> Written(c, k)

-----------------------------------------------------------------------------
(* Clones.  c holds the memory, the value, the copy that follows it at a   *)
(* distance d, and whether the clone has succeeded.  The frees on a        *)
(* failure do nothing, since no part of a copy has the ALLOCED flag.       *)

\* A mutant of CloneString that leaves the string shared.
CloneStringShared(c, k, d) == c

CloneString(c, k, d) ==
    LET a == Allocate(c.memory) IN
    IF c.src[k].ref # "own" THEN c
    ELSE IF a.failed THEN [c EXCEPT !.memory = a, !.ok = FALSE]
    ELSE [c EXCEPT !.memory = a, !.dst[k + d].word = c.memory.next]

CloneIndex(c, k, d) ==
    LET a == Allocate(c.memory) IN
    IF ~c.src[k].indexed THEN c
    ELSE IF a.failed THEN [c EXCEPT !.memory = a, !.ok = FALSE]
    ELSE [c EXCEPT !.memory = [a EXCEPT !.index = @ @@ (c.memory.next :> c.memory.index[c.src[k].word])],
                   !.dst[k + d].word = c.memory.next]

\* sxe_jitson_array_get_element of both: each is indexed by it.  The pointer is
\* used unchecked.
IndexBoth(c, k, d) ==
    LET s == Index(c.memory, c.src, k)
        t == Index(s.memory, c.dst, k + d) IN
    [c EXCEPT !.memory = t.memory, !.src = s.value, !.dst = t.value, !.ok = ~t.memory.failed, !.crashed = t.memory.failed]

RECURSIVE Clone(_, _, _)
CloneParts(c, k, d) ==
    LET e == FoldLeft(LAMBDA x, i : IF x.ok THEN Clone(x, i, d) ELSE x, c, Parts(c.memory, c.src, k)) IN
    IF e.ok \/ e.crashed \/ ~e.dst[k + d].indexed THEN e
    ELSE [e EXCEPT !.memory = Release(@, e.dst[k + d].word)]

Clone(c, k, d) ==
    LET i == CloneIndex(c, k, d)
        b == IndexBoth(i, k, d) IN
    CASE c.src[k].type = "string" -> CloneString(c, k, d)
      [] c.src[k].type = "object" /\ c.src[k].len # 0 -> IF i.ok THEN CloneParts(i, k, d) ELSE i
      [] c.src[k].type = "array" /\ c.src[k].len # 0 -> IF i.ok /\ b.ok THEN CloneParts(b, k, d) ELSE IF i.ok THEN b ELSE i
      [] OTHER -> c

StartClone(m, left, src, dst) == [memory |-> [m EXCEPT !.left = left, !.failed = FALSE], src |-> src, dst |-> dst, ok |-> TRUE, crashed |-> FALSE]

-----------------------------------------------------------------------------
(* The stack.                                                              *)

NewStack == [tokens |-> <<>>, open |-> 0, maximum |-> InitSize, allocated |-> TRUE, broken |-> FALSE]

\* sxe_jitson_stack_make, on the thread's first use of its stack.
JitsonInit ==
    /\ stack = NewStack
    /\ values = [i \in 1 .. 2 |-> <<>>]
    /\ memory = [next |-> 1, live |-> {}, index |-> <<>>, left |-> 0, failed |-> FALSE, twice |-> {}, lost |-> {}, cleared |-> {}, crashed |-> FALSE, freeing |-> FALSE, told |-> TRUE]
    /\ readers = [t \in Threads |-> [pc |-> "idle", name |-> "", saw |-> FALSE, id |-> 0, todo |-> <<>>, result |-> 0, raced |-> FALSE, left |-> MaxReads]]
    /\ calm \in BOOLEAN

Count(s) == Len(s.tokens)
NeedsMemory(s, more) == Count(s) + more > s.maximum \/ ~s.allocated

\* The next multiple of the maximum, or of the largest increment.
NewMaximum(s, expanded) == LET step == IF expanded < MaxIncr THEN s.maximum ELSE MaxIncr IN ((expanded - 1) \div step + 1) * step

\* The tokens are put in the space that has been made for them.
sxe_jitson_stack_expand(s, tokens) ==
    LET expanded == Count(s) + Len(tokens) IN
    [s EXCEPT !.tokens = @ \o tokens, !.allocated = TRUE,
              !.maximum = IF expanded > @ THEN NewMaximum(s, expanded) ELSE @]

Top(s) == s.tokens[s.open]
ValueWanted(s) == s.open # 0 /\ (Top(s).type = "array" \/ Top(s).no_value)

\* sxe_jitson_stack_add_value, and the tokens of the value.
AddValue(s, tokens) ==
    LET e == sxe_jitson_stack_expand(s, tokens) IN
    [e EXCEPT !.tokens[s.open] = [@ EXCEPT !.len = @ + 1, !.no_value = FALSE]]

Stringy(name, ref, key, word) ==
    [Token("string") EXCEPT !.name = name, !.ref = ref, !.key = key, !.word = word, !.len = IF ref = "copy" THEN NameLen[name] ELSE 0]

\* sxe_jitson_stack_push_string: the stacks that it may leave, with the result.
\* A failure half way leaves the tokens pushed so far.
PushString(s, t) ==
    LET all == <<t>> \o [i \in 1 .. sxe_jitson_string_size(t) - 1 |-> Token("rest")]
        Part(n) == IF n = 0 THEN s ELSE sxe_jitson_stack_expand(s, SubSeq(all, 1, n)) IN
    {[s |-> Part(Len(all)), ok |-> TRUE]} \cup
        {[s |-> [Part(n) EXCEPT !.broken = TRUE], ok |-> FALSE] : n \in {n \in 0 .. Len(all) - 1 : NeedsMemory(Part(n), 1)}}

-----------------------------------------------------------------------------
(* The calls of the thread that builds.                                    *)

\* In one scenario the first value is only read once it is made.  A caller that
\* was told of a failure clears the stack.
Building == ~stack.broken /\ ~memory.freeing /\ values[2] = <<>> /\ (calm => values[1] = <<>>) /\ UNCHANGED <<readers, calm>>
First == values[1] = <<>>          \* bound: a second value is a collection with one copy
Room(n) == Count(stack) + n <= MaxTokens /\ (stack.open # 0 => Top(stack).len < MaxParts)
Unfailing == UNCHANGED <<values, memory>>

\* A call that needs one more token, and may fail to get it.
Try(s, more) == (stack' = s \/ (NeedsMemory(stack, more) /\ stack' = stack)) /\ Unfailing

sxe_jitson_stack_open_collection(type) ==
    /\ Building /\ Room(1) /\ ((First /\ ~calm /\ ValueWanted(stack) /\ Count(stack) <= MaxBefore) \/ stack.tokens = <<>>)
    /\ LET t == [Token(type) EXCEPT !.word = stack.open]
           s == IF stack.open = 0 THEN sxe_jitson_stack_expand(stack, <<t>>) ELSE AddValue(stack, <<t>>) IN
       Try([s EXCEPT !.open = Count(s)], 1)

\* A name is asked for a value, whether it could be pushed or not.
sxe_jitson_stack_add_member_name(name, ref) ==
    /\ Building /\ Room(2) /\ stack.open # 0
    /\ Top(stack).type = "object" /\ ~Top(stack).no_value
    /\ ref = "own" => memory.next <= MaxAllocs
    /\ \E x \in PushString([stack EXCEPT !.tokens[stack.open].no_value = TRUE], Stringy(name, ref, TRUE, memory.next)) :
          /\ stack' = x.s
          /\ memory' = IF ref = "own" /\ x.ok THEN Settled(Allocate([memory EXCEPT !.left = 1])) ELSE memory
    /\ UNCHANGED values

sxe_jitson_stack_add_string(name, ref) ==
    /\ Building /\ First /\ ~calm /\ Room(2) /\ ValueWanted(stack)
    /\ ref = "own" => memory.next <= MaxAllocs
    /\ \E x \in PushString([stack EXCEPT !.tokens[stack.open].no_value = FALSE], Stringy(name, ref, FALSE, memory.next)) :
          /\ stack' = IF x.ok THEN [x.s EXCEPT !.tokens[stack.open].len = @ + 1] ELSE x.s
          /\ memory' = IF ref = "own" /\ x.ok THEN Settled(Allocate([memory EXCEPT !.left = 1])) ELSE memory
    /\ UNCHANGED values

\* null, bool, number and uint differ only in what the token holds.
AddScalar == Building /\ First /\ Room(1) /\ ValueWanted(stack) /\ Try(AddValue(stack, <<Token("scalar")>>), 1)

sxe_jitson_stack_add_reference(i) ==
    /\ Building /\ ValueWanted(stack) /\ Top(stack).len = 0 /\ values[i] # <<>>
    /\ Try(AddValue(stack, <<[Token("reference") EXCEPT !.word = i]>>), 1)

\* The tokens with memory of their own, and that memory.
Holders(v) == {k \in DOMAIN v : v[k].ref = "own" \/ v[k].indexed}
Ids(v) == {v[k].word : k \in Holders(v)}

\* Bound: after a copy that failed, values are only freed.
Copied(c) == [Settled(c.memory) EXCEPT !.crashed = c.crashed, !.freeing = ~c.ok]

\* The copy stays on the stack when it could not be cloned.
sxe_jitson_stack_add_dup(i) ==
    /\ Building /\ ValueWanted(stack) /\ values[i] # <<>> /\ Top(stack).len = 0 /\ memory.next <= MaxAllocs
    /\ \E left \in 0 .. 3 :
          LET s == AddValue(stack, values[i])
              c == Clone(StartClone(memory, left, values[i], s.tokens), 1, Count(stack)) IN
          /\ stack' = [s EXCEPT !.tokens = c.dst, !.broken = @ \/ ~c.ok]
          /\ memory' = Copied(c)
          /\ values' = [values EXCEPT ![i] = c.src]

sxe_jitson_stack_add_dup_members(i) ==
    /\ Building /\ stack.open # 0 /\ Top(stack).type = "object" /\ ~Top(stack).no_value
    /\ values[i] # <<>> /\ values[i][1].type = "object" /\ values[i][1].len # 0
    /\ Top(stack).len = 0 /\ memory.next <= MaxAllocs
    /\ \E left \in 0 .. 3 :
          LET linked == values[i][1].indexed
              s == sxe_jitson_stack_expand(stack, [k \in 1 .. Len(values[i]) - 1 |-> [values[i][k + 1] EXCEPT !.stale = @ \/ (linked /\ values[i][k + 1].key)]])
              c == FoldLeft(LAMBDA x, k : IF x.ok THEN Clone(x, k, Count(stack) - 1) ELSE x,
                            StartClone(memory, left, values[i], s.tokens), Parts(memory, values[i], 1)) IN
          /\ stack' = [s EXCEPT !.tokens = IF c.ok THEN [c.dst EXCEPT ![stack.open].len = @ + values[i][1].len] ELSE c.dst,
                                !.broken = @ \/ ~c.ok]
          /\ memory' = Copied(c)
          /\ values' = [values EXCEPT ![i] = c.src]

Size(s) == Count(s) - (s.open - 1)

sxe_jitson_stack_close_collection ==
    /\ Building /\ stack.open # 0 /\ ~Top(stack).no_value
    /\ stack' = [stack EXCEPT !.open = Top(stack).word, !.tokens[stack.open].word = Size(stack)]
    /\ Unfailing

sxe_jitson_stack_get_jitson ==
    /\ Building /\ stack.tokens # <<>> /\ stack.open = 0 /\ ~stack.broken
    /\ \E i \in 1 .. 2 : /\ values[i] = <<>> /\ (i = 1 \/ values[1] # <<>>)
                         /\ values' = [values EXCEPT ![i] = stack.tokens]
    /\ stack' = [stack EXCEPT !.tokens = <<>>, !.allocated = FALSE]
    /\ UNCHANGED memory

\* What was on the stack is forgotten, not freed: cleared has what no value holds.
sxe_jitson_stack_clear ==
    /\ stack.broken /\ UNCHANGED <<readers, calm>>
    /\ stack' = [stack EXCEPT !.tokens = <<>>, !.open = 0, !.broken = FALSE]
    /\ memory' = [memory EXCEPT !.cleared = @ \cup (Ids(stack.tokens) \ UNION {Ids(values[i]) : i \in 1 .. 2})]
    /\ UNCHANGED values

\* On a failure the copy's tokens are freed, and with them the only pointers to what was
\* allocated for the copy: lost has that.

sxe_jitson_dup ==
    /\ Building /\ ~calm /\ values[1] # <<>> /\ values[2] = <<>> /\ memory.next <= MaxAllocs
    /\ \E left \in 0 .. 3 :
          LET c == Clone(StartClone(memory, left, values[1], values[1]), 1, 0) IN
          /\ memory' = [Copied(c) EXCEPT !.lost = IF c.ok THEN @ ELSE @ \cup (Ids(c.dst) \ Ids(c.src))]
          /\ values' = [values EXCEPT ![1] = c.src, ![2] = IF c.ok THEN c.dst ELSE <<>>]
    /\ UNCHANGED stack

\* No reference to the value may be left.  Bound: then values are only freed.
sxe_jitson_free(i) ==
    /\ ~stack.broken /\ ~calm /\ values[i] # <<>> /\ UNCHANGED <<readers, calm>>
    /\ \A v \in {stack.tokens, values[1], values[2]} : \A k \in DOMAIN v : v[k].type = "reference" => v[k].word # i
    /\ memory' = [Free(memory, values[i], 1) EXCEPT !.freeing = TRUE]
    /\ values' = [values EXCEPT ![i] = <<>>]
    /\ UNCHANGED stack

\* sxe_jitson_make_null and the others.
Made(type, ref) == IF type = "string" THEN Stringy("a", ref, FALSE, memory.next) ELSE Token(type)

\* The other way to make a value: a single token, allocated for it, that may own a
\* copy of a string.
sxe_jitson_create(type, ref) ==
    /\ Building /\ ~calm /\ values[1] = <<>> /\ stack.tokens = <<>>
    /\ values' = [values EXCEPT ![1] = <<Made(type, ref)>>]
    /\ memory' = IF ref = "own" THEN Settled(Allocate([memory EXCEPT !.left = 1])) ELSE memory
    /\ UNCHANGED stack

WrittenRight(v, out) ==
    /\ ToSet(out) = {k \in DOMAIN v : v[k].type # "rest"} /\ Len(out) = Cardinality(ToSet(out))
    /\ \A j \in DOMAIN out : v[out[j]].key => j < Len(out) /\ out[j + 1] = out[j] + sxe_jitson_size(memory, v, out[j])

\* told (history): the JSON had every name and value once, each value after its name.
sxe_jitson_to_json(i) ==
    /\ ~stack.broken /\ ~memory.freeing /\ ~calm /\ values[i] # <<>> /\ memory.next <= MaxAllocs
    /\ UNCHANGED <<stack, readers, calm>>
    /\ \A k \in DOMAIN values[i] : ~values[i][k].stale
    /\ \E left \in {0, 3} :
          LET c == sxe_jitson_build_json([memory |-> [memory EXCEPT !.left = left, !.failed = FALSE], value |-> values[i], out |-> <<>>, crashed |-> FALSE], 1) IN
          /\ memory' = [Settled(c.memory) EXCEPT !.crashed = c.crashed, !.told = c.crashed \/ WrittenRight(values[i], c.out)]
          /\ values' = [values EXCEPT ![i] = c.value]

\* A lookup by a thread that is alone.
LookAlone(i) ==
    /\ ~stack.broken /\ ~memory.freeing /\ ~calm /\ values[i] # <<>> /\ memory.next <= MaxAllocs
    /\ values[i][1].type \in Collections /\ values[i][1].len # 0
    /\ UNCHANGED <<readers, calm>>
    /\ \E left \in 0 .. 1 :
          LET x == Index([memory EXCEPT !.left = left, !.failed = FALSE], values[i], 1) IN
          /\ memory' = Settled(x.memory)
          /\ values' = [values EXCEPT ![i] = x.value]
    /\ UNCHANGED stack

-----------------------------------------------------------------------------
(* sxe_jitson_object_get_member and sxe_jitson_size by threads that share  *)
(* the first value, one store or load at a time.                           *)

Shared == values[1]
Reading(t, pc) == calm /\ Shared # <<>> /\ readers[t].pc = pc /\ UNCHANGED <<stack, calm>>
Indexing == {t \in Threads : readers[t].pc \in {"flag", "point", "link", "unlock"}}
Pointless == \E t \in Threads : readers[t].pc = "point"
Goes(t, pc) == readers' = [readers EXCEPT ![t].pc = pc]
Unread == UNCHANGED <<values, memory>>

\* The flag is read without the lock.
ReadFlag(t) ==
    /\ Reading(t, "idle") /\ readers[t].left > 0 /\ Shared[1].type = "object" /\ Shared[1].len # 0
    /\ \E name \in Names, size \in BOOLEAN :
          readers' = [readers EXCEPT ![t] = [@ EXCEPT !.name = name, !.saw = Shared[1].indexed, !.left = @ - 1, !.raced = Shared[1].indexed /\ Indexing # {},
                                                     !.pc = IF size THEN "size" ELSE IF Shared[1].indexed THEN "walk" ELSE "lock"]]
    /\ Unread

\* A mutant of TakeLock that does not look at the flag again.
TakeLockUnchecked(t) ==
    /\ Reading(t, "lock") /\ Indexing = {}
    /\ readers' = [readers EXCEPT ![t].pc = "flag", ![t].id = memory.next]
    /\ memory' = [Settled(Allocate([memory EXCEPT !.left = 1])) EXCEPT !.index = @ @@ (memory.next :> EmptyIndex(Shared, 1))]
    /\ UNCHANGED values

\* The lock is taken, the flag read again, and the index allocated.
TakeLock(t) ==
    /\ Reading(t, "lock") /\ Indexing = {}
    /\ \/ Shared[1].indexed /\ Goes(t, "walk") /\ Unread
       \/ ~Shared[1].indexed /\ Goes(t, "idle") /\ Unread
       \/ /\ ~Shared[1].indexed
          /\ readers' = [readers EXCEPT ![t].pc = "flag", ![t].id = memory.next]
          /\ memory' = [Settled(Allocate([memory EXCEPT !.left = 1])) EXCEPT !.index = @ @@ (memory.next :> EmptyIndex(Shared, 1))]
          /\ UNCHANGED values

SetFlag(t) == Reading(t, "flag") /\ Goes(t, "point") /\ values' = [values EXCEPT ![1] = Flagged(@, 1)] /\ UNCHANGED memory

SetIndex(t) ==
    /\ Reading(t, "point")
    /\ values' = [values EXCEPT ![1] = Pointed(@, 1, readers[t].id)]
    /\ readers' = [readers EXCEPT ![t].pc = "link", ![t].todo = NamesAt(memory, Shared, 1)]
    /\ UNCHANGED memory

LinkNext(t) ==
    /\ Reading(t, "link")
    /\ IF readers[t].todo = <<>> THEN Goes(t, "unlock") /\ Unread
       ELSE LET x == Link(memory, Shared, 1, Head(readers[t].todo)) IN
            /\ memory' = x.memory /\ values' = [values EXCEPT ![1] = x.value]
            /\ readers' = [readers EXCEPT ![t].todo = Tail(@)]

Unlock(t) == Reading(t, "unlock") /\ Goes(t, "walk") /\ Unread

Crash == -1

\* The index is read and the bucket's chain walked.
Walk(t) ==
    /\ Reading(t, "walk")
    /\ readers' = [readers EXCEPT ![t].pc = "found",
                      ![t].result = IF Pointless THEN Crash ELSE Find(memory, Shared, 1, readers[t].name)]
    /\ Unread

\* The size is read as the flag that was read before says.
ReadSize(t) ==
    /\ Reading(t, "size")
    /\ readers' = [readers EXCEPT ![t].pc = "sized", ![t].raced = @ \/ (~readers[t].saw /\ Shared[1].indexed /\ ~Pointless),
                      ![t].result = IF ~readers[t].saw THEN Shared[1].word
                                    ELSE IF Pointless THEN Crash ELSE Last(memory.index[Shared[1].word])]
    /\ Unread

Return(t) ==
    /\ calm /\ readers[t].pc \in {"found", "sized"} /\ UNCHANGED <<stack, calm>>
    /\ Goes(t, "idle") /\ Unread

Reads(t) == \/ ReadFlag(t) \/ TakeLock(t) \/ SetFlag(t) \/ SetIndex(t) \/ LinkNext(t)
            \/ Unlock(t) \/ Walk(t) \/ ReadSize(t) \/ Return(t)

Builds == \/ \E type \in Collections : sxe_jitson_stack_open_collection(type)
          \/ \E x \in Keys : sxe_jitson_stack_add_member_name(x[1], x[2])
          \/ \E x \in Strings : sxe_jitson_stack_add_string(x[1], x[2])
          \/ AddScalar
          \/ sxe_jitson_stack_close_collection \/ sxe_jitson_stack_get_jitson \/ sxe_jitson_stack_clear
          \/ sxe_jitson_dup
          \/ sxe_jitson_stack_add_reference(1) \/ sxe_jitson_stack_add_dup(1) \/ sxe_jitson_stack_add_dup_members(1)
          \/ \E i \in 1 .. 2 : sxe_jitson_free(i) \/ LookAlone(i) \/ sxe_jitson_to_json(i)
          \/ \E x \in {<<"scalar", "copy">>, <<"string", "ref">>, <<"string", "own">>} : sxe_jitson_create(x[1], x[2])

JitsonNext == ~memory.crashed /\ (Builds \/ \E t \in Threads : Reads(t))

JitsonSpec == JitsonInit /\ [][JitsonNext]_jitsonVars

-----------------------------------------------------------------------------
\* Where the value at k ends, read from its structure alone, or 0.
RECURSIVE ValueEnd(_, _), EndOfParts(_, _, _)
EndOfParts(v, k, n) == IF n = 0 \/ k = 0 THEN k ELSE EndOfParts(v, ValueEnd(v, k), n - 1)
ValueEnd(v, k) ==
    IF k \notin DOMAIN v THEN 0
    ELSE CASE v[k].type \in Collections -> EndOfParts(v, k + 1, IF v[k].type = "object" THEN 2 * v[k].len ELSE v[k].len)
           [] v[k].type = "string" -> k + Cardinality({i \in DOMAIN v : i >= k /\ \A j \in k + 1 .. i : v[j].type = "rest"})
           [] OTHER -> k + 1

Sized(v, open) == \A k \in DOMAIN v \ open : v[k].type \in Collections \cup {"string"} =>
                     ValueEnd(v, k) = k + sxe_jitson_size(memory, v, k)
Halfway(i) == i = 1 /\ Pointless

\* Every value on the stack or extracted from it can be walked: the size that a
\* token gives is where the value's parts end, however it was built, copied and
\* indexed, and the tokens fit in the space of the stack, as long as no call
\* failed half way.
ValuesWalk ==
    ~stack.broken =>
        /\ Count(stack) <= stack.maximum
        /\ stack.open = 0 => Sized(stack.tokens, {})
        /\ \A i \in 1 .. 2 : (values[i] # <<>> /\ ~Halfway(i)) => ValueEnd(values[i], 1) = Len(values[i]) + 1 /\ Sized(values[i], {})

Expected(v, name) ==
    LET at == {k \in ToSet(NamesAt(memory, v, 1)) : v[k].name = name} IN
    IF at = {} THEN 0 ELSE Max(at) + sxe_jitson_size(memory, v, Max(at))

\* A lookup finds the last member of that name, and a thread that asks for a size
\* gets it, unless the flag or the index was read while another thread was
\* indexing, or the names were copied from an object already indexed.
LookupsRight ==
    /\ \A i \in 1 .. 2 :
          (~calm /\ values[i] # <<>> /\ values[i][1].type = "object" /\ values[i][1].indexed /\ \A k \in DOMAIN values[i] : ~values[i][k].stale) =>
              \A name \in Names : Find(memory, values[i], 1, name) = Expected(values[i], name)
    /\ \A t \in Threads :
          /\ (readers[t].pc = "found" /\ ~readers[t].raced) => readers[t].result = Expected(Shared, readers[t].name)
          /\ (readers[t].pc = "sized" /\ ~readers[t].raced) => readers[t].result = Len(Shared)

\* The JSON of a value has every one of its names and values once, and each value
\* after its name, whatever was indexed before; and every value can be walked.
JsonWhole == memory.told /\ ValuesWalk

\* No owned string or index is freed twice, is held once it was freed or belongs to two
\* values, and every one can still be reached: from a value, from the stack, also when a
\* call failed half way, or from the thread that has allocated an index and not yet put
\* it in place.  Two things are forgotten: what a failed sxe_jitson_dup had allocated for
\* its copy, and what was on a stack that is cleared, after any call that failed.
MemoryAccounted ==
    /\ memory.twice = {}
    /\ ~Pointless =>
          LET Tokens(v) == IF v = 0 THEN stack.tokens ELSE values[v]
              held == UNION {{v} \X Holders(Tokens(v)) : v \in 0 .. 2}
              Id(h) == Tokens(h[1])[h[2]].word
              placing == {readers[t].id : t \in {t \in Threads : readers[t].pc = "flag"}} IN
          /\ ~stack.broken => /\ \A h \in held : Id(h) \in memory.live
                              /\ \A h, g \in held : Id(h) = Id(g) => h = g
          /\ memory.live \subseteq memory.lost \cup memory.cleared \cup {Id(h) : h \in held} \cup placing
=============================================================================
