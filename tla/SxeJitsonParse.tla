--------------------------- MODULE SxeJitsonParse ---------------------------
(***************************************************************************)
(* lib-sxe-jitson: sxe_jitson_stack_load_json, the recursive parser that   *)
(* turns a source of characters into tokens on a stack.                    *)
(*                                                                         *)
(* The source is read a unit at a time: a punctuation character, a quote,  *)
(* a number, an identifier, or within a string a character or an escape;   *)
(* white space between units is skipped as it is read.  Which unit comes   *)
(* next is chosen as it is read, so that every input is explored, and      *)
(* units (history) holds what was read, a string as one unit.  frames are  *)
(* the calls of load_json that have not returned: the token of each        *)
(* collection; at is what the innermost expects.                           *)
(***************************************************************************)
EXTENDS Integers, SequencesExt, FiniteSetsExt

CONSTANTS MaxUnits,        \* bound: units read
          MaxText,         \* bound: bytes of a string that is the whole value
          ConstantSize,    \* tokens of the value of a registered constant
          IdentLength      \* the length of an identifier

ASSUME ConstantSizeAssumption == ConstantSize \in Nat \ {0} /\ IdentLength \in Nat

VARIABLE parser

WordSize == 16             \* SXE_JITSON_TOKEN_SIZE
TextSize == 8              \* SXE_JITSON_STRING_SIZE
TextTokens(n) == 1 + (n + WordSize - TextSize) \div WordSize

End == "end"
Symbols == {"{", "}", "[", "]", ":", ",", "quote", "number", "badnumber", "keyword", "constant", "identifier", "symbol", End}
TextUnits == {"char", "escape", "badescape", "utf1", "utf2", "utf3", "quote", End}

Cell(type) == [type |-> type, len |-> 0, size |-> 1]
Text0 == [len |-> 0, cells |-> 0, key |-> FALSE, odd |-> FALSE, spilt |-> FALSE]

\* sxe_jitson_source_from_string and _from_buffer, with and without each of the
\* extensions.
ParseInit == parser \in [source : {"string", "buffer"}, flags : SUBSET {"constants", "identifiers"},
                         cells : {<<>>}, frames : {<<>>}, at : {"value"}, pushed : {""}, text : {Text0},
                         units : {<<>>}, result : {"parsing"}]

\* sxe_jitson_source_get_nonspace: what was pushed back, or the next unit.
GetNonspace(p, u) == IF p.pushed # "" THEN [p EXCEPT !.pushed = ""] ELSE [p EXCEPT !.units = Append(@, u)]

\* sxe_jitson_source_push_char checks that it is the character before next: at the
\* end of a buffer, unlike a string, no character was consumed.
PushChar(p, u) == IF u = End /\ p.source = "buffer" THEN [p EXCEPT !.result = "aborted"] ELSE [p EXCEPT !.pushed = u, !.at = "value"]

-----------------------------------------------------------------------------
\* Each call gives its token back: nothing that was added is left.
Fail(p, why) == [p EXCEPT !.result = why, !.cells = <<>>, !.frames = <<>>]
Grow(p, cells) == [p EXCEPT !.cells = @ \o cells]
Rest(n) == [i \in 1 .. n |-> Cell("rest")]

\* A value is complete: the call that wanted it goes on.
Complete(p) ==
    IF p.frames = <<>> THEN [p EXCEPT !.result = "parsed"]
    ELSE [p EXCEPT !.cells[Head(p.frames)].len = @ + 1, !.at = "after"]

\* A mutant of Close that forgets the collection's own token.
CloseShort(p) ==
    Complete([p EXCEPT !.frames = Tail(@), !.cells[Head(p.frames)].size = Len(p.cells) - Head(p.frames)])

\* The size of the collection is known.
Close(p) ==
    Complete([p EXCEPT !.frames = Tail(@), !.cells[Head(p.frames)].size = Len(p.cells) - (Head(p.frames) - 1)])

Enter(p, type, at) == [Grow(p, <<Cell(type)>>) EXCEPT !.frames = <<Len(p.cells) + 1>> \o @, !.at = at]

StartText(p, key) == [Grow(p, <<Cell("string")>>) EXCEPT !.at = "text", !.text = [Text0 EXCEPT !.key = key, !.cells = 1]]

\* sxe_jitson_stack_push_ident_at_index.
IdentCells == IF IdentLength >= TextSize THEN (IdentLength + TextSize) \div WordSize ELSE 0

\* sxe_jitson_stack_dup_at_index of the constant, an identifier, or a failure.
Identifier(p, u) ==
    IF u = "constant" /\ "constants" \in p.flags THEN Complete(Grow(p, <<[Cell("constant") EXCEPT !.size = ConstantSize]>> \o Rest(ConstantSize - 1)))
    ELSE IF "identifiers" \in p.flags
    THEN Complete(Grow(p, <<[Cell("identifier") EXCEPT !.size = 1 + (IdentLength + TextSize) \div WordSize]>> \o Rest(IdentCells)))
    ELSE Fail(p, "EINVAL")

\* sxe_jitson_stack_load_json, up to the next unit that it needs.
LoadJson(p, u) ==
    CASE u = End -> Fail(p, "ENODATA")
      [] u = "quote" -> StartText(p, FALSE)
      [] u = "{" -> Enter(p, "object", "first")
      [] u = "[" -> Enter(p, "array", "element")
      [] u = "number" -> Complete(Grow(p, <<Cell("number")>>))
      [] u = "keyword" -> Complete(Grow(p, <<Cell("keyword")>>))
      [] u \in {"constant", "identifier"} -> Identifier(p, u)
      [] OTHER -> Fail(p, "EINVAL")

Kind(p) == p.cells[Head(p.frames)].type

\* The unit that a call reads when it is not after a value.
LoadCollection(p, u) ==
    CASE p.at = "first" /\ u = "}" -> Close(p)
      [] p.at \in {"first", "name"} /\ u = "quote" -> StartText(p, TRUE)
      [] p.at = "colon" /\ u = ":" -> [p EXCEPT !.at = "value"]
      [] p.at = "element" /\ u = "]" -> Close(p)
      [] p.at = "element" /\ u # "]" -> PushChar(p, u)
      [] p.at = "after" /\ u = "," -> [p EXCEPT !.at = IF Kind(p) = "object" THEN "name" ELSE "value"]
      [] p.at = "after" /\ u = (IF Kind(p) = "object" THEN "}" ELSE "]") -> Close(p)
      [] OTHER -> Fail(p, "EINVAL")

-----------------------------------------------------------------------------
(* sxe_jitson_stack_load_string.                                           *)

\* sxe_unicode_to_utf8: the bytes of a code point.
sxe_unicode_to_utf8(u) == [char |-> 1, escape |-> 1, utf1 |-> 1, utf2 |-> 2, utf3 |-> 3][u]

Space(cells) == TextSize + WordSize * (cells - 1)

\* Another token is needed for what follows.
AtEdge(edge, i) == edge >= TextSize /\ edge < TextSize + i

\* A character is stored, the string grown, and the rest of the character stored.
\* odd (history): the rest of a character crosses, or follows, the end of a token.
StoreChar(p, u) ==
    LET t == p.text
        i == sxe_unicode_to_utf8(u)
        edge == (t.len + 1) % WordSize
        more == AtEdge(edge, i)
        cells == IF more THEN t.cells + 1 ELSE t.cells
        s == [t EXCEPT !.len = @ + i, !.cells = cells,
                       !.odd = @ \/ edge \in TextSize - i + 1 .. TextSize - 1 \/ edge \in TextSize + 1 .. TextSize + i - 1,
                       !.spilt = @ \/ t.len >= Space(t.cells) \/ t.len + i > Space(cells)] IN
    [Grow(p, Rest(IF more THEN 1 ELSE 0)) EXCEPT !.text = s]

\* The terminator is stored.
EndText(p) ==
    LET t == [p.text EXCEPT !.spilt = @ \/ p.text.len >= Space(p.text.cells)]
        k == Len(p.cells) - t.cells + 1
        q == [p EXCEPT !.text = t, !.cells[k].len = t.len, !.cells[k].size = TextTokens(t.len), !.units = Append(Front(@), "text")] IN
    IF t.key THEN [q EXCEPT !.at = "colon"] ELSE Complete(q)

LoadString(p, u) ==
    CASE u = "quote" -> EndText(p)
      [] u = End -> Fail(p, "EINVAL")
      [] u = "badescape" -> Fail(p, "EILSEQ")
      [] OTHER -> StoreChar(p, u)

-----------------------------------------------------------------------------
Parsing == parser.result = "parsing"
TextBound(p) == IF p.frames = <<>> THEN MaxText ELSE 1

ReadText == /\ Parsing /\ parser.at = "text"
            /\ \E u \in TextUnits : /\ parser.text.len < TextBound(parser) \/ u \in {"quote", End}
                                    /\ parser' = LoadString(parser, u)

ReadUnit == /\ Parsing /\ parser.at # "text"
            /\ \E u \in IF parser.pushed # "" THEN {parser.pushed} ELSE Symbols :
                  /\ Len(parser.units) < MaxUnits \/ parser.pushed # ""
                  /\ LET p == GetNonspace(parser, u) IN
                     parser' = IF p.at = "value" THEN LoadJson(p, u) ELSE LoadCollection(p, u)

\* The stack cannot grow, at any token.
OutOfMemory == Parsing /\ parser.at \in {"value", "first", "text"} /\ parser.units # <<>> /\ parser' = Fail(parser, "ENOMEM")

ParseNext == ReadText \/ ReadUnit \/ OutOfMemory

ParseSpec == ParseInit /\ [][ParseNext]_parser

-----------------------------------------------------------------------------
\* The JSON grammar, with the extensions that are allowed.
Leaves(p) == {"text", "number", "keyword"} \cup (IF "constants" \in p.flags THEN {"constant"} ELSE {})
                 \cup (IF "identifiers" \in p.flags THEN {"constant", "identifier"} ELSE {})
RECURSIVE IsJson(_, _), IsList(_, _, _)
IsItem(s, leaves, named) == IF named THEN Len(s) > 2 /\ s[1] = "text" /\ s[2] = ":" /\ IsJson(SubSeq(s, 3, Len(s)), leaves)
                            ELSE IsJson(s, leaves)
IsList(s, leaves, named) ==
    \/ IsItem(s, leaves, named)
    \/ \E k \in 2 .. Len(s) - 1 : s[k] = "," /\ IsItem(SubSeq(s, 1, k - 1), leaves, named) /\ IsList(SubSeq(s, k + 1, Len(s)), leaves, named)
IsJson(s, leaves) ==
    \/ Len(s) = 1 /\ s[1] \in leaves
    \/ /\ Len(s) > 1 /\ <<s[1], Last(s)>> \in {<<"[", "]">>, <<"{", "}">>}
       /\ Len(s) = 2 \/ IsList(SubSeq(s, 2, Len(s) - 1), leaves, s[1] = "{")

\* Where the value at k ends, by its parts alone.
RECURSIVE EndAt(_, _), EndAfter(_, _, _)
EndAfter(c, k, n) == IF n = 0 \/ k = 0 THEN k ELSE EndAfter(c, EndAt(c, k), n - 1)
EndAt(c, k) ==
    IF k \notin DOMAIN c \/ c[k].type = "rest" THEN 0
    ELSE CASE c[k].type = "object" -> EndAfter(c, k + 1, 2 * c[k].len)
           [] c[k].type = "array" -> EndAfter(c, k + 1, c[k].len)
           [] OTHER -> k + Cardinality({i \in DOMAIN c : i >= k /\ \A j \in k + 1 .. i : c[j].type = "rest"})

TypeOf(u) == CASE u = "{" -> "object" [] u = "[" -> "array" [] u = "text" -> "string" [] OTHER -> u
Opening(u) == u \in {"{", "[", "text", "number", "keyword", "constant", "identifier"}

\* A string is never stored past the tokens reserved for it, which are as many as
\* its length asks for, unless an escape of several bytes meets a token's end.
StringsFit == parser.text.odd \/ (~parser.text.spilt /\
    (parser.at # "text" => parser.text.cells \in {0, TextTokens(parser.text.len)}))

\* The parser accepts exactly the JSON values, stopping at the end of the first
\* one, and the tokens that it leaves are that value, with every size right; on an
\* error it leaves none.  Its only abort is on a buffer that ends after a '['.
\* Strings stay in the tokens reserved for them.
ParseRight ==
    LET p == parser IN
    /\ StringsFit
    /\ p.result = "parsed" =>
          /\ IsJson(p.units, Leaves(p))
          /\ p.text.odd \/ \A k \in DOMAIN p.cells : p.cells[k].type # "rest" => EndAt(p.cells, k) = k + p.cells[k].size
          /\ SelectSeq([k \in DOMAIN p.cells |-> p.cells[k].type], LAMBDA t : t # "rest")
               = [k \in DOMAIN SelectSeq(p.units, Opening) |->
                    LET u == SelectSeq(p.units, Opening)[k] IN IF u = "constant" /\ "constants" \notin p.flags THEN "identifier" ELSE TypeOf(u)]
    /\ p.result \in {"EINVAL", "EILSEQ", "ENODATA"} => ~IsJson(p.units, Leaves(p))
    /\ p.result \notin {"parsed", "parsing"} => p.cells = <<>> \/ p.result = "aborted"
    /\ p.result = "aborted" => p.source = "buffer" /\ p.units[Len(p.units) - 1] = "["
    /\ (p.result = "parsing" /\ p.at # "text") => ~IsJson(p.units, Leaves(p))
=============================================================================
