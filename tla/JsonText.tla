------------------------------ MODULE JsonText ------------------------------
(***************************************************************************)
(* JSON documents of the SDK: src/common/tc_iot_json_writer.c, which       *)
(* writes them, external/jsmn/jsmn.c, which finds their tokens, and        *)
(* src/common/tc_iot_json.c, which finds fields by path and unescapes      *)
(* their values.                                                           *)
(*                                                                         *)
(* A text is a sequence of characters; those that JSON escapes with a      *)
(* letter have names, and so have the bytes of characters that a server    *)
(* escapes by their number.  Texts fit their buffers and the token table.  *)
(***************************************************************************)
EXTENDS Integers, Sequences, FiniteSets, SequencesExt

CONSTANTS
  FieldNames,  \* names of fields, no prefix of a path
  Strings,     \* values written by tc_iot_json_writer_string
  ServerTexts, \* values written by a server: numbers of characters below 16^4, and utf8
  Raws,        \* numbers, booleans and null, as text
  MaxFields,   \* bound: values in a document
  MaxDepth     \* bound: objects and arrays inside each other

ASSUME JsonAssumption == MaxFields \in Nat /\ MaxDepth \in Nat \ {0}

VARIABLES
  text,     \* the document written so far
  nesting,  \* history: the objects and arrays that are open, and elements of arrays
  fields,   \* history: the path and value of everything written
  reader    \* the parser: at, position, tokens, and toksuper, the token that holds the next

jsonVars == <<text, nesting, fields, reader>>

Quote == "\""
Backslash == "\\"
NotParsed == [at |-> "writing", pos |-> 1, tokens |-> <<>>, super |-> 0]

\* tc_iot_json_writer_open
JsonInit ==
  /\ text = <<"{">>
  /\ nesting = <<>>
  /\ fields = {}
  /\ reader = NotParsed

-----------------------------------------------------------------------------
(* Writing *)

Letter == [BS |-> "b", FF |-> "f", LF |-> "n", CR |-> "r", HT |-> "t"]
Meant(c) == IF \E n \in DOMAIN Letter : Letter[n] = c
            THEN CHOOSE n \in DOMAIN Letter : Letter[n] = c ELSE c

\* (slip) a backslash left as it is
EscapedQuote(c) ==
  CASE c \in DOMAIN Letter -> <<Backslash, Letter[c]>>
    [] c \in {Quote, "/"} -> <<Backslash, c>>
    [] OTHER -> <<c>>
\* tc_iot_json_escape
EscapedChar(c) ==
  CASE c \in DOMAIN Letter -> <<Backslash, Letter[c]>>
    [] c \in {Quote, Backslash, "/"} -> <<Backslash, c>>
    [] OTHER -> <<c>>
Escaped(s) == FlattenSeq([k \in 1..Len(s) |-> EscapedChar(s[k])])

Separator == IF Last(text) \in {"{", "["} THEN <<>> ELSE <<",">>
Key(name) == <<Quote>> \o Escaped(name) \o <<Quote, ":">>

Writing == reader.at = "writing"
InArray == nesting # <<>> /\ Last(nesting).array
Path == [k \in 1..Len(nesting) |-> nesting[k].step]

ByName(name) == [name |-> name, nth |-> 0]
Nth(n) == [name |-> <<>>, nth |-> n]

\* The values already in the innermost array or object.
Siblings == {f \in fields : Len(f.path) = Len(nesting) + 1 /\ IsPrefix(Path, f.path)}
\* Array elements have no name; the SDK writes no name twice.
Step(name) == IF InArray THEN Nth(Cardinality(Siblings) + 1) ELSE ByName(name)
Unused(name) == InArray \/ \A f \in Siblings : Last(f.path) # ByName(name)
Data(name, data) == Separator \o (IF InArray THEN <<>> ELSE Key(name)) \o data

\* tc_iot_json_writer_format_data
Write(name, data, value) ==
  /\ Writing /\ Cardinality(fields) < MaxFields /\ Unused(name)
  /\ text' = text \o Data(name, data)
  /\ fields' = fields \cup {[path |-> Append(Path, Step(name)), value |-> value]}
  /\ UNCHANGED reader

\* tc_iot_json_writer_string
WriteString(name, s) == Write(name, <<Quote>> \o Escaped(s) \o <<Quote>>, s) /\ UNCHANGED nesting

\* A server escapes a character by the four hexadecimal digits of its number.
HexDigits == <<"0", "1", "2", "3", "4", "5", "6", "7", "8", "9", "a", "b", "c", "d", "e", "f">>
ByNumber(n) == <<Backslash, "u">> \o [k \in 1..4 |-> HexDigits[((n \div 16^(4 - k)) % 16) + 1]]

WriteByServer(name, t) ==
  /\ Write(name, <<Quote>> \o FlattenSeq([k \in DOMAIN t.numbers |-> ByNumber(t.numbers[k])])
                 \o <<Quote>>, t.utf8)
  /\ UNCHANGED nesting

\* tc_iot_json_writer_int, _uint, _decimal, _bool, _null
WriteRaw(name, r) == Write(name, r, r) /\ UNCHANGED nesting

\* tc_iot_json_writer_object_begin, _array_begin
Begin(name, array) ==
  /\ Len(nesting) < MaxDepth
  /\ Write(name, <<IF array THEN "[" ELSE "{">>, <<>>)
  /\ nesting' = Append(nesting, [array |-> array, step |-> Step(name)])

\* tc_iot_json_writer_object_end, _array_end
End ==
  /\ Writing /\ nesting # <<>>
  /\ text' = Append(text, IF InArray THEN "]" ELSE "}")
  /\ nesting' = Front(nesting)
  /\ UNCHANGED <<fields, reader>>

\* tc_iot_json_writer_close; the document is sent, and parsed at the other end.
Close ==
  /\ Writing /\ nesting = <<>>
  /\ text' = Append(text, "}")
  /\ reader' = [reader EXCEPT !.at = "parsing"]
  /\ UNCHANGED <<nesting, fields>>

-----------------------------------------------------------------------------
(* Parsing: jsmn_parse *)

Parsing == reader.at = "parsing" /\ reader.pos <= Len(text)
Char == text[reader.pos]

\* A token that begins before character start and ends before character end; 0 while open.
Token(type, start, end) ==
  [type |-> type, start |-> start, end |-> end, size |-> 0, parent |-> reader.super]

\* One more token, counted by the token that holds it.
WithToken(t) ==
  Append([k \in DOMAIN reader.tokens |->
            IF k = reader.super THEN [reader.tokens[k] EXCEPT !.size = @ + 1] ELSE reader.tokens[k]], t)

ParseOpen ==
  /\ Parsing /\ Char \in {"{", "["}
  /\ reader' = [reader EXCEPT !.pos = @ + 1, !.super = Len(reader.tokens) + 1,
                  !.tokens = WithToken(Token(IF Char = "{" THEN "object" ELSE "array", reader.pos, 0))]
  /\ UNCHANGED <<text, nesting, fields>>

\* The innermost open token, found along the parents from the last one; 0 if there is none.
Open ==
  LET tokens == reader.tokens
      up[k \in 0..Len(tokens)] == IF k = 0 \/ tokens[k].end = 0 THEN k ELSE up[tokens[k].parent]
  IN up[Len(tokens)]

ParseClose ==
  /\ Parsing /\ Char \in {"}", "]"}
  /\ reader' = IF Open = 0 \/ reader.tokens[Open].type # (IF Char = "}" THEN "object" ELSE "array")
               THEN [reader EXCEPT !.at = "invalid"]
               ELSE [reader EXCEPT !.pos = @ + 1, !.super = reader.tokens[Open].parent,
                       !.tokens[Open].end = reader.pos + 1]
  /\ UNCHANGED <<text, nesting, fields>>

\* jsmn_parse_string: the quote that ends the string which begins at p, past the end of
\* the text if none does.
StringEnd(p) ==
  LET end[q \in p..Len(text) + 2] ==
        IF q > Len(text) \/ text[q] = Quote THEN q
        ELSE IF text[q] = Backslash THEN end[q + 2] ELSE end[q + 1]
  IN end[p]

ParseString ==
  /\ Parsing /\ Char = Quote
  /\ LET end == StringEnd(reader.pos + 1) IN
     reader' = IF end > Len(text) THEN [reader EXCEPT !.at = "invalid"]
               ELSE [reader EXCEPT !.pos = end + 1,
                       !.tokens = WithToken(Token("string", reader.pos + 1, end))]
  /\ UNCHANGED <<text, nesting, fields>>

\* jsmn_parse_primitive: up to the next colon, comma or closing bracket.
ParsePrimitive ==
  /\ Parsing /\ Char \notin {"{", "[", "}", "]", Quote, ":", ","}
  /\ LET ends == {q \in reader.pos..Len(text) : text[q] \in {":", ",", "]", "}"}}
         end == CHOOSE q \in ends \cup {Len(text) + 1} : \A r \in ends : q <= r
     IN reader' = [reader EXCEPT !.pos = end,
                     !.tokens = WithToken(Token("primitive", reader.pos, end))]
  /\ UNCHANGED <<text, nesting, fields>>

ParseColon ==
  /\ Parsing /\ Char = ":"
  /\ reader' = [reader EXCEPT !.pos = @ + 1, !.super = Len(reader.tokens)]
  /\ UNCHANGED <<text, nesting, fields>>

\* Behind a value the next key belongs to the object again.
ParseComma ==
  /\ Parsing /\ Char = ","
  /\ reader' = [reader EXCEPT !.pos = @ + 1,
                  !.super = IF @ # 0 /\ reader.tokens[@].type \notin {"array", "object"}
                            THEN reader.tokens[@].parent ELSE @]
  /\ UNCHANGED <<text, nesting, fields>>

\* Nothing is open at the end of the text.
AllClosed == \A k \in DOMAIN reader.tokens : reader.tokens[k].end # 0
\* tc_iot_json_parse, tc_iot_json_tokenizer_load: the document is an object.
IsDocument == reader.tokens # <<>> /\ reader.tokens[1].type = "object"

ParseEnds ==
  /\ reader.at = "parsing" /\ reader.pos > Len(text)
  /\ reader' = [reader EXCEPT !.at = IF AllClosed /\ IsDocument THEN "parsed" ELSE "invalid"]
  /\ UNCHANGED <<text, nesting, fields>>

JsonNext ==
  \/ \E name \in FieldNames :
       \/ \E s \in Strings : WriteString(name, s)
       \/ \E t \in ServerTexts : WriteByServer(name, t)
       \/ \E r \in Raws : WriteRaw(name, r)
       \/ \E array \in BOOLEAN : Begin(name, array)
  \/ End \/ Close
  \/ ParseOpen \/ ParseClose \/ ParseString \/ ParsePrimitive \/ ParseColon \/ ParseComma
  \/ ParseEnds

-----------------------------------------------------------------------------
(* Finding fields *)

Tokens == DOMAIN reader.tokens
TextOf(k) == SubSeq(text, reader.tokens[k].start, reader.tokens[k].end - 1)
Children(k) == {i \in Tokens : i > k /\ reader.tokens[i].parent = k}
FirstToken(S) == IF S = {} THEN 0 ELSE CHOOSE i \in S : \A j \in S : i <= j

\* tc_iot_jsoneq_len
JsonEq(i, name) == reader.tokens[i].type = "string" /\ TextOf(i) = name

\* tc_iot_json_find_token, one step of the path; tc_iot_json_tokenizer_find_child: the
\* token behind the first child with the name.  0 for none.
FindChild(k, name) ==
  LET found == FirstToken({i \in Children(k) : JsonEq(i, name)})
  IN IF reader.tokens[k].type # "object" \/ found = 0 THEN 0 ELSE found + 1

\* tc_iot_json_tokenizer_nth_child; 0 for none.
NthChild(k, n) ==
  IF n > reader.tokens[k].size THEN 0
  ELSE FirstToken({i \in Children(k) : Cardinality({j \in Children(k) : j <= i}) = n})

Find(path) ==
  LET token[d \in 0..Len(path)] ==
        IF d = 0 THEN 1
        ELSE IF token[d - 1] = 0 THEN 0
        ELSE IF path[d].nth = 0 THEN FindChild(token[d - 1], path[d].name)
        ELSE NthChild(token[d - 1], path[d].nth)
  IN token[Len(path)]

\* _unicode_char_to_long of four digits
CodeOf(digits) ==
  FoldLeft(LAMBDA n, d : 16 * n + (CHOOSE v \in 0..15 : HexDigits[v + 1] = d), 0, digits)

\* tc_iot_unicode_to_utf8, for numbers of four digits: six bits in each byte but the first.
Octet(n) == ToString(n)
SixBits(n) == Octet(128 + (n % 64))
UnicodeToUtf8(n) ==
  IF n <= 127 THEN <<Octet(n)>>
  ELSE IF n <= 2047 THEN <<Octet(192 + n \div 64), SixBits(n)>>
  ELSE <<Octet(224 + n \div 4096), SixBits(n \div 64), SixBits(n)>>

\* tc_iot_json_unescape of what the writer and servers produce; a backslash at the end is
\* dropped.
Unescaped(s) ==
  LET from[k \in 1..Len(s) + 1] ==
        IF k > Len(s) THEN <<>>
        ELSE IF s[k] # Backslash THEN <<s[k]>> \o from[k + 1]
        ELSE IF k = Len(s) THEN <<>>
        ELSE IF s[k + 1] \in {Quote, Backslash, "/", "b", "f", "n", "r", "t"}
        THEN <<Meant(s[k + 1])>> \o from[k + 2]
        ELSE IF s[k + 1] = "u"
        THEN UnicodeToUtf8(CodeOf(SubSeq(s, k + 2, k + 5))) \o from[k + 6]
        ELSE <<s[k]>> \o from[k + 1]
  IN from[1]

-----------------------------------------------------------------------------
(* Properties *)

\* Whatever text the values hold, a document of the writer is parsed, every field is
\* found by its path with the value that was written, and no field that was not written
\* is found.
Paths == {Append(f.path, ByName(n)) : f \in fields, n \in FieldNames}
DocumentReadBack ==
  /\ reader.at # "invalid"
  /\ reader.at = "parsed" =>
       /\ \A f \in fields :
            /\ Find(f.path) # 0
            /\ reader.tokens[Find(f.path)].type \in {"string", "primitive"} =>
                 Unescaped(TextOf(Find(f.path))) = f.value
       /\ \A p \in Paths : Find(p) # 0 => \E f \in fields : f.path = p
=============================================================================
