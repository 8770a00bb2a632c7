------------------------------ MODULE FormText ------------------------------
(***************************************************************************)
(* The signed form that the token, activation and CoAP authentication      *)
(* requests carry: src/common/tc_iot_http_utils.c, which puts it together  *)
(* in a buffer of src/common/tc_iot_ya_buffer.c, tc_iot_url_encode,        *)
(* tc_iot_base64_encode and tc_iot_base64_decode.                          *)
(*                                                                         *)
(* Bytes are numbers, in ASCII.  A prefix is a letter and =, with & before *)
(* all but the first.                                                      *)
(***************************************************************************)
EXTENDS Integers, Sequences, FiniteSets, SequencesExt

CONSTANTS
  Fields,      \* whether each field of the form is "text" or "number"
  Texts,       \* values of the text fields
  Numbers,     \* values of the number fields, in digits
  Digests,     \* what tc_iot_calc_sign returns
  Behind,      \* what memory may hold behind the buffer, up to the next NUL
  FormLength   \* TC_IOT_HTTP_TOKEN_REQUEST_FORM_LEN

ASSUME FormAssumption == Fields \in Seq({"text", "number"}) /\ FormLength \in Nat \ {0}

VARIABLES
  form,    \* the buffer up to its pos; once it is signed, the C string that its users find
  given,   \* history: the values of the fields put in so far
  digest   \* the signature's digest, empty until the form is signed

formVars == <<form, given, digest>>

FormInit == form = <<>> /\ given = <<>> /\ digest = <<>>

-----------------------------------------------------------------------------
(* Encoding *)

HexDigit(n) == IF n < 10 THEN 48 + n ELSE 55 + n

\* is_normal_url_char, which is true of the bytes that are not
Reserved(b) ==
  \/ b < 48 /\ b \notin {45, 46}
  \/ b > 57 /\ b < 65
  \/ b > 90 /\ b < 97 /\ b # 95
  \/ b > 122

\* (slip) the nibbles of a reserved byte in the wrong order
UrlByteSwapped(b) ==
  CASE b = 32 -> <<43>>
    [] b # 32 /\ Reserved(b) -> <<37, HexDigit(b % 16), HexDigit(b \div 16)>>
    [] OTHER -> <<b>>
UrlByte(b) ==
  CASE b = 32 -> <<43>>
    [] b # 32 /\ Reserved(b) -> <<37, HexDigit(b \div 16), HexDigit(b % 16)>>
    [] OTHER -> <<b>>

UrlEncoded(s) == FlattenSeq([k \in 1..Len(s) |-> UrlByte(s[k])])

\* tc_iot_url_encode into a buffer with room bytes left: it stops when they are used up,
\* with a byte begun inside them written to its end.
UrlEncode(s, room) ==
  LET enough == {k \in 0..Len(s) : Len(UrlEncoded(SubSeq(s, 1, k))) >= room}
      taken == CHOOSE k \in enough \cup {Len(s)} : \A j \in enough : k <= j
  IN UrlEncoded(SubSeq(s, 1, taken))

SextetChar(n) ==
  CASE n \in 0..25 -> 65 + n [] n \in 26..51 -> 71 + n [] n \in 52..61 -> n - 4
    [] n = 62 -> 43 [] OTHER -> 47
Pad == 61

\* mod_table
Pads(n) == CASE n % 3 = 1 -> 2 [] n % 3 = 2 -> 1 [] OTHER -> 0

\* tc_iot_base64_encode
Base64(d) ==
  LET n == 4 * ((Len(d) + 2) \div 3)
      At(k) == IF k <= Len(d) THEN d[k] ELSE 0
      Triple(k) == LET g == 3 * ((k - 1) \div 4) IN 65536 * At(g + 1) + 256 * At(g + 2) + At(g + 3)
      Sextet(k) == (Triple(k) \div 64 ^ (3 - ((k - 1) % 4))) % 64
  IN [k \in 1..n |-> IF k > n - Pads(Len(d)) THEN Pad ELSE SextetChar(Sextet(k))]

\* decoding_table; = counts as 0, and tc_iot_base64_decode reads - . , _ for + and / too.
CharSextet(c) ==
  CASE c \in 65..90 -> c - 65 [] c \in 97..122 -> c - 71 [] c \in 48..57 -> c + 4
    [] c \in {43, 45, 46} -> 62 [] c \in {44, 47, 95} -> 63 [] OTHER -> 0

\* tc_iot_base64_decode of whole groups
Base64Decoded(s) ==
  LET n == (Len(s) \div 4) * 3 - Cardinality({k \in Len(s) - 1..Len(s) : k > 0 /\ s[k] = Pad})
      At(k) == CharSextet(s[k])
      Triple(g) == 262144 * At(g + 1) + 4096 * At(g + 2) + 64 * At(g + 3) + At(g + 4)
  IN [k \in 1..n |-> (Triple(4 * ((k - 1) \div 3)) \div 256 ^ (2 - ((k - 1) % 3))) % 256]

-----------------------------------------------------------------------------
(* Putting the form together *)

Equals == 61
Ampersand == 38
Prefix(k) == (IF k = 1 THEN <<>> ELSE <<Ampersand>>) \o <<96 + k, Equals>>

\* tc_iot_yabuffer_append, and tc_iot_yabuffer_forward over what was written behind pos:
\* both leave the buffer as it is when there is no room.
Appended(f, s) == IF Len(f) + Len(s) > FormLength THEN f ELSE f \o s

\* tc_iot_add_url_encoded_field, for the next field
AddText(s) ==
  LET k == Len(given) + 1
      f == Appended(form, Prefix(k))
  IN
  /\ digest = <<>> /\ k <= Len(Fields) /\ Fields[k] = "text"
  /\ form' = Appended(f, UrlEncode(s, FormLength - Len(f)))
  /\ given' = Append(given, s)
  /\ UNCHANGED digest

\* tc_iot_add_url_uint_field
AddNumber(s) ==
  LET k == Len(given) + 1
      f == Appended(form, Prefix(k))
  IN
  /\ digest = <<>> /\ k <= Len(Fields) /\ Fields[k] = "number"
  /\ form' = Appended(f, s)
  /\ given' = Append(given, s)
  /\ UNCHANGED digest

\* The signature: &signature=, then tc_iot_calc_auth_sign.  A NUL is written only where the
\* buffer has room left for it, and strlen measures the form.
Sign(d, behind) ==
  LET f == Appended(form, Prefix(Len(Fields) + 1))
      signed == f \o UrlEncode(Base64(d), FormLength - Len(f))
  IN
  /\ digest = <<>> /\ Len(given) = Len(Fields)
  /\ form' = IF Len(signed) < FormLength THEN signed ELSE signed \o behind
  /\ digest' = d
  /\ UNCHANGED given

FormNext ==
  \/ \E s \in Texts : AddText(s)
  \/ \E s \in Numbers : AddNumber(s)
  \/ \E d \in Digests, behind \in Behind : Sign(d, behind)

-----------------------------------------------------------------------------
(* Properties *)

\* The server's reading: the text between one separator and the next, percent-decoded.
HexValue(c) == IF c < 65 THEN c - 48 ELSE c - 55
PercentDecoded(s) ==
  LET from[k \in 1..Len(s) + 1] ==
        IF k > Len(s) THEN <<>>
        ELSE IF s[k] = 37 THEN <<16 * HexValue(s[k + 1]) + HexValue(s[k + 2])>> \o from[k + 3]
        ELSE <<IF s[k] = 43 THEN 32 ELSE s[k]>> \o from[k + 1]
  IN from[1]

FormParts ==
  FoldLeft(LAMBDA parts, c : IF c = Ampersand THEN Append(parts, <<>>)
                             ELSE [parts EXCEPT ![Len(parts)] = Append(@, c)],
           <<(<<>>)>>, form)
FieldRead(k) == PercentDecoded(SubSeq(FormParts[k], 3, Len(FormParts[k])))

LengthOf(k) == IF Fields[k] = "text" THEN Len(UrlEncoded(given[k])) ELSE Len(given[k])
Needed ==
  FoldLeft(LAMBDA n, k : n + Len(Prefix(k)) + LengthOf(k), 0, [k \in 1..Len(Fields) |-> k])
  + Len(Prefix(Len(Fields) + 1)) + Len(UrlEncoded(Base64(digest)))

\* A form that leaves a byte of its buffer for the NUL is read at the other end with every
\* value as it was given, separators and percent signs in values included, and its signature
\* decodes to the digest.
FormReadBack ==
  digest # <<>> /\ Needed < FormLength =>
    /\ Len(FormParts) = Len(Fields) + 1
    /\ \A k \in DOMAIN given : FieldRead(k) = given[k]
    /\ Base64Decoded(FieldRead(Len(Fields) + 1)) = digest
=============================================================================
