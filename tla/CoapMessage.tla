----------------------------- MODULE CoapMessage -----------------------------
(***************************************************************************)
(* CoAP messages, src/coap/tc_iot_coap.c: options added to a message,      *)
(* tc_iot_coap_serialize, the datagram, and tc_iot_coap_deserialize option *)
(* by option at the other end.                                             *)
(*                                                                         *)
(* Bytes are numbers.  Of the first header byte only the token length is   *)
(* kept.                                                                   *)
(***************************************************************************)
EXTENDS Integers, Sequences, FiniteSets, SequencesExt

CONSTANTS
  Options,     \* the options a message may get: a number and a value
  Payloads,    \* the payloads a message may get
  MaxOptions,  \* TC_IOT_COAP_MAX_OPTION_COUNT
  SendBuffer   \* TC_IOT_COAP_SEND_BUF_SIZE

\* The largest number of two bytes.
Widest == 256 * 256 - 1

ASSUME MessageAssumption ==
  /\ MaxOptions \in Nat \ {0} /\ SendBuffer \in Nat \ {0}
  /\ Options \subseteq [number : Nat, value : Seq(0..255)]
  /\ Payloads \subseteq Seq(0..255)

VARIABLES
  options,  \* message->options, those in use
  added,    \* history: the options in the order they were added
  payload,  \* message->p_payload
  wire,     \* the datagram
  reading   \* tc_iot_coap_deserialize: at, pos, sum_delta, and what it has read

messageVars == <<options, added, payload, wire, reading>>

NoOption == [number |-> 0, value |-> <<>>]
NotRead == [at |-> "building", pos |-> 0, sum |-> 0, options |-> <<>>, payload |-> <<>>]

\* tc_iot_coap_message_init
MessageInit ==
  /\ options = <<>> /\ added = <<>>
  /\ payload = <<>>
  /\ wire = <<>>
  /\ reading = NotRead

-----------------------------------------------------------------------------
(* Building a message *)

\* The options that stay in front of a new one with number n.
InFront(n) == Cardinality({k \in DOMAIN options : options[k].number <= n})

\* tc_iot_coap_message_add_option: only one option is moved up; of two or more behind
\* the new one the second is lost, and the last place stays empty.
AddOption(o) ==
  LET i == InFront(o.number)
      n == Len(options)
  IN
  /\ reading.at = "building" /\ n < MaxOptions
  /\ options' = [k \in 1..n + 1 |-> CASE k <= i -> options[k]
                                      [] k = i + 1 -> o
                                      [] k = i + 2 -> options[i + 1]
                                      [] k > i + 2 /\ k <= n -> options[k]
                                      [] OTHER -> NoOption]
  /\ added' = Append(added, o)
  /\ UNCHANGED <<payload, wire, reading>>

SetPayload(p) ==
  /\ reading.at = "building"
  /\ payload' = p
  /\ UNCHANGED <<options, added, wire, reading>>

-----------------------------------------------------------------------------
(* tc_iot_coap_serialize *)

\* (slip) 268 written with two more bytes
NibbleEarly(n) == CASE n \in 0..12 -> n [] n \in 13..267 -> 13 [] n \in 268..14 + Widest -> 14 [] OTHER -> 0
\* tc_iot_coap_extendable_number_base
Nibble(n) == CASE n \in 0..12 -> n [] n \in 13..268 -> 13 [] n \in 269..14 + Widest -> 14 [] OTHER -> 0

\* tc_iot_coap_extendable_number_extra_data, in the bytes of ..._extra_len
Extra(n) ==
  CASE n \in 13..268 -> <<n - 13>>
    [] n \in 269..14 + Widest -> <<(n - 269) \div 256, (n - 269) % 256>>
    [] OTHER -> <<>>

OptionBytes(delta, value) ==
  <<Nibble(delta) * 16 + Nibble(Len(value))>> \o Extra(delta) \o Extra(Len(value)) \o value

\* ver, type and token length; code; message id; and the token made from the id.
Header == <<4, 2, 0, 7, 48, 48, 48, 55>>
Marker == 255

Written(k) ==
  LET before == IF k = 1 THEN 0 ELSE options[k - 1].number IN
  OptionBytes(options[k].number - before, options[k].value)
OptionsWritten == FlattenSeq([k \in 1..Len(options) |-> Written(k)])

\* An option is written if it fits; the payload always is.
Serialize ==
  /\ reading.at = "building"
  /\ IF Len(Header) + Len(OptionsWritten) > SendBuffer
     THEN wire' = <<>> /\ reading' = [reading EXCEPT !.at = "not sent"]
     ELSE /\ wire' = Header \o OptionsWritten
                       \o (IF payload = <<>> THEN <<>> ELSE <<Marker>> \o payload)
          /\ reading' = [reading EXCEPT !.at = "sent"]
  /\ UNCHANGED <<options, added, payload>>

-----------------------------------------------------------------------------
(* tc_iot_coap_deserialize *)

\* A datagram longer than the receive buffer is cut.
Arrive(n) ==
  /\ reading.at = "sent"
  /\ wire' = SubSeq(wire, 1, n)
  /\ reading' = [reading EXCEPT !.at = "header"]
  /\ UNCHANGED <<options, added, payload>>

\* Bytes are counted from 0; whatever lies behind the last, a message that needs it is
\* invalid.
Byte(p) == IF p < Len(wire) THEN wire[p + 1] ELSE 0
ReadingDone(at) == [reading EXCEPT !.at = at]

\* With nothing after the token the message is read.
ReadHeader ==
  /\ reading.at = "header"
  /\ LET pos == 4 + Byte(0) IN
     reading' = CASE Len(wire) < 4 -> ReadingDone("invalid")
                  [] Len(wire) >= 4 /\ pos >= Len(wire) -> ReadingDone("read")
                  [] OTHER -> [reading EXCEPT !.at = "options", !.pos = pos]
  /\ UNCHANGED <<options, added, payload, wire>>

\* What a nibble and the bytes at p stand for.  The form with 14 lacks the 255.
Extended(nibble, p) ==
  CASE nibble = 13 -> 13 + Byte(p)
    [] nibble = 14 -> 14 + 256 * Byte(p) + Byte(p + 1)
    [] OTHER -> nibble
ExtraLen(nibble) == CASE nibble = 13 -> 1 [] nibble = 14 -> 2 [] OTHER -> 0

ReadOption ==
  LET base == Byte(reading.pos)
      numberAt == reading.pos + 1
      lengthAt == numberAt + ExtraLen(base \div 16)
      valueAt == lengthAt + ExtraLen(base % 16)
      number == reading.sum + Extended(base \div 16, numberAt)
      length == Extended(base % 16, lengthAt)
      next == valueAt + length
      value == [k \in 1..length |-> Byte(valueAt + k - 1)]
  IN
  /\ reading.at = "options" /\ reading.pos < Len(wire) /\ base # Marker
  /\ reading' = IF base \div 16 = 15 \/ base % 16 = 15 \/ next > Len(wire)
                THEN ReadingDone("invalid")
                ELSE [reading EXCEPT !.pos = next, !.sum = number,
                        !.options = IF Len(@) < MaxOptions
                                    THEN Append(@, [number |-> number, value |-> value])
                                    ELSE @]
  /\ UNCHANGED <<options, added, payload, wire>>

ReadPayload ==
  /\ reading.at = "options"
  /\ reading.pos = Len(wire) \/ Byte(reading.pos) = Marker
  /\ reading' = [reading EXCEPT !.at = "read",
                    !.payload = SubSeq(wire, reading.pos + 2, Len(wire))]
  /\ UNCHANGED <<options, added, payload, wire>>

MessageNext ==
  \/ \E o \in Options : AddOption(o)
  \/ \E p \in Payloads : SetPayload(p)
  \/ Serialize
  \/ \E n \in 1..Len(wire) : Arrive(n)
  \/ ReadHeader \/ ReadOption \/ ReadPayload

-----------------------------------------------------------------------------
(* Properties *)

\* The options in the order of their numbers, equal numbers as they were added.
Ordered ==
  FoldLeft(LAMBDA s, o : InsertAt(s, 1 + Cardinality({k \in DOMAIN s : s[k].number <= o.number}), o),
           <<>>, added)

\* What the code does not do right: an option put before two others, and numbers or
\* lengths that take the two-byte form.
PutBeforeTwo ==
  \E k \in DOMAIN added :
    Cardinality({j \in 1..k - 1 : added[j].number > added[k].number}) > 1
LongForm ==
  \E k \in DOMAIN Ordered :
    \/ Len(Ordered[k].value) > 268
    \/ Ordered[k].number - (IF k = 1 THEN 0 ELSE Ordered[k - 1].number) > 268

\* What is read back is what was built, value by value and in the order of the option
\* numbers; a datagram that was cut is found invalid or yields a part of the message
\* from its beginning, never an option with another number or value.
MessageReadBack ==
  reading.at \in {"read", "invalid"} /\ ~PutBeforeTwo /\ ~LongForm =>
    LET whole == Len(wire) = Len(Header) + Len(OptionsWritten)
                             + (IF payload = <<>> THEN 0 ELSE 1 + Len(payload))
    IN /\ reading.at = "read" => /\ IsPrefix(reading.options, Ordered)
                                 /\ IsPrefix(reading.payload, payload)
       /\ whole => /\ reading.at = "read"
                   /\ reading.options = Ordered
                   /\ reading.payload = payload
=============================================================================
