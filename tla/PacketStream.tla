---------------------------- MODULE PacketStream ----------------------------
\* MQTT packets as bytes of a stream: how readPacket finds their ends in what do_read brings.
\* A packet is its remaining length; its bytes are the header, the digits of the length in
\* base Radix (128), and the body.  The reads of the ports go on until they have what was
\* asked for, time is over, or the peer has closed.
EXTENDS Integers, Sequences, FiniteSets, SequencesExt

CONSTANTS Lengths,            \* remaining lengths of the peer's packets
          MaxPackets, Radix,
          ReadBuf, SendBuf    \* readbuf_size and buf_size

\* decodePacket reads up to four digits, and MQTT has no longer packets.
MaxLength == Radix * Radix * Radix * Radix - 1

ASSUME StreamAssumption ==
  /\ Radix \in Nat /\ Radix > 1 /\ Lengths \subseteq 0..MaxLength
  /\ ReadBuf \in Nat /\ SendBuf \in Nat
  /\ MaxPackets \in Nat

VARIABLES incoming,   \* remaining lengths, in the order the peer sent them
          arrived,    \* bytes that have come
          ended,      \* the peer has closed after them
          layer,      \* "tcp" or "tls": what the connection runs over
          pos,        \* bytes the client has read
          rx,     \* where readPacket is, with what it counts
          handed,     \* remaining lengths of the packets readPacket has returned
          late        \* time ended, or the connection, inside a packet

streamVars == <<incoming, arrived, ended, layer, pos, rx, handed, late>>

---------------------------------------------------------------------------
(* The stream. *)

\* Digits that MQTTPacket_encode writes for a length.
Digits[n \in Nat] == IF n < Radix THEN 1 ELSE 1 + Digits[n \div Radix]
PacketSize(n) == 1 + Digits[n] + n
StreamSize(lengths) == FoldLeft(LAMBDA sum, n : sum + PacketSize(n), 0, lengths)

\* Where the packets begin, and the length digits that follow each header.
Start(k) == StreamSize(SubSeq(incoming, 1, k - 1))
PacketAt(p) == CHOOSE k \in DOMAIN incoming : Start(k) <= p /\ p < Start(k + 1)
AtBoundary == \E k \in 1..(Len(incoming) + 1) : pos = Start(k)

Total == StreamSize(incoming)

---------------------------------------------------------------------------
(* Reading.  A do_read asks for n bytes; Got says it brought them all, Short that it brought
   the ones there were because time was over or the peer has closed.                       *)

Got(n) == arrived - pos >= n /\ pos' = pos + n
Short(n) == arrived - pos < n /\ pos' = arrived

\* Bytes come at any time, in any pieces; the peer may close anywhere.
BytesArrive ==
  /\ ~ended /\ arrived < Total
  /\ arrived' \in (arrived + 1)..Total
  /\ UNCHANGED <<incoming, ended, layer, pos, rx, handed, late>>
PeerCloses ==
  /\ ~ended /\ ended' = TRUE
  /\ UNCHANGED <<incoming, arrived, layer, pos, rx, handed, late>>

At(stage, count, value) == [at |-> stage, count |-> count, value |-> value]
NoRead == At("idle", 0, 0)

\* What readPacket returns to cycle without a packet: nothing read, or do_read's error, after
\* which the stream has no more to give.
NoPacket == IF ended /\ layer = "tcp" THEN At("closed", 0, 0) ELSE NoRead

\* readPacket's first byte.  Nothing read, and over TLS a closed connection, is no packet; a
\* closed TCP connection is an error.
ReadFirstByte ==
  /\ rx = NoRead
  /\ \/ /\ Got(1)
        /\ rx' = At("length", 0, 0)
     \/ Short(1) /\ rx' = NoPacket
  /\ UNCHANGED <<incoming, arrived, ended, layer, handed, late>>

\* decodePacket: up to four digits, least significant first; its result is not looked at, so
\* a length that did not come in time is used as far as it came.
Multiplier == <<1, Radix, Radix * Radix, Radix * Radix * Radix>>
Digit(k, i) == (incoming[k] \div Multiplier[i + 1]) % Radix
ReadLength ==
  /\ rx.at = "length"
  /\ LET k == PacketAt(pos)
         value == rx.value + Digit(k, rx.count) * Multiplier[rx.count + 1]
         last == rx.count + 1 = Digits[incoming[k]] IN
     \/ /\ Got(1)
        /\ rx' = IF last \/ rx.count = 3 THEN At("sized", 0, value)
                                                 ELSE At("length", rx.count + 1, value)
        /\ UNCHANGED late
     \/ /\ Short(1)
        /\ rx' = At("sized", 0, rx.value) /\ late' = TRUE
  /\ UNCHANGED <<incoming, arrived, ended, layer, handed>>

\* len counts the header and the digits written back into readbuf.
Room(value) == ReadBuf - 1 - Digits[value]
Oversized(value) == value > Room(value)

Return(value) ==
  /\ handed' = Append(handed, value)
  /\ rx' = NoRead

\* The rest of a packet that fits is read at once; less than that is rc = 0, no packet.
ReadBody ==
  /\ rx.at = "sized" /\ ~Oversized(rx.value)
  /\ \/ Got(rx.value) /\ Return(rx.value) /\ UNCHANGED late
     \/ Short(rx.value) /\ rx' = NoRead /\ late' = TRUE /\ UNCHANGED handed
  /\ UNCHANGED <<incoming, arrived, ended, layer>>

\* An oversized packet first fills readbuf ...
FillBuffer ==
  /\ rx.at = "sized" /\ Oversized(rx.value)
  /\ LET room == Room(rx.value) IN
     \/ /\ Got(room)
        /\ rx' = At("skip", rx.value - room, rx.value)
        /\ UNCHANGED late
     \/ /\ Short(room)
        /\ late' = TRUE
        /\ rx' = IF pos' = pos THEN NoPacket
                                   ELSE At("skip", rx.value - (pos' - pos), rx.value)
  /\ UNCHANGED <<incoming, arrived, ended, layer, handed>>

\* ... and the rest, rx.count bytes, goes through buf in pieces until it is over or the
\* caller's time is: readbuf is returned as a packet either way, unless a read brings nothing.
PieceAlwaysWhole(left) == SendBuf      \* mutation: the last piece runs into the next packet
Piece(left) == IF left > SendBuf THEN SendBuf ELSE left
SkipRest ==
  /\ rx.at = "skip"
  /\ LET piece == Piece(rx.count)
         left == rx.count - (pos' - pos) IN
     \/ Got(piece) /\ left <= 0 /\ Return(rx.value) /\ UNCHANGED late
     \/ /\ Got(piece) /\ left > 0
        /\ \/ rx' = [rx EXCEPT !.count = left] /\ UNCHANGED <<late, handed>>
           \/ late' = TRUE /\ Return(rx.value)
     \/ /\ Short(piece) /\ late' = TRUE
        /\ IF pos' = pos /\ ~(ended /\ layer = "tls")
           THEN rx' = NoPacket /\ UNCHANGED handed
           ELSE Return(rx.value)
  /\ UNCHANGED <<incoming, arrived, ended, layer>>

---------------------------------------------------------------------------
StreamInit ==
  /\ incoming \in UNION {[1..n -> Lengths] : n \in 1..MaxPackets}
  /\ arrived = 0 /\ ended = FALSE /\ layer \in {"tcp", "tls"}
  /\ pos = 0 /\ rx = NoRead /\ handed = <<>> /\ late = FALSE

\* Once a packet was cut, what the client takes for packets is not followed further.
StreamNext ==
  \/ BytesArrive \/ PeerCloses
  \/ ~late /\ (ReadFirstByte \/ ReadLength \/ ReadBody \/ FillBuffer \/ SkipRest)

---------------------------------------------------------------------------
(* Safety. *)

\* However the bytes are cut into reads, and whatever their lengths, packets too big for the
\* buffer among them, readPacket returns the peer's packets, each once and in order, and
\* between two calls stands where one ends - as long as no time-out falls inside a packet.
PacketsInOrder ==
  ~late => /\ IsPrefix(handed, incoming)
           /\ rx.at \in {"idle", "closed"} => pos = StreamSize(handed)
=============================================================================
