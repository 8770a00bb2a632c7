------------------------------ MODULE Datagrams ------------------------------
(***************************************************************************)
(* Datagrams as tc_iot_coap_yield, src/coap/tc_iot_coap.c, reads them over *)
(* the UDP and DTLS ports.  UDP takes one datagram a read and loses what   *)
(* its buffer has no room for; DTLS gives that to the next read.  A byte   *)
(* is the number of its datagram and its place there.                      *)
(***************************************************************************)
EXTENDS Integers, Sequences, SequencesExt

CONSTANTS
  Sizes,        \* of the datagrams that come
  MaxDatagrams, \* bound
  ReadRoom      \* readbuf_size

ASSUME DatagramsAssumption ==
  Sizes \subseteq Nat /\ MaxDatagrams \in Nat /\ ReadRoom \in Nat \ {0, 1}

VARIABLES
  carrier,  \* the port: "udp", "linux udp", "dtls" or "linux dtls"
  sizes,    \* history: the sizes of the datagrams in the order they came
  waiting,  \* the bytes of each that the port has not taken yet
  readbuf,
  yielding, \* whether tc_iot_coap_yield is in its loop
  message     \* what tc_iot_coap_deserialize was last given, as bytes and as a string

datagramVars == <<carrier, sizes, waiting, readbuf, yielding, message>>

Nul == <<0, 0>>
Beyond == <<0, 1>>   \* whatever lies behind the buffer
Whole(d) == [k \in 1..sizes[d] |-> <<d, k>>]
NoMessage == [bytes |-> <<>>, string |-> <<>>]

\* tc_iot_coap_construct
DatagramInit ==
  /\ carrier \in {"udp", "linux udp", "dtls", "linux dtls"}
  /\ sizes = <<>> /\ waiting = <<>>
  /\ readbuf = [k \in 1..ReadRoom |-> Nul]
  /\ yielding = FALSE
  /\ message = NoMessage

DatagramArrives(n) ==
  /\ Len(sizes) < MaxDatagrams
  /\ sizes' = Append(sizes, n)
  /\ waiting' = Append(waiting, [k \in 1..n |-> <<Len(sizes) + 1, k>>])
  /\ UNCHANGED <<carrier, readbuf, yielding, message>>

CoapYield ==
  /\ ~yielding /\ yielding' = TRUE
  /\ UNCHANGED <<carrier, sizes, waiting, readbuf, message>>

-----------------------------------------------------------------------------
(* The reads of the ports: the bytes they bring, and what waits after them. *)

FirstBytes(bytes) == SubSeq(bytes, 1, IF Len(bytes) < ReadRoom THEN Len(bytes) ELSE ReadRoom)

OneRead == [bytes |-> FirstBytes(Head(waiting)), rest |-> Tail(waiting)]

\* tc_iot_hal_udp_read of RT-Thread: select and one read.
UdpRead == OneRead
\* (slip) the loop of tc_iot_hal_net_read, which goes on until the buffer is full
LinuxUdpReadsOn == [bytes |-> FirstBytes(FlattenSeq(waiting)), rest |-> <<>>]
\* tc_iot_hal_udp_read of Linux: a loop around recv that ends with what the first one brings.
LinuxUdpRead == OneRead
\* tc_iot_hal_dtls_read
DtlsRead ==
  LET left == SubSeq(Head(waiting), ReadRoom + 1, Len(Head(waiting)))
  IN [bytes |-> FirstBytes(Head(waiting)),
      rest |-> (IF left = <<>> THEN <<>> ELSE <<left>>) \o Tail(waiting)]
LinuxDtlsRead == DtlsRead

Read ==
  CASE carrier = "udp" -> UdpRead
    [] carrier = "linux udp" -> LinuxUdpRead
    [] carrier = "dtls" -> DtlsRead
    [] carrier = "linux dtls" -> LinuxDtlsRead

-----------------------------------------------------------------------------
(* tc_iot_coap_yield *)

\* The buffer after a read, with a NUL behind what it brought if there is room to spare.
Filled(bytes) ==
  [k \in 1..ReadRoom |->
     IF k <= Len(bytes) THEN bytes[k]
     ELSE IF k = Len(bytes) + 1 /\ Len(bytes) < ReadRoom - 1 THEN Nul
     ELSE readbuf[k]]

\* The buffer as a C string.
AsString(buffer) ==
  LET ends == {k \in 1..ReadRoom : buffer[k] = Nul}
  IN IF ends = {} THEN Append(buffer, Beyond)
     ELSE SubSeq(buffer, 1, (CHOOSE k \in ends : \A e \in ends : k <= e) - 1)

\* A read that brings something ends the loop, whatever becomes of the message; one that
\* brings nothing, an empty datagram for one, is repeated or time is over.
ReadSome ==
  /\ yielding /\ waiting # <<>>
  /\ waiting' = Read.rest
  /\ IF Read.bytes = <<>> THEN UNCHANGED <<readbuf, message>> /\ yielding' \in BOOLEAN
     ELSE /\ readbuf' = Filled(Read.bytes)
          /\ message' = [bytes |-> Read.bytes, string |-> AsString(Filled(Read.bytes))]
          /\ yielding' = FALSE
  /\ UNCHANGED <<carrier, sizes>>

\* Nothing came in time, or the read failed.
TimeIsOver ==
  /\ yielding /\ yielding' = FALSE
  /\ UNCHANGED <<carrier, sizes, waiting, readbuf, message>>

DatagramNext ==
  \/ \E n \in Sizes : DatagramArrives(n)
  \/ CoapYield \/ ReadSome \/ TimeIsOver

-----------------------------------------------------------------------------
(* Properties *)

\* A message is one whole datagram, and so is its text, although buffers are used again and
\* datagrams wait behind each other; only from ReadRoom - 1 bytes on may it be a part, or
\* its text go on behind it.
OneDatagram ==
  message # NoMessage =>
    LET d == message.bytes[1][1] IN
    IF sizes[d] < ReadRoom - 1 THEN message = [bytes |-> Whole(d), string |-> Whole(d)]
    ELSE \E i, j \in 1..sizes[d] : message.bytes = SubSeq(Whole(d), i, j)
=============================================================================
