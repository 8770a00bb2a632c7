----------------------------- MODULE HttpClient -----------------------------
(***************************************************************************)
(* One request of the HTTP client, src/common/tc_iot_http_client.c: the    *)
(* request is written, the reply is read into the same buffer in pieces,   *)
(* the incremental parser consumes the header, and the body is collected   *)
(* in the buffer (identity or chunked) or handed to a callback.            *)
(*                                                                         *)
(* The wire is a sequence of symbols; a status line, a header name and a   *)
(* byte of the body are one symbol each, so a reply may be cut anywhere    *)
(* that matters.  Positions count from 0 as in the code: byte p of the     *)
(* buffer is buf[p + 1].                                                   *)
(***************************************************************************)
EXTENDS Integers, Sequences, FiniteSets, SequencesExt

\* The calls made: whether the request is a HEAD, whether it has a callback, its buffer_len
\* and the server's answer, with its status, its headers and its body in chunks.
CONSTANT Calls

ASSUME CallsAssumption ==
  \A c \in Calls :
    /\ c.buffer_len \in Nat \ {0} /\ ~(c.head /\ c.callback)
    /\ c.head \in BOOLEAN /\ c.callback \in BOOLEAN /\ c.reply.status \in STRING

VARIABLES
  call,      \* the call that is made
  wire,      \* what the client has not read of it
  pc,        \* where tc_iot_http_client_internal_perform is
  buf,       \* buffer
  left,      \* parse_left
  limit,     \* read_ret + parse_left, the bytes the parser is given
  pos,       \* buffer_parsed
  parser,    \* state, status_code, content_length and transfer_encoding
  received,  \* received_bytes
  expired,   \* whether the timer has run out
  result,    \* what the call returns
  open,      \* whether the socket is open
  given      \* history: what the callback was given, and its last offset

vars == <<call, wire, pc, buf, left, limit, pos, parser, received, expired, result, open, given>>
parsing == <<limit, pos, parser>>

BufferLen == call.buffer_len
reply == call.reply

Digits == <<"0", "1", "2", "3", "4", "5", "6", "7", "8", "9">>
Digit(s) == CHOOSE n \in 0..9 : Digits[n + 1] = s
IsDigit(s) == \E n \in 0..9 : Digits[n + 1] = s
Crlf == <<"cr", "lf">>
Nul == "nul"

Prefix(n) == SubSeq(buf, 1, n)
\* The text a caller finds: strlen stops at the first NUL.
Text == IF Contains(buf, Nul) THEN Prefix(CHOOSE n \in 0..(BufferLen - 1) :
                                            buf[n + 1] = Nul /\ ~Contains(Prefix(n), Nul))
        ELSE buf
\* b with the bytes s from position p on.
Put(b, p, s) == [i \in 1..BufferLen |-> IF i > p /\ i <= p + Len(s) THEN s[i - p] ELSE b[i]]
Ended(b, p) == IF p < BufferLen THEN Put(b, p, <<Nul>>) ELSE b

-----------------------------------------------------------------------------
(* Replies on the wire *)

Body(r) == FlattenSeq(r.chunks)
Chunked(r) == "chunked" \in r.headers
Number(n) == <<Digits[(n \div 10) + 1], Digits[(n % 10) + 1]>>

Header(r, name) ==
  CASE name = "length" -> <<"Content-Length", ":">> \o Number(Len(Body(r))) \o Crlf
    [] name = "chunked" -> <<"Transfer-Encoding", ":", "chunked">> \o Crlf
    [] OTHER -> <<"Age", ":", "0">> \o Crlf
HeaderLine(r, name) == IF name \in r.headers THEN Header(r, name) ELSE <<>>
Chunk(data) == <<Digits[Len(data) + 1]>> \o Crlf \o data \o Crlf
HeaderOnWire(r) ==
  <<r.status, "reason">> \o Crlf
  \o HeaderLine(r, "other") \o HeaderLine(r, "length") \o HeaderLine(r, "chunked") \o Crlf
BodyOnWire(r) ==
  IF Chunked(r) THEN FlattenSeq([i \in DOMAIN r.chunks |-> Chunk(r.chunks[i])])
                     \o <<"0">> \o Crlf \o Crlf
  ELSE Body(r)
OnWire(r) == HeaderOnWire(r) \o BodyOnWire(r)

\* Bound: a length that is announced has two digits.
ASSUME RepliesAssumption ==
  \A c \in Calls :
    /\ Body(c.reply) \in Seq(STRING) /\ BodyOnWire(c.reply) \in Seq(STRING)
    /\ "length" \in c.reply.headers => Len(Body(c.reply)) < 100

-----------------------------------------------------------------------------

NewParser == [state |-> "start", status |-> "none", length |-> 0, chunked |-> FALSE]
Running == [kind |-> "running", bytes |-> 0]
Failed == [kind |-> "error", bytes |-> 0]
Success(n) == [kind |-> "ok", bytes |-> n]

Init ==
  /\ call \in Calls
  /\ wire = IF call.head THEN HeaderOnWire(reply) ELSE OnWire(reply)
  /\ pc = "send"
  /\ buf = [i \in 1..BufferLen |-> "request"]
  /\ left = 0 /\ limit = 0 /\ pos = 0 /\ received = 0
  /\ parser = NewParser
  /\ expired = FALSE /\ open = FALSE
  /\ result = Running
  /\ given = [data |-> <<>>, offset |-> 0]

\* Another call, with a buffer and a client of its own.
CallAgain(calls) ==
  /\ call' \in calls
  /\ wire' = (IF call.head THEN HeaderOnWire(reply) ELSE OnWire(reply))'
  /\ pc' = "send"
  /\ buf' = [i \in 1..BufferLen' |-> "request"]
  /\ left' = 0 /\ limit' = 0 /\ pos' = 0 /\ received' = 0
  /\ parser' = NewParser
  /\ expired' = FALSE /\ open' = FALSE
  /\ result' = Running
  /\ given' = [data |-> <<>>, offset |-> 0]

Finish(r, closed) ==
  /\ pc' = "done" /\ result' = r
  /\ open' = IF closed THEN FALSE ELSE open

\* do_connect, whose result is ignored, and do_write, which fails without a connection;
\* the socket is then left as it is.
Send ==
  /\ pc = "send"
  /\ \/ pc' = "read" /\ open' = TRUE /\ UNCHANGED result
     \/ /\ open' \in BOOLEAN
        /\ pc' = "done" /\ result' = Failed
  /\ UNCHANGED <<call, wire, buf, left, parsing, received, expired, given>>

\* What one do_read into the buffer from position p may bring; never more than room.
Pieces(room) == 1..(IF room < Len(wire) THEN room ELSE Len(wire))
Take(k) == SubSeq(wire, 1, k)
Consume(k) == wire' = SubSeq(wire, k + 1, Len(wire))

\* The connection fails, the peer closes it, or there is no room to read into.
ReadError ==
  /\ pc \in {"read", "stream", "identity", "chunks"}
  /\ Finish(Failed, TRUE)
  /\ UNCHANGED <<call, wire, buf, left, parsing, received, expired, given>>

ReadHeader(k) ==
  /\ pc = "read" /\ k \in Pieces(BufferLen - left)
  /\ Consume(k)
  /\ buf' = Ended(Put(buf, left, Take(k)), left + k)
  /\ limit' = left + k /\ pos' = 0
  /\ pc' = "parse"
  /\ UNCHANGED <<call, left, parser, received, expired, result, open, given>>

\* TC_IOT_NET_NOTHING_READ: once more, unless the time is up.
ReadNothing ==
  /\ pc = "read" /\ expired
  /\ Finish(Failed, TRUE)
  /\ UNCHANGED <<call, wire, buf, left, parsing, received, expired, given>>

-----------------------------------------------------------------------------
(* tc_iot_http_parser_analysis: one action per state *)

Ahead == SubSeq(buf, pos + 1, limit)
In(state) == pc = "parse" /\ parser.state = state
\* The parser goes on, or stops here for the time being.
GoOn(n, p) == pos' = pos + n /\ parser' = p /\ pc' = pc
StopAt(n) == pos' = pos + n /\ pc' = "parsed" /\ UNCHANGED parser
ParserFails == Finish(Failed, TRUE) /\ UNCHANGED <<pos, parser>>
Parsing == UNCHANGED <<call, wire, buf, left, limit, received, expired, given>>

\* Everything given is consumed.
ParseOut ==
  /\ pc = "parse" /\ pos = limit
  /\ StopAt(0) /\ UNCHANGED <<result, open>> /\ Parsing

\* The status line needs 13 bytes.
ParseStart ==
  /\ In("start") /\ Ahead # <<>>
  /\ IF Len(Ahead) < 2 THEN StopAt(0) /\ UNCHANGED <<result, open>>
     ELSE IF Ahead[1] \notin {"200", "206", "404"} THEN ParserFails
     ELSE GoOn(1, [parser EXCEPT !.status = Ahead[1], !.state = "to_return"]) /\ UNCHANGED <<result, open>>
  /\ Parsing

ParseToReturn ==
  /\ In("to_return") /\ Ahead # <<>>
  /\ IF Contains(Ahead, "cr")
     THEN GoOn(CHOOSE n \in 1..Len(Ahead) : Ahead[n] = "cr" /\ ~Contains(SubSeq(Ahead, 1, n - 1), "cr"),
               [parser EXCEPT !.state = "newline"])
     ELSE StopAt(Len(Ahead))
  /\ UNCHANGED <<result, open>> /\ Parsing

ParseNewline ==
  /\ In("newline") /\ Ahead # <<>>
  /\ IF Ahead[1] = "lf" THEN GoOn(1, [parser EXCEPT !.state = "header"]) /\ UNCHANGED <<result, open>>
     ELSE ParserFails
  /\ Parsing

\* tc_iot_try_parse_int
DigitCount(s) == IF s = <<>> \/ ~IsDigit(s[1]) THEN 0
                 ELSE IF Len(s) = 1 \/ ~IsDigit(s[2]) THEN 1 ELSE 2
ParseInt(s) == CASE DigitCount(s) = 0 -> 0
                 [] DigitCount(s) = 1 -> Digit(s[1])
                 [] OTHER -> 10 * Digit(s[1]) + Digit(s[2])

\* (slip) a value taken before its line has ended
LineEndedAtOnce(value) == TRUE
\* tc_iot_http_has_line_ended.  Bound: a buffer filled to its last byte is followed by
\* a NUL, not by a carriage return.
LineEnded(value) == Contains(value, "cr")

\* A header whose line is incomplete is kept for the next read when its value matters.
ParseHeader ==
  LET value == SubSeq(Ahead, 3, Len(Ahead))
      skipped == [parser EXCEPT !.state = "to_return"]
  IN
  /\ In("header") /\ Ahead # <<>>
  /\ IF Ahead[1] = "cr" THEN GoOn(1, [parser EXCEPT !.state = "to_body"])
     ELSE IF ~Contains(Ahead, ":") \/ (Ahead[1] # "Age" /\ ~LineEnded(value)) THEN StopAt(0)
     ELSE GoOn(2, CASE Ahead[1] = "Content-Length" -> [skipped EXCEPT !.length = ParseInt(value)]
                    [] Ahead[1] = "Transfer-Encoding" -> [skipped EXCEPT !.chunked = TRUE]
                    [] OTHER -> skipped)
  /\ UNCHANGED <<result, open>> /\ Parsing

ParseToBody ==
  /\ In("to_body") /\ Ahead # <<>>
  /\ IF Ahead[1] # "lf" THEN ParserFails
     ELSE /\ pos' = pos + 1 /\ parser' = [parser EXCEPT !.state = "end"] /\ pc' = "parsed"
          /\ UNCHANGED <<result, open>>
  /\ Parsing

\* What the parser left moves to the front.  The status is looked at after every read,
\* also while the status line is incomplete.
Parsed ==
  LET rest == SubSeq(buf, pos + 1, limit) IN
  /\ pc = "parsed"
  /\ left' = limit - pos
  /\ buf' = IF rest = <<>> THEN buf ELSE Ended(Put(buf, 0, rest), Len(rest))
  /\ IF parser.status \notin {"200", "206"} THEN Finish(Failed, TRUE)
     ELSE IF parser.state = "end" THEN pc' = "body" /\ UNCHANGED <<result, open>>
     ELSE IF expired THEN Finish(Success(limit), TRUE)
     ELSE pc' = "read" /\ UNCHANGED <<result, open>>
  /\ UNCHANGED <<call, wire, parsing, received, expired, given>>

-----------------------------------------------------------------------------
(* The body *)

\* (slip) an offset that is added to itself
GiveTwice(data, offset) == given' = [data |-> given.data \o data, offset |-> given.offset + offset]
Give(data, offset) == given' = [data |-> given.data \o data, offset |-> offset]

\* A HEAD is over and leaves the socket open; a body larger than the buffer goes to the
\* callback, which may give up.
BodyStarts ==
  /\ pc = "body"
  /\ received' = left
  /\ IF call.head THEN Finish(Success(0), FALSE) /\ UNCHANGED given
     ELSE IF parser.length > BufferLen
     THEN IF ~call.callback THEN Finish(Failed, TRUE) /\ UNCHANGED given
          ELSE /\ Give(Prefix(left), left)
               /\ \/ pc' = "stream" /\ UNCHANGED <<result, open>>
                  \/ Finish(Failed, FALSE)
     ELSE /\ pc' = IF parser.chunked THEN "chunks" ELSE "identity"
          /\ UNCHANGED <<result, open, given>>
  /\ UNCHANGED <<call, wire, buf, left, parsing, expired>>

\* The rest of a large body: each piece to the front of the buffer and to the callback.  What
\* is added to received_bytes after it is do_connect's result, 0.
Stream(k) ==
  /\ pc = "stream" /\ k \in Pieces(BufferLen - 1)
  /\ Consume(k)
  /\ buf' = Ended(Put(buf, 0, Take(k)), k)
  /\ received' = received + k
  /\ Give(Take(k), received + k)
  /\ \/ IF received + k >= parser.length THEN Finish(Success(0), TRUE)
        ELSE UNCHANGED <<pc, result, open>>
     \/ Finish(Failed, FALSE)
  /\ UNCHANGED <<call, left, parsing, expired>>

\* More of a body that is collected in the buffer; no NUL follows it.
More(k) ==
  /\ k \in Pieces(BufferLen - received)
  /\ Consume(k)
  /\ buf' = Put(buf, received, Take(k))
  /\ received' = received + k
  /\ UNCHANGED <<call, pc, left, parsing, expired, result, open, given>>

ReadIdentity(k) == pc = "identity" /\ received < parser.length /\ More(k)

\* (slip) one byte more than the header promises
WholeIsOneMore == received > parser.length
Whole == received >= parser.length

IdentityEnds ==
  /\ pc = "identity" /\ Whole
  /\ Finish(Success(received), TRUE)
  /\ UNCHANGED <<call, wire, buf, left, parsing, received, expired, given>>

\* tc_iot_try_parse_hex at p: the digits and their value.
ByteAt(p) == IF p < BufferLen THEN buf[p + 1] ELSE Nul
SizeAt(p) ==
  LET c == IF ~IsDigit(ByteAt(p)) THEN 0 ELSE IF ~IsDigit(ByteAt(p + 1)) THEN 1 ELSE 2
  IN [count |-> c, value |-> CASE c = 0 -> 0
                               [] c = 1 -> Digit(ByteAt(p))
                               [] OTHER -> 16 * Digit(ByteAt(p)) + Digit(ByteAt(p + 1))]
LastAt(p) == SizeAt(p) = [count |-> 1, value |-> 0]

\* tc_iot_http_is_complete_chunk of the n bytes received
CompleteChunks(n) ==
  LET complete[p \in Nat] ==
        /\ p <= n
        /\ \/ LastAt(p)
           \/ /\ n >= p + SizeAt(p).value + 2
              /\ complete[p + SizeAt(p).count + 2 + SizeAt(p).value + 2]
  IN complete[0]

\* tc_iot_http_merge_chunk: the data of the chunks, where it stopped, and whether it met
\* the last chunk.
MergeChunks(n) ==
  LET merge[p \in Nat] ==
        LET from == p + SizeAt(p).count + 2
            to == from + SizeAt(p).value
        IN CASE p > n -> [data |-> <<>>, end |-> p, ended |-> FALSE]
             [] p <= n /\ LastAt(p) -> [data |-> <<>>, end |-> from + 2, ended |-> TRUE]
             [] p <= n /\ ~LastAt(p) /\ n < to + 2 -> [data |-> <<>>, end |-> from, ended |-> FALSE]
             [] OTHER -> [merge[to + 2] EXCEPT !.data = SubSeq(buf, from + 1, to) \o @]
  IN merge[0]

ReadChunk(k) == pc = "chunks" /\ ~CompleteChunks(received) /\ More(k)

\* The last chunk's size has come; all of the reply must have.
ChunksEnd ==
  /\ pc = "chunks" /\ CompleteChunks(received)
  /\ \E m \in {MergeChunks(received)} :
       /\ buf' = IF m.data = <<>> THEN buf ELSE Ended(Put(buf, 0, m.data), Len(m.data))
       /\ Finish(IF m.end = received /\ m.data # <<>> /\ m.ended THEN Success(received) ELSE Failed, TRUE)
  /\ UNCHANGED <<call, wire, left, parsing, received, expired, given>>

-----------------------------------------------------------------------------

TimerExpires ==
  /\ pc # "done" /\ ~expired
  /\ expired' = TRUE
  /\ UNCHANGED <<call, wire, pc, buf, left, parsing, received, result, open, given>>

Receive == \E k \in 1..BufferLen : ReadHeader(k) \/ Stream(k) \/ ReadIdentity(k) \/ ReadChunk(k)

Parse == ParseOut \/ ParseStart \/ ParseToReturn \/ ParseNewline \/ ParseHeader \/ ParseToBody \/ Parsed

ClientStep == Send \/ Parse \/ ReadNothing \/ BodyStarts \/ IdentityEnds \/ ChunksEnd

Next == ClientStep \/ Receive \/ ReadError \/ TimerExpires

Spec == Init /\ [][Next]_vars

\* The client runs and time passes.
FairSpec == Spec /\ WF_vars(ClientStep \/ TimerExpires)

-----------------------------------------------------------------------------
(* Properties *)

\* However the reply is cut into reads, the parser finds the same length and encoding,
\* and what is left in the buffer goes on exactly where it stopped.
HeaderRead ==
  /\ pc = "body" =>
       /\ parser.length = (IF "length" \in reply.headers THEN Len(Body(reply)) ELSE 0)
       /\ parser.chunked = Chunked(reply)
  /\ pc \in {"read", "body"} /\ ~call.head => IsSuffix(Prefix(left) \o wire, OnWire(reply))

\* Every byte of a body reaches the caller once and in order.  One that is collected is
\* in the buffer from its first byte on when the call says so; one handed to the callback
\* comes with the offset it ends at, and is complete when the call succeeds.
InBody == parser.state = "end" /\ pc \in {"stream", "identity", "chunks", "done"}
BodyDelivered ==
  /\ IsPrefix(given.data, Body(reply)) /\ given.offset = Len(given.data)
  /\ InBody /\ result.kind = "ok" /\ ~call.head =>
       IF parser.length > BufferLen THEN given.data = Body(reply)
       ELSE Prefix(Len(Body(reply))) = Body(reply)

\* Until the body starts the timer ends the call; after that only the server does, when
\* it sends on.
Awaited ==
  wire # <<>> /\ (pc \in {"stream", "identity", "chunks"} \/ (pc = "read" /\ left < BufferLen))
ServerAnswers == ([]<>Awaited) => ([]<><<wire' # wire>>_wire)
PerformEnds ==
  /\ <>(pc \in {"done", "stream", "identity", "chunks"})
  /\ ServerAnswers => <>(pc = "done")
=============================================================================
