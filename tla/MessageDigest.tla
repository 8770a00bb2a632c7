---------------------------- MODULE MessageDigest ----------------------------
\* How md5, sha256 and the HMAC over it take a message in pieces: what of it waits in the
\* buffer, the count of its length in words and bytes that overflow into one another, and the
\* padding.  The compression of a block is opaque: a digest stands for the blocks that made
\* it.  A byte of a message is its position, so that a lost, doubled or misplaced one shows.
EXTENDS Integers, Sequences, SequencesExt

CONSTANTS Block,        \* 64: bytes of a block
          Word,         \* 2^32: md5's total_low overflows here
          Pieces,       \* lengths the message may be cut into
          MaxMessage,
          KeyLengths    \* lengths of the secrets

VARIABLES algorithm,    \* "md5" or "hmac"
          fed,          \* length of the message so far
          md5, sha,     \* tc_iot_md5_t and the sha of tc_iot_hmac_sha256_t
          key,          \* hmac.key as it was before the exclusive or; its length in secret
          hashes        \* blocks of every digest finished, in order

hashVars == <<algorithm, fed, md5, sha, key, hashes>>

Terminator == -2         \* 0x80, told from every byte of a message
Zeros(n) == [i \in 1..n |-> 0]
Positions(from, n) == [i \in 1..n |-> from + i]

---------------------------------------------------------------------------
(* md5. *)

Md5New == [low |-> 0, high |-> 0, buffer |-> Zeros(Block), blocks |-> <<>>]

Md5Process(s, block) == [s EXCEPT !.blocks = @ \o block]

\* memcpy into the buffer, from place left on.
Copied(buffer, left, input) ==
  [i \in 1..Block |-> IF i > left /\ i <= left + Len(input) THEN input[i - left] ELSE buffer[i]]

Md5Counted(s, n) ==
  LET low == (s.low + n) % Word IN
  [s EXCEPT !.low = low, !.high = IF low < n THEN (@ + 1) % Word ELSE @]

\* Complete the block that waits, process whole blocks of the input, keep the rest.
Md5Update(s, input) ==
  LET left == s.low % Block
      padding == Block - left
      counted == Md5Counted(s, Len(input))
      completes == left > 0 /\ Len(input) >= padding
      begun == IF completes
               THEN LET full == Copied(s.buffer, left, SubSeq(input, 1, padding)) IN
                    [Md5Process(counted, full) EXCEPT !.buffer = full]
               ELSE counted
      rest == IF completes THEN SubSeq(input, padding + 1, Len(input)) ELSE input
      whole == (Len(rest) \div Block) * Block
      from == IF completes THEN 0 ELSE left
      done == Md5Process(begun, SubSeq(rest, 1, whole)) IN
  [done EXCEPT !.buffer = Copied(@, from, SubSeq(rest, whole + 1, Len(rest)))]

\* Two words of the length in bits; 1 word stands for 4 bytes of the block.
Md5Length(s) == <<(s.low * 8) % Word, (s.low \div (Word \div 8) + s.high * 8) % Word>>
Md5Padding(left) == IF left < Block - 2 THEN Block - 2 - left ELSE 2 * Block - 2 - left

Md5Finish(s) ==
  LET padded == Md5Update(s, <<Terminator>> \o Zeros(Md5Padding(s.low % Block) - 1)) IN
  Md5Update(padded, Md5Length(s)).blocks

---------------------------------------------------------------------------
(* sha256 and HMAC. *)

\* The length in bits, most significant first, in digits of a byte; half a block of bytes
\* fills the last of them.
Radix256 == 4 * Block
Digit256(n, i) == ((n * 8) \div Radix256^(3 - i)) % Radix256

ShaNew == [len |-> <<0, 0, 0>>, buffer |-> Zeros(Block), blocks |-> <<>>]

\* Digit i overflows: the ones before it are incremented up to the first that does not.
Carried(len, i) ==
  LET passes(j) == \A k \in (j + 1)..(i - 1) : len[k] = Radix256 - 1 IN
  [j \in 1..3 |-> IF j < i /\ passes(j) THEN (len[j] + 1) % Radix256 ELSE len[j]]

\* Mutation: no carry when the sum is just one more than fits.
DigitAddedLate(len, i, bits) ==
  LET carried == IF len[i] + bits > Radix256 THEN Carried(len, i) ELSE len IN
  [carried EXCEPT ![i] = (@ + bits) % Radix256]
DigitAdded(len, i, bits) ==
  LET carried == IF len[i] + bits > Radix256 - 1 THEN Carried(len, i) ELSE len IN
  [carried EXCEPT ![i] = (@ + bits) % Radix256]

LengthAdded(len, n) ==
  DigitAdded(DigitAdded(DigitAdded(len, 3, Digit256(n, 3)), 2, Digit256(n, 2)), 1, Digit256(n, 1))

\* Bytes of the unfinished block according to len, and the place of the next byte when left
\* bytes of the input, already counted in len, are still to come.
InBlock(len) == (len[2] % 2) * (Block \div 2) + len[3] \div 8
PlaceOf(len, left) == (InBlock(len) + (Block - (left % Block))) % Block

\* The buffer is or-ed with the byte: two bytes in one place are neither.
Mixed == -1
OrInto(old, byte) == IF old = 0 THEN byte ELSE IF byte = 0 THEN old ELSE Mixed

ShaUpdate(s, input) ==
  LET len == LengthAdded(s.len, Len(input))
      absorb(acc, byte) ==
        LET buffer == [i \in 1..Block |-> IF i = acc.place + 1 THEN OrInto(acc.buffer[i], byte)
                                                           ELSE acc.buffer[i]] IN
        IF acc.place + 1 = Block
        THEN [buffer |-> Zeros(Block), blocks |-> acc.blocks \o buffer,
              left |-> acc.left - 1, place |-> PlaceOf(len, acc.left - 1)]
        ELSE [acc EXCEPT !.buffer = buffer, !.left = @ - 1, !.place = @ + 1]
      end == FoldLeft(absorb, [buffer |-> s.buffer, blocks |-> s.blocks, left |-> Len(input),
                               place |-> PlaceOf(len, Len(input))], input) IN
  [len |-> len, buffer |-> end.buffer, blocks |-> end.blocks]

\* 9 bytes must fit: the terminator and 8 of length, here 3.
ShaTail(len) ==
  LET n == Block - InBlock(len)
      size == IF n < 4 THEN n + Block ELSE n IN
  <<Terminator>> \o Zeros(size - 4) \o len

ShaFinish(s, input) ==
  LET all == ShaUpdate(s, input) IN ShaUpdate(all, ShaTail(all.len)).blocks

\* Bytes exclusive-ored with 0x36 and 0x5c, and the digest that a secret longer than a block
\* is replaced by.
Inner(k) == [i \in 1..Block |-> 1000 + k[i]]
Outer(k) == [i \in 1..Block |-> 2000 + k[i]]
DigestSize == Block \div 2
DigestBytes == Positions(500, DigestSize)
KeyOf(n) ==
  IF n <= Block THEN Positions(0, n) \o Zeros(Block - n) ELSE DigestBytes \o Zeros(Block - DigestSize)

\* tc_iot_hmac_sha256_init
HmacInit(n) ==
  /\ algorithm = "hmac" /\ key = <<>>
  /\ key' = KeyOf(n)
  /\ hashes' = IF n <= Block THEN <<>> ELSE <<ShaFinish(ShaNew, Positions(0, n))>>
  /\ sha' = ShaUpdate(ShaNew, Inner(KeyOf(n)))
  /\ UNCHANGED <<algorithm, fed, md5>>

\* tc_iot_calc_sign: a literal of the format up to the next %, or an argument as text.  All
\* formats end with an argument; of a literal at the end the last byte would be left out.
SignPiece(n) ==
  /\ algorithm = "hmac" /\ key # <<>> /\ fed + n <= MaxMessage
  /\ sha' = ShaUpdate(sha, Positions(fed, n))
  /\ fed' = fed + n
  /\ UNCHANGED <<algorithm, md5, key, hashes>>

\* tc_iot_hmac_sha256_finish with no more text.
SignEnds ==
  /\ algorithm = "hmac" /\ key # <<>>
  /\ hashes' = hashes \o <<ShaFinish(sha, <<>>),
                           ShaFinish(ShaUpdate(ShaNew, Outer(key)), DigestBytes)>>
  /\ algorithm' = "done"
  /\ UNCHANGED <<fed, md5, sha, key>>

\* One received part of a download goes through tc_iot_md5_update.
Md5Piece(n) ==
  /\ algorithm = "md5" /\ fed + n <= MaxMessage
  /\ md5' = Md5Update(md5, Positions(fed, n))
  /\ fed' = fed + n
  /\ UNCHANGED <<algorithm, sha, key, hashes>>

Md5Ends ==
  /\ algorithm = "md5"
  /\ hashes' = <<Md5Finish(md5)>>
  /\ algorithm' = "done"
  /\ UNCHANGED <<fed, md5, sha, key>>

HashInit ==
  /\ algorithm \in {"md5", "hmac"} /\ fed = 0
  /\ md5 = Md5New /\ sha = ShaNew /\ key = <<>> /\ hashes = <<>>

HashNext ==
  \/ \E n \in KeyLengths : HmacInit(n)
  \/ \E n \in Pieces : SignPiece(n) \/ Md5Piece(n)
  \/ SignEnds \/ Md5Ends

---------------------------------------------------------------------------
(* The reference: the whole message at once, padded to blocks. *)

Padded(message, length) ==
  LET used == (Len(message) + 1 + Len(length)) % Block IN
  message \o <<Terminator>> \o Zeros((Block - used) % Block) \o length

Md5Reference(n) ==
  Padded(Positions(0, n), <<(n * 8) % Word, ((n * 8) \div Word) % Word>>)
ShaReference(message) ==
  Padded(message, [i \in 1..3 |-> Digit256(Len(message), i)])

\* However a message is cut into pieces, the blocks that are hashed are those of the whole
\* message with its padding and length: md5 over the parts of a download, and the inner and
\* outer hash of a signature over the parts of its text, with a secret of any length.
WholeMessageHashed ==
  algorithm = "done" =>
    IF key = <<>> THEN hashes = <<Md5Reference(fed)>>
    ELSE LET last == Len(hashes) IN
         /\ hashes[last - 1] = ShaReference(Inner(key) \o Positions(0, fed))
         /\ hashes[last] = ShaReference(Outer(key) \o DigestBytes)
         /\ last = 3 => \E n \in KeyLengths : n > Block /\ hashes[1] = ShaReference(Positions(0, n))
=============================================================================
