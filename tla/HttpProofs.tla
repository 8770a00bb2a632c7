----------------------------- MODULE HttpProofs -----------------------------
(***************************************************************************)
(* Theorems about HttpClient and HttpServices, for every set of calls and  *)
(* replies and for every way a reply may be cut into reads.                *)
(*                                                                         *)
(* The invariant follows one position through the call: what the parser    *)
(* has consumed is a prefix of the reply, what is in the buffer is the     *)
(* part of it that was read last, and the state of the parser tells at     *)
(* which line of the header it is and what it has found so far.            *)
(*                                                                         *)
(* What chunks are made of is not proved: MergeChunks and CompleteChunks   *)
(* are recursive over the buffer.  What the services take from a text is   *)
(* left to TLC.                                                            *)
(***************************************************************************)
EXTENDS HttpServices, SequenceTheorems, TLAPS

-----------------------------------------------------------------------------
(* Symbols and sequences of them *)

\* What a byte of the wire or the buffer may be; the provers do not know of a literal that it
\* is a string.
Symbols ==
  STRING \cup {Digits[k + 1] : k \in 0..9}
         \cup {"cr", "lf", "nul", "request", "reason", ":", "Age", "Content-Length",
               "Transfer-Encoding", "chunked"}

\* Where the lines of a header begin, counted from 0: Content-Length, Transfer-Encoding and
\* the empty one.
LengthLine(r) == 4 + (IF "other" \in r.headers THEN 5 ELSE 0)
ChunkedLine(r) == LengthLine(r) + (IF "length" \in r.headers THEN 6 ELSE 0)
LastLine(r) == ChunkedLine(r) + (IF "chunked" \in r.headers THEN 5 ELSE 0)

Joins(s, t, u) ==
  /\ u \in Seq(Symbols) /\ Len(u) = Len(s) + Len(t) /\ Len(s) \in Nat /\ Len(t) \in Nat
  /\ \A i \in 1..Len(s) : u[i] = s[i]
  /\ \A i \in 1..Len(t) : u[Len(s) + i] = t[i]

LEMMA Joined ==
  ASSUME NEW s \in Seq(Symbols), NEW t \in Seq(Symbols), NEW u, u = s \o t PROVE Joins(s, t, u)
<1>1. u \in Seq(Symbols) /\ Len(u) = Len(s) + Len(t) /\ Len(s) \in Nat /\ Len(t) \in Nat
  OBVIOUS
<1>2. \A i \in 1..Len(u) : u[i] = IF i <= Len(s) THEN s[i] ELSE t[i - Len(s)]
  BY <1>1
<1>3. \A i \in 1..Len(s) : u[i] = s[i]
  BY <1>1, <1>2
<1>4. ASSUME NEW i \in 1..Len(t) PROVE u[Len(s) + i] = t[i]
  <2>1. Len(s) + i \in 1..Len(u) /\ ~(Len(s) + i <= Len(s)) /\ Len(s) + i - Len(s) = i
    BY <1>1
  <2> QED BY <1>2, <2>1
<1> QED BY <1>1, <1>3, <1>4 DEF Joins

LEMMA DigitsAre ==
  ASSUME NEW n \in Nat, n < 100, NEW d, d = Number(n)
  PROVE  /\ d \in Seq(Symbols) /\ Len(d) = 2
         /\ d[1] = Digits[(n \div 10) + 1] /\ d[2] = Digits[(n % 10) + 1]
         /\ IsDigit(d[1]) /\ IsDigit(d[2])
         /\ 10 * Digit(d[1]) + Digit(d[2]) = n
         /\ d[1] # "cr" /\ d[2] # "cr"
<1> DEFINE a == n \div 10
           b == n % 10
<1>1. a \in 0..9 /\ b \in 0..9 /\ n = 10 * a + b
  OBVIOUS
<1>2. /\ Digits[1] = "0" /\ Digits[2] = "1" /\ Digits[3] = "2" /\ Digits[4] = "3"
      /\ Digits[5] = "4" /\ Digits[6] = "5" /\ Digits[7] = "6" /\ Digits[8] = "7"
      /\ Digits[9] = "8" /\ Digits[10] = "9"
  BY DEF Digits
<1>0. \A k \in 0..9 : k \in {0, 1, 2, 3, 4, 5, 6, 7, 8, 9}
  OBVIOUS
<1>3. \A k \in 0..9 : Digits[k + 1] \in Symbols /\ Digits[k + 1] # "cr"
  <2> SUFFICES ASSUME NEW k \in {0, 1, 2, 3, 4, 5, 6, 7, 8, 9}
               PROVE  Digits[k + 1] \in Symbols /\ Digits[k + 1] # "cr"
    BY <1>0
  <2>1. Digits[k + 1] # "cr"
    BY <1>2
  <2>2. k \in 0..9
    OBVIOUS
  <2> QED BY <2>1, <2>2 DEF Symbols
<1>4. \A j, k \in 0..9 : Digits[j + 1] = Digits[k + 1] => j = k
  <2> SUFFICES ASSUME NEW j \in {0, 1, 2, 3, 4, 5, 6, 7, 8, 9},
                      NEW k \in {0, 1, 2, 3, 4, 5, 6, 7, 8, 9},
                      Digits[j + 1] = Digits[k + 1]
               PROVE  j = k
    BY <1>0
  <2> QED BY <1>2
<1>5. \A k \in 0..9 : IsDigit(Digits[k + 1]) /\ Digit(Digits[k + 1]) = k
  BY <1>4 DEF IsDigit, Digit
<1>6. d = <<Digits[a + 1], Digits[b + 1]>>
  BY DEF Number
<1> HIDE DEF a, b
<1>7. /\ d \in Seq(Symbols) /\ Len(d) = 2
      /\ d[1] = Digits[a + 1] /\ d[2] = Digits[b + 1]
  <2>1. PICK x \in Symbols : x = Digits[a + 1]
    BY <1>1, <1>3
  <2>2. PICK y \in Symbols : y = Digits[b + 1]
    BY <1>1, <1>3
  <2>3. d = <<x, y>>
    BY <1>6, <2>1, <2>2
  <2>4. d \in Seq(Symbols) /\ Len(d) = 2 /\ d[1] = x /\ d[2] = y
    BY <2>1, <2>2, <2>3
  <2> QED BY <2>1, <2>2, <2>4
<1>8. 10 * Digit(d[1]) + Digit(d[2]) = n /\ IsDigit(d[1]) /\ IsDigit(d[2])
  BY <1>1, <1>5, <1>7
<1>9. d[1] # "cr" /\ d[2] # "cr"
  BY <1>1, <1>3, <1>7
<1> QED BY <1>7, <1>8, <1>9 DEF a, b

LEMMA SymbolsAre ==
  /\ "cr" \in Symbols /\ "lf" \in Symbols /\ "nul" \in Symbols /\ "request" \in Symbols
  /\ "reason" \in Symbols /\ ":" \in Symbols /\ "Age" \in Symbols /\ "0" \in Symbols
  /\ "Content-Length" \in Symbols /\ "Transfer-Encoding" \in Symbols /\ "chunked" \in Symbols
  /\ STRING \subseteq Symbols
<1>1. "0" = Digits[0 + 1] /\ 0 \in 0..9
  BY DEF Digits
<1> QED BY <1>1 DEF Symbols

LEMMA CrlfIs == Crlf \in Seq(Symbols) /\ Len(Crlf) = 2 /\ Crlf[1] = "cr" /\ Crlf[2] = "lf"
<1>1. PICK x \in Symbols, y \in Symbols : x = "cr" /\ y = "lf"
  BY SymbolsAre
<1>2. Crlf = <<x, y>>
  BY <1>1 DEF Crlf
<1> QED BY <1>1, <1>2

\* The three lines of a header.
LEMMA OtherHeader ==
  ASSUME NEW r, NEW h, h = Header(r, "other")
  PROVE  /\ h \in Seq(Symbols) /\ Len(h) = 5
         /\ h[1] = "Age" /\ h[2] = ":" /\ h[3] = "0" /\ h[4] = "cr" /\ h[5] = "lf"
<1>1. PICK x \in Symbols, y \in Symbols, z \in Symbols : x = "Age" /\ y = ":" /\ z = "0"
  BY SymbolsAre
<1>2. PICK s : s = <<x, y, z>>
  OBVIOUS
<1>3. s \in Seq(Symbols) /\ Len(s) = 3 /\ s[1] = x /\ s[2] = y /\ s[3] = z
  BY <1>1, <1>2
<1>4. h = s \o Crlf
  BY <1>1, <1>2 DEF Header
<1>5. Joins(s, Crlf, h)
  BY <1>3, <1>4, CrlfIs, Joined
<1>6. /\ Len(h) = 5 /\ h[1] = s[1] /\ h[2] = s[2] /\ h[3] = s[3]
      /\ h[3 + 1] = Crlf[1] /\ h[3 + 2] = Crlf[2]
  BY <1>3, <1>5, CrlfIs DEF Joins
<1> QED BY <1>1, <1>3, <1>5, <1>6, CrlfIs DEF Joins

LEMMA ChunkedHeader ==
  ASSUME NEW r, NEW h, h = Header(r, "chunked")
  PROVE  /\ h \in Seq(Symbols) /\ Len(h) = 5
         /\ h[1] = "Transfer-Encoding" /\ h[2] = ":" /\ h[3] = "chunked"
         /\ h[4] = "cr" /\ h[5] = "lf"
<1>1. PICK x \in Symbols, y \in Symbols, z \in Symbols :
         x = "Transfer-Encoding" /\ y = ":" /\ z = "chunked"
  BY SymbolsAre
<1>2. PICK s : s = <<x, y, z>>
  OBVIOUS
<1>3. s \in Seq(Symbols) /\ Len(s) = 3 /\ s[1] = x /\ s[2] = y /\ s[3] = z
  BY <1>1, <1>2
<1>4. h = s \o Crlf
  BY <1>1, <1>2 DEF Header
<1>5. Joins(s, Crlf, h)
  BY <1>3, <1>4, CrlfIs, Joined
<1>6. /\ Len(h) = 5 /\ h[1] = s[1] /\ h[2] = s[2] /\ h[3] = s[3]
      /\ h[3 + 1] = Crlf[1] /\ h[3 + 2] = Crlf[2]
  BY <1>3, <1>5, CrlfIs DEF Joins
<1> QED BY <1>1, <1>3, <1>5, <1>6, CrlfIs DEF Joins

LEMMA LengthHeader ==
  ASSUME NEW r, NEW n \in Nat, n = Len(Body(r)), n < 100, NEW h, h = Header(r, "length")
  PROVE  /\ h \in Seq(Symbols) /\ Len(h) = 6
         /\ h[1] = "Content-Length" /\ h[2] = ":" /\ h[5] = "cr" /\ h[6] = "lf"
         /\ h[3] # "cr" /\ h[4] # "cr" /\ IsDigit(h[3]) /\ IsDigit(h[4])
         /\ 10 * Digit(h[3]) + Digit(h[4]) = n
<1>1. PICK x \in Symbols, y \in Symbols : x = "Content-Length" /\ y = ":"
  BY SymbolsAre
<1>2. PICK s : s = <<x, y>>
  OBVIOUS
<1>3. s \in Seq(Symbols) /\ Len(s) = 2 /\ s[1] = x /\ s[2] = y
  BY <1>1, <1>2
<1>4. PICK d : d = Number(n)
  OBVIOUS
<1>5. /\ d \in Seq(Symbols) /\ Len(d) = 2 /\ IsDigit(d[1]) /\ IsDigit(d[2])
      /\ 10 * Digit(d[1]) + Digit(d[2]) = n /\ d[1] # "cr" /\ d[2] # "cr"
  BY <1>4, DigitsAre
<1>6. PICK t : t = s \o d
  OBVIOUS
<1>7. h = t \o Crlf
  BY <1>1, <1>2, <1>4, <1>6 DEF Header
<1>8. Joins(s, d, t)
  BY <1>3, <1>5, <1>6, Joined
<1>9. t \in Seq(Symbols) /\ Len(t) = 4 /\ t[1] = s[1] /\ t[2] = s[2]
      /\ t[2 + 1] = d[1] /\ t[2 + 2] = d[2]
  BY <1>3, <1>5, <1>8 DEF Joins
<1>10. Joins(t, Crlf, h)
  BY <1>7, <1>9, CrlfIs, Joined
<1>11. /\ h \in Seq(Symbols) /\ Len(h) = 6
       /\ h[1] = t[1] /\ h[2] = t[2] /\ h[3] = t[3] /\ h[4] = t[4]
       /\ h[4 + 1] = Crlf[1] /\ h[4 + 2] = Crlf[2]
  BY <1>9, <1>10, CrlfIs DEF Joins
<1> QED BY <1>1, <1>3, <1>5, <1>9, <1>11, CrlfIs

-----------------------------------------------------------------------------
(* The header on the wire *)

\* A line of the header that begins at l and ends at e.
Line(w, l, e, name) ==
  /\ l + 5 <= e
  /\ w[l + 1] = name /\ w[l + 2] = ":" /\ w[e - 1] = "cr" /\ w[e] = "lf"
  /\ \A i \in (l + 1)..(e - 2) : w[i] # "cr"
Announces(w, l, n) ==
  IsDigit(w[l + 3]) /\ IsDigit(w[l + 4]) /\ 10 * Digit(w[l + 3]) + Digit(w[l + 4]) = n

\* A wire that begins with the header of r.
HeaderSymbols(r, w) ==
  /\ w \in Seq(Symbols) /\ LastLine(r) + 2 <= Len(w)
  /\ w[1] = r.status /\ w[2] = "reason" /\ w[3] = "cr" /\ w[4] = "lf"
  /\ "other" \in r.headers => Line(w, 4, LengthLine(r), "Age")
  /\ "length" \in r.headers => /\ Line(w, LengthLine(r), ChunkedLine(r), "Content-Length")
                               /\ Announces(w, LengthLine(r), Len(Body(r)))
  /\ "chunked" \in r.headers => Line(w, ChunkedLine(r), LastLine(r), "Transfer-Encoding")
  /\ w[LastLine(r) + 1] = "cr" /\ w[LastLine(r) + 2] = "lf"

LEMMA Lines ==
  ASSUME NEW r
  PROVE  /\ LengthLine(r) \in Nat /\ ChunkedLine(r) \in Nat /\ LastLine(r) \in Nat
         /\ 4 <= LengthLine(r) /\ LengthLine(r) <= ChunkedLine(r) /\ ChunkedLine(r) <= LastLine(r)
         /\ "other" \in r.headers => LengthLine(r) = 4 + 5
         /\ "length" \in r.headers => ChunkedLine(r) = LengthLine(r) + 6
         /\ "chunked" \in r.headers => LastLine(r) = ChunkedLine(r) + 5
         /\ "other" \notin r.headers => LengthLine(r) = 4
         /\ "length" \notin r.headers => ChunkedLine(r) = LengthLine(r)
         /\ "chunked" \notin r.headers => LastLine(r) = ChunkedLine(r)
BY DEF LengthLine, ChunkedLine, LastLine

\* A line added to what comes before it.
LEMMA LineJoined ==
  ASSUME NEW t \in Seq(Symbols), NEW h \in Seq(Symbols), NEW u, Joins(t, h, u),
         NEW k \in Nat, Len(h) = k, k >= 5, NEW name,
         h[1] = name, h[2] = ":", h[k - 1] = "cr", h[k] = "lf",
         \A i \in 1..(k - 2) : h[i] # "cr"
  PROVE  Line(u, Len(t), Len(t) + k, name)
<1> PICK l \in Nat : l = Len(t)
  OBVIOUS
<1>1. \A i \in 1..k : u[l + i] = h[i]
  BY DEF Joins
<1>2. u[l + 1] = h[1] /\ u[l + 2] = h[2] /\ u[l + (k - 1)] = h[k - 1] /\ u[l + k] = h[k]
  BY <1>1
<1>3. l + (k - 1) = l + k - 1
  OBVIOUS
<1>4. ASSUME NEW i \in (l + 1)..(l + k - 2) PROVE u[i] # "cr"
  <2>1. i - l \in 1..(k - 2) /\ i - l \in 1..k /\ l + (i - l) = i
    OBVIOUS
  <2> QED BY <1>1, <2>1
<1> QED BY <1>2, <1>3, <1>4 DEF Line

\* A line stays where it is when more is added.
LEMMA LineKept ==
  ASSUME NEW t, NEW u, NEW m \in Nat, \A i \in 1..m : u[i] = t[i],
         NEW l \in Nat, NEW e \in Nat, e <= m, NEW name, Line(t, l, e, name)
  PROVE  Line(u, l, e, name)
<1>1. l + 5 <= e
  BY DEF Line
<1>2. l + 1 \in 1..m /\ l + 2 \in 1..m /\ e - 1 \in 1..m /\ e \in 1..m
  BY <1>1
<1>3. \A i \in (l + 1)..(e - 2) : i \in 1..m
  OBVIOUS
<1> QED BY <1>1, <1>2, <1>3 DEF Line

LEMMA AnnouncesKept ==
  ASSUME NEW t, NEW u, NEW m \in Nat, \A i \in 1..m : u[i] = t[i],
         NEW l \in Nat, l + 4 <= m, NEW n, Announces(t, l, n)
  PROVE  Announces(u, l, n)
<1>1. l + 3 \in 1..m /\ l + 4 \in 1..m
  OBVIOUS
<1> QED BY <1>1 DEF Announces

LEMMA HeaderKept ==
  ASSUME NEW r, NEW t, HeaderSymbols(r, t),
         NEW u \in Seq(Symbols), NEW m \in Nat, m = LastLine(r) + 2, m <= Len(u),
         \A i \in 1..m : u[i] = t[i]
  PROVE  HeaderSymbols(r, u)
<1>1. /\ 1 \in 1..m /\ 2 \in 1..m /\ 3 \in 1..m /\ 4 \in 1..m
      /\ LastLine(r) + 1 \in 1..m /\ LastLine(r) + 2 \in 1..m
  BY Lines
<1>2. "other" \in r.headers => Line(u, 4, LengthLine(r), "Age")
  <2>1. LengthLine(r) \in Nat /\ LengthLine(r) <= m
    BY Lines
  <2>2. PICK l \in Nat : l = 4
    OBVIOUS
  <2>3. "other" \in r.headers => Line(t, l, LengthLine(r), "Age")
    BY <2>2 DEF HeaderSymbols
  <2>4. "other" \in r.headers => Line(u, l, LengthLine(r), "Age")
    BY <2>1, <2>3, LineKept
  <2> QED BY <2>2, <2>4
<1>3. "length" \in r.headers => Line(u, LengthLine(r), ChunkedLine(r), "Content-Length")
  <2>1. LengthLine(r) \in Nat /\ ChunkedLine(r) \in Nat /\ ChunkedLine(r) <= m
    BY Lines
  <2>2. "length" \in r.headers => Line(t, LengthLine(r), ChunkedLine(r), "Content-Length")
    BY DEF HeaderSymbols
  <2> QED BY <2>1, <2>2, LineKept
<1>4. "chunked" \in r.headers => Line(u, ChunkedLine(r), LastLine(r), "Transfer-Encoding")
  <2>1. ChunkedLine(r) \in Nat /\ LastLine(r) \in Nat /\ LastLine(r) <= m
    BY Lines
  <2>2. "chunked" \in r.headers => Line(t, ChunkedLine(r), LastLine(r), "Transfer-Encoding")
    BY DEF HeaderSymbols
  <2> QED BY <2>1, <2>2, LineKept
<1>5. "length" \in r.headers => Announces(u, LengthLine(r), Len(Body(r)))
  <2>1. "length" \in r.headers => LengthLine(r) + 4 <= m
    BY Lines
  <2> QED BY <2>1, AnnouncesKept, Lines DEF HeaderSymbols
<1>6. /\ u[1] = r.status /\ u[2] = "reason" /\ u[3] = "cr" /\ u[4] = "lf"
      /\ u[LastLine(r) + 1] = "cr" /\ u[LastLine(r) + 2] = "lf"
  BY <1>1 DEF HeaderSymbols
<1> QED BY <1>2, <1>3, <1>4, <1>5, <1>6 DEF HeaderSymbols

StatusIs(w, x) ==
  /\ w \in Seq(Symbols) /\ Len(w) = 4
  /\ w[1] = x /\ w[2] = "reason" /\ w[3] = "cr" /\ w[4] = "lf"

LEMMA StatusLine ==
  ASSUME NEW x \in STRING, NEW w, w = <<x, "reason">> \o Crlf PROVE StatusIs(w, x)
<1>1. PICK a \in Symbols, b \in Symbols : a = x /\ b = "reason"
  BY SymbolsAre
<1>2. PICK s : s = <<a, b>>
  OBVIOUS
<1>3. s \in Seq(Symbols) /\ Len(s) = 2 /\ s[1] = a /\ s[2] = b
  BY <1>1, <1>2
<1>4. w = s \o Crlf
  BY <1>1, <1>2
<1>5. Joins(s, Crlf, w)
  BY <1>3, <1>4, CrlfIs, Joined
<1>6. Len(w) = 4 /\ w[1] = s[1] /\ w[2] = s[2] /\ w[2 + 1] = Crlf[1] /\ w[2 + 2] = Crlf[2]
  BY <1>3, <1>5, CrlfIs DEF Joins
<1>7. w \in Seq(Symbols)
  BY <1>5 DEF Joins
<1> QED BY <1>1, <1>3, <1>6, <1>7, CrlfIs DEF StatusIs

LEMMA EmptyJoined ==
  ASSUME NEW s \in Seq(Symbols), NEW u, u = s \o <<>> PROVE u = s
<1>1. s \o <<>> = s
  BY ConcatEmptySeq
<1> QED BY <1>1

\* A header line, which may be missing, is joined to what comes before.
LineAdded(r, name, t, u) ==
  /\ u \in Seq(Symbols) /\ \A i \in 1..Len(t) : u[i] = t[i]
  /\ name \notin r.headers => Len(u) = Len(t)
  /\ name \in r.headers =>
       /\ name = "other" => Len(u) = Len(t) + 5 /\ Line(u, Len(t), Len(u), "Age")
       /\ name = "chunked" => Len(u) = Len(t) + 5 /\ Line(u, Len(t), Len(u), "Transfer-Encoding")
       /\ name = "length" => /\ Len(u) = Len(t) + 6
                             /\ Line(u, Len(t), Len(u), "Content-Length")
                             /\ Announces(u, Len(t), Len(Body(r)))

LEMMA HeaderLineJoined ==
  ASSUME NEW r, NEW name \in {"other", "length", "chunked"},
         Body(r) \in Seq(STRING), "length" \in r.headers => Len(Body(r)) < 100,
         NEW t \in Seq(Symbols), NEW u, u = t \o HeaderLine(r, name)
  PROVE  LineAdded(r, name, t, u)
<1>1. CASE name \notin r.headers
  <2>1. u = t
    BY <1>1, EmptyJoined DEF HeaderLine
  <2> QED BY <1>1, <2>1 DEF LineAdded
<1>2. CASE name \in r.headers
  <2>1. PICK h : h = Header(r, name)
    OBVIOUS
  <2>2. u = t \o h
    BY <1>2, <2>1 DEF HeaderLine
  <2>3. CASE name = "other"
    <3>1. /\ h \in Seq(Symbols) /\ Len(h) = 5
          /\ h[1] = "Age" /\ h[2] = ":" /\ h[3] = "0" /\ h[4] = "cr" /\ h[5] = "lf"
      BY <2>1, <2>3, OtherHeader
    <3>2. Joins(t, h, u)
      BY <2>2, <3>1, Joined
    <3>3. PICK k \in Nat : k = 5
      OBVIOUS
    <3>4. \A i \in 1..(k - 2) : h[i] # "cr"
      BY <3>1, <3>3
    <3>5. /\ Len(h) = k /\ k >= 5 /\ h[1] = "Age" /\ h[2] = ":"
          /\ h[k - 1] = "cr" /\ h[k] = "lf"
      BY <3>1, <3>3
    <3>6. Line(u, Len(t), Len(t) + k, "Age")
      BY <3>1, <3>2, <3>4, <3>5, LineJoined
    <3>7. Len(u) = Len(t) + k
      BY <3>2, <3>5 DEF Joins
    <3> QED BY <1>2, <2>3, <3>2, <3>3, <3>6, <3>7 DEF Joins, LineAdded
  <2>4. CASE name = "chunked"
    <3>1. /\ h \in Seq(Symbols) /\ Len(h) = 5
          /\ h[1] = "Transfer-Encoding" /\ h[2] = ":" /\ h[3] = "chunked"
          /\ h[4] = "cr" /\ h[5] = "lf"
      BY <2>1, <2>4, ChunkedHeader
    <3>2. Joins(t, h, u)
      BY <2>2, <3>1, Joined
    <3>3. PICK k \in Nat : k = 5
      OBVIOUS
    <3>4. \A i \in 1..(k - 2) : h[i] # "cr"
      BY <3>1, <3>3
    <3>5. /\ Len(h) = k /\ k >= 5 /\ h[1] = "Transfer-Encoding" /\ h[2] = ":"
          /\ h[k - 1] = "cr" /\ h[k] = "lf"
      BY <3>1, <3>3
    <3>6. Line(u, Len(t), Len(t) + k, "Transfer-Encoding")
      BY <3>1, <3>2, <3>4, <3>5, LineJoined
    <3>7. Len(u) = Len(t) + k
      BY <3>2, <3>5 DEF Joins
    <3> QED BY <1>2, <2>4, <3>2, <3>3, <3>6, <3>7 DEF Joins, LineAdded
  <2>5. CASE name = "length"
    <3>0. PICK n \in Nat : n = Len(Body(r))
      OBVIOUS
    <3>1. /\ h \in Seq(Symbols) /\ Len(h) = 6
          /\ h[1] = "Content-Length" /\ h[2] = ":" /\ h[5] = "cr" /\ h[6] = "lf"
          /\ h[3] # "cr" /\ h[4] # "cr" /\ IsDigit(h[3]) /\ IsDigit(h[4])
          /\ 10 * Digit(h[3]) + Digit(h[4]) = n
      <4>1. n < 100
        BY <1>2, <2>5, <3>0
      <4>2. h = Header(r, "length")
        BY <2>1, <2>5
      <4> QED BY <3>0, <4>1, <4>2, LengthHeader
    <3>2. Joins(t, h, u)
      BY <2>2, <3>1, Joined
    <3>3. PICK k \in Nat : k = 6
      OBVIOUS
    <3>4. \A i \in 1..(k - 2) : h[i] # "cr"
      BY <3>1, <3>3
    <3>5. /\ Len(h) = k /\ k >= 5 /\ h[1] = "Content-Length" /\ h[2] = ":"
          /\ h[k - 1] = "cr" /\ h[k] = "lf"
      BY <3>1, <3>3
    <3>6. Line(u, Len(t), Len(t) + k, "Content-Length")
      BY <3>1, <3>2, <3>4, <3>5, LineJoined
    <3>7. Len(u) = Len(t) + k
      BY <3>2, <3>5 DEF Joins
    <3>8. u[Len(t) + 3] = h[3] /\ u[Len(t) + 4] = h[4]
      <4>1. \A i \in 1..k : u[Len(t) + i] = h[i]
        BY <3>2, <3>5 DEF Joins
      <4>2. 3 \in 1..k /\ 4 \in 1..k
        BY <3>3
      <4> QED BY <4>1, <4>2
    <3>9. Announces(u, Len(t), Len(Body(r)))
      BY <3>0, <3>1, <3>8 DEF Announces
    <3> QED BY <1>2, <2>5, <3>2, <3>3, <3>6, <3>7, <3>9 DEF Joins, LineAdded
  <2> QED BY <2>3, <2>4, <2>5
<1> QED BY <1>1, <1>2

LEMMA HeaderIs ==
  ASSUME NEW r, r.status \in STRING, Body(r) \in Seq(STRING),
         "length" \in r.headers => Len(Body(r)) < 100
  PROVE  HeaderSymbols(r, HeaderOnWire(r)) /\ Len(HeaderOnWire(r)) = LastLine(r) + 2
<1>1. PICK a : a = <<r.status, "reason">> \o Crlf
  OBVIOUS
<1>2. PICK b : b = a \o HeaderLine(r, "other")
  OBVIOUS
<1>3. PICK c : c = b \o HeaderLine(r, "length")
  OBVIOUS
<1>4. PICK d : d = c \o HeaderLine(r, "chunked")
  OBVIOUS
<1>5. PICK w : w = d \o Crlf
  OBVIOUS
<1>6. w = HeaderOnWire(r)
  BY <1>1, <1>2, <1>3, <1>4, <1>5 DEF HeaderOnWire
<1>7. /\ a \in Seq(Symbols) /\ Len(a) = 4
      /\ a[1] = r.status /\ a[2] = "reason" /\ a[3] = "cr" /\ a[4] = "lf"
  <2>1. PICK x \in STRING : x = r.status
    OBVIOUS
  <2>2. StatusIs(a, x)
    BY <1>1, <2>1, StatusLine
  <2> QED BY <2>1, <2>2 DEF StatusIs
<1>8. PICK m \in Nat : m = 4
  OBVIOUS
<1>9. /\ b \in Seq(Symbols) /\ \A i \in 1..m : b[i] = a[i]
      /\ Len(b) = LengthLine(r)
      /\ "other" \in r.headers => Line(b, m, LengthLine(r), "Age")
  <2>1. Len(a) = m
    BY <1>7, <1>8
  <2>2. /\ b \in Seq(Symbols) /\ \A i \in 1..m : b[i] = a[i]
        /\ "other" \notin r.headers => Len(b) = m
        /\ "other" \in r.headers => Len(b) = m + 5 /\ Line(b, m, Len(b), "Age")
    <3>1. LineAdded(r, "other", a, b)
      BY <1>2, <1>7, HeaderLineJoined
    <3> QED BY <2>1, <3>1 DEF LineAdded
  <2>3. Len(b) = LengthLine(r)
    BY <1>8, <2>2, Lines
  <2> QED BY <2>2, <2>3
<1>10. /\ c \in Seq(Symbols) /\ \A i \in 1..LengthLine(r) : c[i] = b[i]
       /\ Len(c) = ChunkedLine(r)
       /\ "length" \in r.headers =>
            /\ Line(c, LengthLine(r), ChunkedLine(r), "Content-Length")
            /\ Announces(c, LengthLine(r), Len(Body(r)))
  <2>2. /\ c \in Seq(Symbols) /\ \A i \in 1..LengthLine(r) : c[i] = b[i]
        /\ "length" \notin r.headers => Len(c) = LengthLine(r)
        /\ "length" \in r.headers =>
             /\ Len(c) = LengthLine(r) + 6
             /\ Line(c, LengthLine(r), Len(c), "Content-Length")
             /\ Announces(c, LengthLine(r), Len(Body(r)))
    <3>1. LineAdded(r, "length", b, c)
      BY <1>3, <1>9, HeaderLineJoined
    <3> QED BY <1>9, <3>1 DEF LineAdded
  <2>3. Len(c) = ChunkedLine(r)
    BY <2>2, Lines
  <2> QED BY <2>2, <2>3
<1>11. /\ d \in Seq(Symbols) /\ \A i \in 1..ChunkedLine(r) : d[i] = c[i]
       /\ Len(d) = LastLine(r)
       /\ "chunked" \in r.headers => Line(d, ChunkedLine(r), LastLine(r), "Transfer-Encoding")
  <2>2. /\ d \in Seq(Symbols) /\ \A i \in 1..ChunkedLine(r) : d[i] = c[i]
        /\ "chunked" \notin r.headers => Len(d) = ChunkedLine(r)
        /\ "chunked" \in r.headers =>
             /\ Len(d) = ChunkedLine(r) + 5
             /\ Line(d, ChunkedLine(r), Len(d), "Transfer-Encoding")
    <3>1. LineAdded(r, "chunked", c, d)
      BY <1>4, <1>10, HeaderLineJoined
    <3> QED BY <1>10, <3>1 DEF LineAdded
  <2>3. Len(d) = LastLine(r)
    BY <2>2, Lines
  <2> QED BY <2>2, <2>3
<1>12. /\ w \in Seq(Symbols) /\ \A i \in 1..LastLine(r) : w[i] = d[i]
       /\ Len(w) = LastLine(r) + 2
       /\ w[LastLine(r) + 1] = "cr" /\ w[LastLine(r) + 2] = "lf"
  <2>1. Joins(d, Crlf, w)
    BY <1>5, <1>11, CrlfIs, Joined
  <2>2. 1 \in 1..Len(Crlf) /\ 2 \in 1..Len(Crlf)
    BY CrlfIs
  <2> QED BY <1>11, <2>1, <2>2, CrlfIs DEF Joins
<1>13. /\ \A i \in 1..ChunkedLine(r) : w[i] = c[i]
       /\ \A i \in 1..LengthLine(r) : w[i] = b[i]
       /\ \A i \in 1..m : w[i] = a[i]
  <2>1. m <= LengthLine(r)
    BY <1>8, Lines
  <2>2. \A i \in 1..ChunkedLine(r) : w[i] = c[i]
    <3>1. \A i \in 1..ChunkedLine(r) : i \in 1..LastLine(r)
      BY Lines
    <3> QED BY <1>11, <1>12, <3>1
  <2>3. \A i \in 1..LengthLine(r) : w[i] = b[i]
    <3>1. \A i \in 1..LengthLine(r) : i \in 1..ChunkedLine(r)
      BY Lines
    <3> QED BY <1>10, <2>2, <3>1
  <2>4. \A i \in 1..m : w[i] = a[i]
    <3>1. \A i \in 1..m : i \in 1..LengthLine(r)
      BY <2>1, Lines
    <3> QED BY <1>9, <2>3, <3>1
  <2> QED BY <2>2, <2>3, <2>4
<1>14. "other" \in r.headers => Line(w, 4, LengthLine(r), "Age")
  <2>1. "other" \in r.headers => Line(w, m, LengthLine(r), "Age")
    <3>1. LengthLine(r) \in Nat /\ LengthLine(r) <= LengthLine(r)
      BY Lines
    <3>2. "other" \in r.headers => Line(b, m, LengthLine(r), "Age")
      BY <1>9
    <3>3. \A i \in 1..LengthLine(r) : w[i] = b[i]
      BY <1>13
    <3> QED BY <3>1, <3>2, <3>3, LineKept
  <2> QED BY <1>8, <2>1
<1>15. "length" \in r.headers =>
         /\ Line(w, LengthLine(r), ChunkedLine(r), "Content-Length")
         /\ Announces(w, LengthLine(r), Len(Body(r)))
  <2> SUFFICES ASSUME "length" \in r.headers
               PROVE  /\ Line(w, LengthLine(r), ChunkedLine(r), "Content-Length")
                      /\ Announces(w, LengthLine(r), Len(Body(r)))
    OBVIOUS
  <2>1. /\ LengthLine(r) \in Nat /\ ChunkedLine(r) \in Nat
        /\ ChunkedLine(r) <= ChunkedLine(r)
    BY Lines
  <2>0. "length" \in r.headers => LengthLine(r) + 4 <= ChunkedLine(r)
    BY Lines
  <2>2. /\ Line(c, LengthLine(r), ChunkedLine(r), "Content-Length")
        /\ Announces(c, LengthLine(r), Len(Body(r)))
    BY <1>10
  <2>3. \A i \in 1..ChunkedLine(r) : w[i] = c[i]
    BY <1>13
  <2>4. Line(w, LengthLine(r), ChunkedLine(r), "Content-Length")
    BY <2>1, <2>2, <2>3, LineKept
  <2>5. Announces(w, LengthLine(r), Len(Body(r)))
    BY <2>0, <2>1, <2>2, <2>3, AnnouncesKept
  <2> QED BY <2>4, <2>5
<1>16. "chunked" \in r.headers => Line(w, ChunkedLine(r), LastLine(r), "Transfer-Encoding")
  <2>1. LastLine(r) \in Nat /\ ChunkedLine(r) \in Nat /\ LastLine(r) <= LastLine(r)
    BY Lines
  <2>2. "chunked" \in r.headers => Line(d, ChunkedLine(r), LastLine(r), "Transfer-Encoding")
    BY <1>11
  <2> QED BY <1>12, <2>1, <2>2, LineKept
<1>17. w[1] = r.status /\ w[2] = "reason" /\ w[3] = "cr" /\ w[4] = "lf"
  BY <1>7, <1>8, <1>13
<1>18. HeaderSymbols(r, w)
  BY <1>12, <1>14, <1>15, <1>16, <1>17, Lines DEF HeaderSymbols
<1> QED BY <1>6, <1>12, <1>18

-----------------------------------------------------------------------------
(* The inductive invariant *)

\* What the server sends in answer to the call c.
Sent(c) == IF c.head THEN HeaderOnWire(c.reply) ELSE OnWire(c.reply)
\* Where its body begins.
BodyAt(c) == LastLine(c.reply) + 2

States == {"start", "to_return", "newline", "header", "to_body", "end"}
Phases == {"send", "read", "parse", "parsed", "body", "stream", "identity", "chunks", "done"}

ParserType == [state : States, status : Symbols \cup {"none"}, length : Nat, chunked : BOOLEAN]

TypeInv ==
  /\ call \in Calls
  /\ wire \in Seq(Symbols)
  /\ pc \in Phases
  /\ pc # "done" => buf \in [1..BufferLen -> Symbols]
  /\ left \in 0..BufferLen /\ limit \in 0..BufferLen /\ pos \in Nat /\ received \in Nat
  /\ parser \in ParserType
  /\ expired \in BOOLEAN /\ open \in BOOLEAN
  /\ result \in [kind : {"running", "error", "ok"}, bytes : Nat]
  /\ given \in [data : Seq(Symbols), offset : Nat]

\* How much of what is sent has been read.
Off == Len(Sent(call)) - Len(wire)

WireInv ==
  /\ Len(wire) <= Len(Sent(call))
  /\ \A i \in 1..Len(wire) : wire[i] = Sent(call)[Off + i]

\* The first n bytes of the buffer are the n that were read last.
Held(n) ==
  /\ n <= Off /\ n <= BufferLen
  /\ \A i \in 1..n : buf[i] = Sent(call)[Off - n + i]

\* How much of the reply the parser has consumed.
At == IF pc \in {"parse", "parsed"} THEN Off - limit + pos ELSE Off - left

HeldInv ==
  /\ pc \in {"send", "read", "body"} => Held(left)
  /\ pc \in {"parse", "parsed"} => Held(limit) /\ pos <= limit
  /\ pc \in {"identity", "chunks"} => Held(received)

\* Where a line may end, and what the parser has found when it is there.
Ends(r) == {4, LengthLine(r), ChunkedLine(r), LastLine(r)}
Found(r, p, n) ==
  /\ p.length = IF "length" \in r.headers /\ ChunkedLine(r) <= n THEN Len(Body(r)) ELSE 0
  /\ p.chunked = ("chunked" \in r.headers /\ LastLine(r) <= n)

\* The parser p of a wire w that has consumed c bytes of it.
ParserAt(r, w, p, c) ==
  /\ p.state = "start" => c = 0 /\ p = NewParser
  /\ p.state = "to_return" =>
       \E n \in Ends(r) : /\ c <= n - 2 /\ w[n - 1] = "cr" /\ w[n] = "lf"
                          /\ \A i \in (c + 1)..(n - 2) : w[i] # "cr"
                          /\ Found(r, p, n)
  /\ p.state = "newline" => c + 1 \in Ends(r) /\ w[c + 1] = "lf" /\ Found(r, p, c + 1)
  /\ p.state = "header" => c \in Ends(r) /\ Found(r, p, c)
  /\ p.state = "to_body" => c = LastLine(r) + 1 /\ Found(r, p, LastLine(r))
  /\ p.state = "end" => c = LastLine(r) + 2 /\ Found(r, p, LastLine(r))

Early == {"send", "read", "parse", "parsed", "body"}

ParserInv ==
  /\ pc \in Early => ParserAt(reply, Sent(call), parser, At)
  /\ pc \in {"send", "read", "parse"} => parser.state # "end"
  /\ pc = "body" => parser.state = "end"

GivenInv ==
  /\ given.offset = Len(given.data)
  /\ BodyAt(call) + Len(given.data) <= Len(Sent(call))
  /\ \A i \in 1..Len(given.data) : given.data[i] = Sent(call)[BodyAt(call) + i]
  /\ call.head \/ pc \in Early \cup {"identity", "chunks"} => given.data = <<>>

BodyInv ==
  /\ pc \in {"stream", "identity", "chunks"} =>
       /\ ~call.head /\ parser.state = "end" /\ Found(reply, parser, LastLine(reply))
       /\ Off = BodyAt(call) + received
  /\ pc = "stream" => parser.length > BufferLen /\ received = Len(given.data)
  /\ pc = "identity" => ~parser.chunked
  /\ pc = "chunks" => parser.chunked
  /\ pc \in {"identity", "chunks"} => parser.length <= BufferLen

\* A body whose length is announced, or that is empty.
Announced == ~Chunked(reply) /\ ("length" \in reply.headers \/ Body(reply) = <<>>)

DoneInv ==
  /\ pc # "done" => result.kind = "running"
  /\ pc = "done" /\ result.kind = "ok" /\ parser.state = "end" /\ ~call.head /\ Announced =>
       IF parser.length > BufferLen THEN Len(given.data) = Len(Body(reply))
       ELSE /\ buf \in [1..BufferLen -> Symbols] /\ Len(Body(reply)) <= BufferLen
            /\ \A i \in 1..Len(Body(reply)) : buf[i] = Body(reply)[i]

IInv == TypeInv /\ WireInv /\ HeldInv /\ ParserInv /\ GivenInv /\ BodyInv /\ DoneInv

-----------------------------------------------------------------------------
(* What a reply is, and what reads and writes of the buffer do *)

LEMMA SentIs ==
  ASSUME NEW c \in Calls
  PROVE  /\ Sent(c) \in Seq(Symbols) /\ HeaderSymbols(c.reply, Sent(c))
         /\ BodyAt(c) \in Nat /\ BodyAt(c) <= Len(Sent(c))
         /\ ~c.head =>
              /\ BodyOnWire(c.reply) \in Seq(STRING)
              /\ Len(Sent(c)) = BodyAt(c) + Len(BodyOnWire(c.reply))
              /\ \A i \in 1..Len(BodyOnWire(c.reply)) :
                   Sent(c)[BodyAt(c) + i] = BodyOnWire(c.reply)[i]
<1> PICK r : r = c.reply
  OBVIOUS
<1>1. /\ r.status \in STRING /\ Body(r) \in Seq(STRING) /\ BodyOnWire(r) \in Seq(STRING)
      /\ "length" \in r.headers => Len(Body(r)) < 100
  BY CallsAssumption, RepliesAssumption
<1>2. PICK h : h = HeaderOnWire(r)
  OBVIOUS
<1>3. HeaderSymbols(r, h) /\ Len(h) = LastLine(r) + 2
  BY <1>1, <1>2, HeaderIs
<1>4. h \in Seq(Symbols) /\ BodyAt(c) \in Nat /\ Len(h) = BodyAt(c)
  BY <1>3, Lines DEF HeaderSymbols, BodyAt
<1>5. CASE c.head
  <2>1. Sent(c) = h
    BY <1>2, <1>5 DEF Sent
  <2> QED BY <1>3, <1>4, <1>5, <2>1
<1>6. CASE ~c.head
  <2>1. Sent(c) = h \o BodyOnWire(r)
    BY <1>2, <1>6 DEF Sent, OnWire
  <2>2. BodyOnWire(r) \in Seq(Symbols)
    <3>1. STRING \subseteq Symbols
      BY SymbolsAre
    <3>2. Seq(STRING) \subseteq Seq(Symbols)
      BY <3>1, SeqMonotonic
    <3> QED BY <1>1, <3>2
  <2>3. Joins(h, BodyOnWire(r), Sent(c))
    BY <1>4, <2>1, <2>2, Joined
  <2>4. Sent(c) \in Seq(Symbols) /\ Len(Sent(c)) = BodyAt(c) + Len(BodyOnWire(r))
    BY <1>4, <2>3 DEF Joins
  <2>5. \A i \in 1..Len(BodyOnWire(r)) : Sent(c)[BodyAt(c) + i] = BodyOnWire(r)[i]
    BY <1>4, <2>3 DEF Joins
  <2>6. \A i \in 1..BodyAt(c) : Sent(c)[i] = h[i]
    BY <1>4, <2>3 DEF Joins
  <2>7. Len(BodyOnWire(r)) \in Nat
    BY <1>1
  <2>8. BodyAt(c) <= Len(Sent(c))
    BY <1>4, <2>4, <2>7
  <2>9. BodyAt(c) = LastLine(r) + 2
    BY DEF BodyAt
  <2>10. HeaderSymbols(r, Sent(c))
    BY <1>3, <1>4, <2>4, <2>6, <2>8, <2>9, HeaderKept
  <2> QED BY <1>1, <1>4, <1>6, <2>4, <2>5, <2>8, <2>10
<1> QED BY <1>5, <1>6

\* Bytes put into the buffer, with or without the NUL after them.
Fills(b, p, s, e) ==
  /\ e \in [1..BufferLen -> Symbols]
  /\ \A i \in 1..p : e[i] = b[i]
  /\ \A i \in 1..Len(s) : e[p + i] = s[i]

LEMMA Filled ==
  ASSUME BufferLen \in Nat, NEW b \in [1..BufferLen -> Symbols], NEW p \in Nat,
         NEW s \in Seq(Symbols), p + Len(s) <= BufferLen
  PROVE  /\ Fills(b, p, s, Put(b, p, s))
         /\ Fills(b, p, s, Ended(Put(b, p, s), p + Len(s)))
<1>1. PICK n \in Nat : n = Len(s)
  OBVIOUS
<1>2. PICK e : e = Put(b, p, s)
  OBVIOUS
<1>3. e \in [1..BufferLen -> Symbols]
  <2>1. \A i \in 1..BufferLen : i > p /\ i <= p + n => i - p \in 1..n
    OBVIOUS
  <2>2. \A i \in 1..n : s[i] \in Symbols
    BY <1>1
  <2> QED BY <1>1, <1>2, <2>1, <2>2 DEF Put
<1>4. \A i \in 1..p : e[i] = b[i]
  <2>1. \A i \in 1..p : i \in 1..BufferLen /\ ~(i > p)
    BY <1>1
  <2> QED BY <1>2, <2>1 DEF Put
<1>5. \A i \in 1..n : e[p + i] = s[i]
  <2>1. \A i \in 1..n : p + i \in 1..BufferLen /\ p + i > p /\ p + i <= p + n /\ p + i - p = i
    BY <1>1
  <2> QED BY <1>1, <1>2, <2>1 DEF Put
<1>6. Fills(b, p, s, e)
  BY <1>1, <1>3, <1>4, <1>5 DEF Fills
<1>7. PICK f : f = Ended(e, p + n)
  OBVIOUS
<1>8. CASE p + n < BufferLen
  <2>1. PICK z \in Symbols : z = Nul
    BY SymbolsAre DEF Nul
  <2>2. PICK t : t = <<z>>
    OBVIOUS
  <2>3. Len(t) = 1 /\ t[1] = z
    BY <2>2
  <2>4. f = [i \in 1..BufferLen |-> IF i > p + n /\ i <= p + n + 1 THEN t[i - (p + n)] ELSE e[i]]
    BY <1>7, <1>8, <2>1, <2>2, <2>3 DEF Ended, Put
  <2>5. \A i \in 1..BufferLen : i > p + n /\ i <= p + n + 1 => i - (p + n) = 1
    OBVIOUS
  <2>6. f \in [1..BufferLen -> Symbols]
    BY <1>3, <2>1, <2>3, <2>4, <2>5
  <2>7. \A i \in 1..(p + n) : f[i] = e[i]
    BY <1>8, <2>4
  <2>8. \A i \in 1..p : f[i] = b[i]
    BY <1>1, <1>4, <2>7
  <2>9. ASSUME NEW i \in 1..n PROVE f[p + i] = s[i]
    <3>1. p + i \in 1..(p + n)
      OBVIOUS
    <3> QED BY <1>5, <2>7, <3>1
  <2> QED BY <1>1, <1>2, <1>6, <1>7, <2>6, <2>8, <2>9 DEF Fills
<1>9. CASE ~(p + n < BufferLen)
  <2>1. f = e
    BY <1>7, <1>9 DEF Ended
  <2> QED BY <1>1, <1>2, <1>6, <1>7, <2>1
<1> QED BY <1>8, <1>9

\* What is read, and what is left to read.
LEMMA Reads ==
  ASSUME NEW w \in Seq(Symbols), NEW k \in 1..Len(w),
         NEW t, t = SubSeq(w, 1, k), NEW u, u = SubSeq(w, k + 1, Len(w))
  PROVE  /\ t \in Seq(Symbols) /\ Len(t) = k /\ \A i \in 1..k : t[i] = w[i]
         /\ u \in Seq(Symbols) /\ Len(u) = Len(w) - k /\ \A i \in 1..Len(u) : u[i] = w[k + i]
<1> PICK n \in Nat : n = Len(w)
  OBVIOUS
<1>1. /\ t \in Seq(Symbols) /\ Len(t) = k /\ \A i \in 1..k : t[i] = w[i]
  BY SubSeqProperties
<1>2. u \in Seq(Symbols) /\ Len(u) = n - k
  BY SubSeqProperties
<1>3. \A i \in 1..(n - k) : u[i] = w[k + 1 + i - 1]
  BY SubSeqProperties
<1>4. \A i \in 1..(n - k) : k + 1 + i - 1 = k + i
  OBVIOUS
<1> QED BY <1>1, <1>2, <1>3, <1>4

\* The part of the buffer from p on.
LEMMA PartOf ==
  ASSUME NEW m \in Nat, NEW b \in [1..m -> Symbols], NEW p \in Nat, NEW q \in 0..m, p <= q,
         NEW s, s = SubSeq(b, p + 1, q)
  PROVE  s \in Seq(Symbols) /\ Len(s) = q - p /\ \A i \in 1..(q - p) : s[i] = b[p + i]
<1>1. b \in Seq(Symbols) /\ Len(b) = m
  OBVIOUS
<1>2. s \in Seq(Symbols) /\ Len(s) = q - p
  BY <1>1, SubSeqProperties
<1>3. \A i \in 1..(q - p) : s[i] = b[p + 1 + i - 1]
  BY <1>1, SubSeqProperties
<1>4. \A i \in 1..(q - p) : p + 1 + i - 1 = p + i
  OBVIOUS
<1> QED BY <1>2, <1>3, <1>4

LEMMA PrefixIs ==
  ASSUME NEW s \in Seq(Symbols), NEW t \in Seq(Symbols), Len(s) <= Len(t),
         \A i \in 1..Len(s) : s[i] = t[i]
  PROVE  IsPrefix(s, t)
<1>1. SubSeq(s, 1, Len(s)) = s
  BY SubSeqFull
<1>2. PICK u : u = SubSeq(t, 1, Len(s))
  OBVIOUS
<1>3. u \in Seq(Symbols) /\ Len(u) = Len(s) /\ \A i \in 1..Len(s) : u[i] = t[i]
  BY <1>2, SubSeqProperties
<1>4. u = s
  BY <1>3, SeqEqual
<1> QED BY <1>1, <1>2, <1>4 DEF IsPrefix

LEMMA SuffixIs ==
  ASSUME NEW s \in Seq(Symbols), NEW t \in Seq(Symbols), Len(s) <= Len(t),
         \A i \in 1..Len(s) : s[i] = t[Len(t) - Len(s) + i]
  PROVE  IsSuffix(s, t)
<1> PICK m \in Nat, n \in Nat : m = Len(s) /\ n = Len(t)
  OBVIOUS
<1>1. PICK u : u = Reverse(s)
  OBVIOUS
<1>2. PICK v : v = Reverse(t)
  OBVIOUS
<1>3. u \in Seq(Symbols) /\ Len(u) = m /\ \A i \in 1..m : u[i] = s[m - i + 1]
  BY <1>1 DEF Reverse
<1>4. v \in Seq(Symbols) /\ Len(v) = n /\ \A i \in 1..n : v[i] = t[n - i + 1]
  BY <1>2 DEF Reverse
<1>5. ASSUME NEW i \in 1..m PROVE u[i] = v[i]
  <2>1. i \in 1..n /\ m - i + 1 \in 1..m /\ n - m + (m - i + 1) = n - i + 1
    OBVIOUS
  <2>2. s[m - i + 1] = t[n - m + (m - i + 1)]
    BY <2>1
  <2>3. u[i] = s[m - i + 1] /\ v[i] = t[n - i + 1]
    BY <1>3, <1>4, <2>1
  <2> QED BY <2>1, <2>2, <2>3
<1>6. IsPrefix(u, v)
  BY <1>3, <1>4, <1>5, PrefixIs
<1> QED BY <1>1, <1>2, <1>6 DEF IsSuffix

-----------------------------------------------------------------------------
(* The parser, whatever piece of the reply it is given *)

\* What is ahead of the parser: the wire from c on.
AheadOf(w, c, a) ==
  a \in Seq(Symbols) /\ \A j \in 1..Len(a) : a[j] = w[c + j]

LEMMA EndsAreNat == ASSUME NEW r PROVE \A n \in Ends(r) : n \in Nat /\ 4 <= n
BY Lines DEF Ends

\* The status line is followed by the first header.
LEMMA StartStep ==
  ASSUME NEW r, NEW w, HeaderSymbols(r, w), NEW p \in ParserType, p.state = "start",
         NEW c, ParserAt(r, w, p, c), NEW s \in Symbols,
         NEW q, q = [p EXCEPT !.status = s, !.state = "to_return"]
  PROVE  ParserAt(r, w, q, c + 1)
<1>1. c = 0 /\ p.length = 0 /\ p.chunked = FALSE
  BY DEF ParserAt, NewParser
<1>2. q.state = "to_return" /\ q.length = 0 /\ q.chunked = FALSE
  BY <1>1 DEF ParserType
<1>3. Found(r, q, 4)
  <2>1. "length" \in r.headers => ~(ChunkedLine(r) <= 4)
    BY Lines
  <2>2. "chunked" \in r.headers => ~(LastLine(r) <= 4)
    BY Lines
  <2>3. q.length = IF "length" \in r.headers /\ ChunkedLine(r) <= 4 THEN Len(Body(r)) ELSE 0
    BY <1>2, <2>1
  <2>4. q.chunked = ("chunked" \in r.headers /\ LastLine(r) <= 4)
    BY <1>2, <2>2, Zenon
  <2> QED BY <2>3, <2>4 DEF Found
<1>4. PICK n \in Ends(r) : n = 4
  BY DEF Ends
<1>5. w[n - 1] = "cr" /\ w[n] = "lf" /\ \A i \in 2..(n - 2) : w[i] # "cr"
  <2>1. \A i \in 2..(n - 2) : i = 2
    BY <1>4
  <2> QED BY <1>4, <2>1 DEF HeaderSymbols
<1>6. c + 1 <= n - 2 /\ c + 1 + 1 = 2
  BY <1>1, <1>4
<1>7. Found(r, q, n)
  BY <1>3, <1>4
<1> QED BY <1>2, <1>5, <1>6, <1>7 DEF ParserAt

\* A line ends at the first carriage return.
LEMMA ReturnFound ==
  ASSUME NEW r, NEW w, NEW p \in ParserType, p.state = "to_return",
         NEW c \in Nat, ParserAt(r, w, p, c), NEW a, AheadOf(w, c, a), Contains(a, "cr"),
         NEW k, k = CHOOSE n \in 1..Len(a) : a[n] = "cr" /\ ~Contains(SubSeq(a, 1, n - 1), "cr"),
         NEW q, q = [p EXCEPT !.state = "newline"]
  PROVE  k \in 1..Len(a) /\ ParserAt(r, w, q, c + k)
<1>1. PICK n \in Ends(r) : /\ c <= n - 2 /\ w[n - 1] = "cr" /\ w[n] = "lf"
                           /\ \A i \in (c + 1)..(n - 2) : w[i] # "cr"
                           /\ Found(r, p, n)
  BY DEF ParserAt
<1> PICK l \in Nat : l = Len(a)
  BY DEF AheadOf
<1>2. n \in Nat
  BY EndsAreNat
<1>3. \A m \in 1..l : a[m] = "cr" => m >= n - 1 - c
  <2>1. \A m \in 1..l : m < n - 1 - c => c + m \in (c + 1)..(n - 2)
    BY <1>1, <1>2
  <2>2. \A m \in 1..l : m < n - 1 - c => w[c + m] # "cr"
    BY <1>1, <2>1
  <2>3. \A m \in 1..l : m < n - 1 - c => a[m] # "cr"
    BY <2>2 DEF AheadOf
  <2> QED BY <1>2, <2>3
<1>4. PICK m \in 1..l : a[m] = "cr"
  BY DEF Contains
<1>5. PICK j \in 1..l : j = n - 1 - c
  BY <1>1, <1>2, <1>3, <1>4
<1>6. a[j] = "cr"
  <2>1. c + j = n - 1
    BY <1>2, <1>5
  <2> QED BY <1>1, <1>5, <2>1 DEF AheadOf
<1>7. \A i \in 1..l : /\ SubSeq(a, 1, i - 1) \in Seq(Symbols)
                      /\ Len(SubSeq(a, 1, i - 1)) = i - 1
                      /\ \A h \in 1..(i - 1) : SubSeq(a, 1, i - 1)[h] = a[h]
  BY SubSeqProperties DEF AheadOf
<1>8. ~Contains(SubSeq(a, 1, j - 1), "cr")
  <2>1. \A h \in 1..(j - 1) : a[h] # "cr"
    BY <1>3, <1>5, <1>2
  <2> QED BY <1>5, <1>7, <2>1 DEF Contains
<1>9. k \in 1..l /\ a[k] = "cr" /\ ~Contains(SubSeq(a, 1, k - 1), "cr")
  BY <1>5, <1>6, <1>8
<1>10. k = j
  <2>1. k >= j
    BY <1>3, <1>5, <1>9
  <2>2. ~(k > j)
    <3>1. k > j => j \in 1..(k - 1)
      BY <1>5, <1>9
    <3>2. k > j => Contains(SubSeq(a, 1, k - 1), "cr")
      BY <1>6, <1>7, <1>9, <3>1 DEF Contains
    <3> QED BY <1>9, <3>2
  <2> QED BY <1>5, <1>9, <2>1, <2>2
<1>11. c + k + 1 = n
  <2>1. c + j + 1 = n
    BY <1>2, <1>5
  <2> QED BY <1>10, <2>1
<1>12. q.state = "newline" /\ q.length = p.length /\ q.chunked = p.chunked
  BY DEF ParserType
<1>13. Found(r, q, n)
  BY <1>1, <1>12 DEF Found
<1> QED BY <1>1, <1>9, <1>11, <1>12, <1>13 DEF ParserAt

LEMMA ReturnMissing ==
  ASSUME NEW r, NEW w, NEW p \in ParserType, p.state = "to_return",
         NEW c \in Nat, ParserAt(r, w, p, c), NEW a, AheadOf(w, c, a), ~Contains(a, "cr")
  PROVE  ParserAt(r, w, p, c + Len(a))
<1>1. PICK n \in Ends(r) : /\ c <= n - 2 /\ w[n - 1] = "cr" /\ w[n] = "lf"
                           /\ \A i \in (c + 1)..(n - 2) : w[i] # "cr"
                           /\ Found(r, p, n)
  BY DEF ParserAt
<1> PICK l \in Nat : l = Len(a)
  BY DEF AheadOf
<1>2. n \in Nat
  BY EndsAreNat
<1>3. c + l <= n - 2
  <2>1. ~(c + l <= n - 2) => n - 1 - c \in 1..l /\ c + (n - 1 - c) = n - 1
    BY <1>1, <1>2
  <2>2. ~(c + l <= n - 2) => a[n - 1 - c] = "cr"
    BY <1>1, <2>1 DEF AheadOf
  <2> QED BY <2>1, <2>2 DEF Contains
<1>4. \A i \in (c + l + 1)..(n - 2) : i \in (c + 1)..(n - 2)
  BY <1>2
<1>5. \A i \in (c + l + 1)..(n - 2) : w[i] # "cr"
  BY <1>1, <1>4
<1> QED BY <1>1, <1>3, <1>5 DEF ParserAt

LEMMA NewlineStep ==
  ASSUME NEW r, NEW w, NEW p \in ParserType, p.state = "newline",
         NEW c, ParserAt(r, w, p, c), NEW q, q = [p EXCEPT !.state = "header"]
  PROVE  ParserAt(r, w, q, c + 1)
<1>1. c + 1 \in Ends(r) /\ Found(r, p, c + 1)
  BY DEF ParserAt
<1>2. q.state = "header" /\ q.length = p.length /\ q.chunked = p.chunked
  BY DEF ParserType
<1> QED BY <1>1, <1>2 DEF ParserAt, Found

LEMMA ToBodyStep ==
  ASSUME NEW r, NEW w, NEW p \in ParserType, p.state = "to_body",
         NEW c, ParserAt(r, w, p, c), NEW q, q = [p EXCEPT !.state = "end"]
  PROVE  ParserAt(r, w, q, c + 1)
<1>1. c = LastLine(r) + 1 /\ Found(r, p, LastLine(r))
  BY DEF ParserAt
<1>2. q.state = "end" /\ q.length = p.length /\ q.chunked = p.chunked
  BY DEF ParserType
<1>3. c + 1 = LastLine(r) + 2
  BY <1>1, Lines
<1> QED BY <1>1, <1>2, <1>3 DEF ParserAt, Found

\* What comes at the end n of a line: one of the headers, or the empty line.
LEMMA NextLine ==
  ASSUME NEW r, NEW w, HeaderSymbols(r, w), NEW n \in Ends(r)
  PROVE  \/ n = LastLine(r) /\ w[n + 1] = "cr"
         \/ "other" \in r.headers /\ n = 4 /\ Line(w, n, LengthLine(r), "Age")
         \/ /\ "length" \in r.headers /\ n = LengthLine(r)
            /\ Line(w, n, ChunkedLine(r), "Content-Length")
         \/ /\ "chunked" \in r.headers /\ n = ChunkedLine(r)
            /\ Line(w, n, LastLine(r), "Transfer-Encoding")
<1>1. /\ "other" \in r.headers => Line(w, 4, LengthLine(r), "Age")
      /\ "length" \in r.headers => Line(w, LengthLine(r), ChunkedLine(r), "Content-Length")
      /\ "chunked" \in r.headers => Line(w, ChunkedLine(r), LastLine(r), "Transfer-Encoding")
      /\ w[LastLine(r) + 1] = "cr"
  BY DEF HeaderSymbols
<1>2. n = 4 /\ "other" \notin r.headers => n = LengthLine(r)
  BY Lines
<1>3. n = LengthLine(r) /\ "length" \notin r.headers => n = ChunkedLine(r)
  BY Lines
<1>4. n = ChunkedLine(r) /\ "chunked" \notin r.headers => n = LastLine(r)
  BY Lines
<1>5. n = 4 \/ n = LengthLine(r) \/ n = ChunkedLine(r) \/ n = LastLine(r)
  BY DEF Ends
<1> QED BY <1>1, <1>2, <1>3, <1>4, <1>5

\* What is found at the end of a header is what was found before, but for its own value.
LEMMA NextFound ==
  ASSUME NEW r, NEW p, NEW n, Found(r, p, n), NEW q
  PROVE  /\ "other" \in r.headers /\ n = 4 /\ q.length = p.length /\ q.chunked = p.chunked =>
              Found(r, q, LengthLine(r))
         /\ ("length" \in r.headers /\ n = LengthLine(r) /\ q.length = Len(Body(r))
             /\ q.chunked = p.chunked) => Found(r, q, ChunkedLine(r))
         /\ ("chunked" \in r.headers /\ n = ChunkedLine(r) /\ q.length = p.length
             /\ q.chunked = TRUE) => Found(r, q, LastLine(r))
<1>1. ASSUME "other" \in r.headers, n = 4, q.length = p.length, q.chunked = p.chunked
      PROVE  Found(r, q, LengthLine(r))
  <2>1. "length" \in r.headers => ~(ChunkedLine(r) <= 4) /\ ~(ChunkedLine(r) <= LengthLine(r))
    BY Lines
  <2>2. "chunked" \in r.headers => ~(LastLine(r) <= 4) /\ ~(LastLine(r) <= LengthLine(r))
    BY Lines
  <2>3. q.length = 0
    BY <1>1, <2>1 DEF Found
  <2>4. q.chunked = ("chunked" \in r.headers /\ LastLine(r) <= LengthLine(r))
    BY <1>1, <2>2, Zenon DEF Found
  <2> QED BY <2>1, <2>3, <2>4 DEF Found
<1>2. ASSUME "length" \in r.headers, n = LengthLine(r),
             q.length = Len(Body(r)), q.chunked = p.chunked
      PROVE  Found(r, q, ChunkedLine(r))
  <2>1. ChunkedLine(r) <= ChunkedLine(r)
    BY Lines
  <2>2. "chunked" \in r.headers =>
          ~(LastLine(r) <= LengthLine(r)) /\ ~(LastLine(r) <= ChunkedLine(r))
    BY Lines
  <2>4. q.chunked = ("chunked" \in r.headers /\ LastLine(r) <= ChunkedLine(r))
    BY <1>2, <2>2, Zenon DEF Found
  <2> QED BY <1>2, <2>1, <2>4 DEF Found
<1>3. ASSUME "chunked" \in r.headers, n = ChunkedLine(r),
             q.length = p.length, q.chunked = TRUE
      PROVE  Found(r, q, LastLine(r))
  <2>1. /\ LastLine(r) <= LastLine(r) /\ ChunkedLine(r) <= LastLine(r)
        /\ ChunkedLine(r) <= ChunkedLine(r)
    BY Lines
  <2>3. q.length = IF "length" \in r.headers THEN Len(Body(r)) ELSE 0
    BY <1>3, <2>1 DEF Found
  <2>4. q.chunked = ("chunked" \in r.headers /\ LastLine(r) <= LastLine(r))
    BY <1>3, <2>1, Zenon
  <2> QED BY <2>1, <2>3, <2>4 DEF Found
<1> QED BY <1>1, <1>2, <1>3

\* The empty line ends the header.
LEMMA LastStep ==
  ASSUME NEW r, NEW w, HeaderSymbols(r, w), NEW p \in ParserType, p.state = "header",
         NEW c, ParserAt(r, w, p, c), w[c + 1] = "cr", NEW q, q = [p EXCEPT !.state = "to_body"]
  PROVE  ParserAt(r, w, q, c + 1)
<1>1. c \in Ends(r) /\ Found(r, p, c)
  BY DEF ParserAt
<1>2. c \in Nat
  BY <1>1, EndsAreNat
<1>3. c = LastLine(r)
  <2>1. ASSUME NEW e, NEW name \in {"Age", "Content-Length", "Transfer-Encoding"},
               Line(w, c, e, name)
        PROVE  FALSE
    BY <2>1 DEF Line
  <2> QED BY <1>1, <2>1, NextLine
<1>4. q.state = "to_body" /\ q.length = p.length /\ q.chunked = p.chunked
  BY DEF ParserType
<1> QED BY <1>1, <1>3, <1>4 DEF ParserAt, Found

\* A value that is announced is read once its line has ended.
LEMMA ValueRead ==
  ASSUME NEW w, NEW c \in Nat, NEW e, NEW n, e = c + 6,
         Line(w, c, e, "Content-Length"), Announces(w, c, n),
         NEW v, AheadOf(w, c + 2, v), Contains(v, "cr")
  PROVE  ParseInt(v) = n
<1>0. v \in Seq(Symbols) /\ \A j \in 1..Len(v) : v[j] = w[c + 2 + j]
  BY DEF AheadOf
<1> PICK l \in Nat : l = Len(v)
  BY <1>0
<1>1. PICK m \in 1..l : v[m] = "cr"
  BY DEF Contains
<1>2. \A i \in (c + 1)..(c + 4) : w[i] # "cr"
  BY DEF Line
<1>3. m >= 3
  <2>1. m < 3 => c + 2 + m \in (c + 1)..(c + 4)
    BY <1>1
  <2> QED BY <1>0, <1>1, <1>2, <2>1
<1>4. 1 \in 1..l /\ 2 \in 1..l /\ l # 1 /\ l # 0
  BY <1>1, <1>3
<1>5. v[1] = w[c + 3] /\ v[2] = w[c + 4]
  <2>1. c + 2 + 1 = c + 3 /\ c + 2 + 2 = c + 4
    OBVIOUS
  <2> QED BY <1>0, <1>4, <2>1
<1>6. IsDigit(v[1]) /\ IsDigit(v[2]) /\ 10 * Digit(v[1]) + Digit(v[2]) = n
  BY <1>5 DEF Announces
<1>7. v # <<>>
  BY <1>0, <1>4
<1>8. DigitCount(v) = 2
  BY <1>4, <1>6, <1>7 DEF DigitCount
<1> QED BY <1>6, <1>8 DEF ParseInt

\* The value of a header that is skipped is passed over up to its line's end.
LEMMA Skipped ==
  ASSUME NEW r, NEW w, NEW c \in Nat, NEW n \in Ends(r), NEW name, Line(w, c, n, name),
         NEW q, q.state = "to_return", Found(r, q, n)
  PROVE  ParserAt(r, w, q, c + 2)
<1>1. n \in Nat
  BY EndsAreNat
<1>2. c + 2 <= n - 2 /\ \A i \in (c + 2 + 1)..(n - 2) : i \in (c + 1)..(n - 2)
  BY <1>1 DEF Line
<1>3. w[n - 1] = "cr" /\ w[n] = "lf" /\ \A i \in (c + 2 + 1)..(n - 2) : w[i] # "cr"
  BY <1>2 DEF Line
<1> QED BY <1>2, <1>3 DEF ParserAt

LEMMA HeaderStep ==
  ASSUME NEW r, NEW w, HeaderSymbols(r, w), NEW p \in ParserType, p.state = "header",
         NEW c, ParserAt(r, w, p, c), Body(r) \in Seq(STRING),
         NEW a, AheadOf(w, c, a), a # <<>>, a[1] # "cr", Contains(a, ":"),
         NEW v, v = SubSeq(a, 3, Len(a)), a[1] = "Age" \/ LineEnded(v),
         NEW s, s = [p EXCEPT !.state = "to_return"],
         NEW q, q = CASE a[1] = "Content-Length" -> [s EXCEPT !.length = ParseInt(v)]
                      [] a[1] = "Transfer-Encoding" -> [s EXCEPT !.chunked = TRUE]
                      [] OTHER -> s
  PROVE  2 <= Len(a) /\ q \in ParserType /\ ParserAt(r, w, q, c + 2)
<1>1. c \in Ends(r) /\ Found(r, p, c)
  BY DEF ParserAt
<1>2. c \in Nat
  BY <1>1, EndsAreNat
<1>3. a \in Seq(Symbols) /\ \A j \in 1..Len(a) : a[j] = w[c + j]
  BY DEF AheadOf
<1> PICK l \in Nat : l = Len(a)
  BY <1>3
<1>4. 1 \in 1..l /\ a[1] = w[c + 1]
  <2>1. l # 0
    BY <1>3
  <2> QED BY <1>3, <2>1
<1>5. /\ s \in ParserType /\ s.state = "to_return" /\ s.length = p.length /\ s.chunked = p.chunked
  BY DEF ParserType, States
<1>6. PICK m \in 1..l : a[m] = ":"
  BY DEF Contains
<1>7. ASSUME NEW e \in Ends(r), NEW name \in {"Age", "Content-Length", "Transfer-Encoding"},
             Line(w, c, e, name)
      PROVE  a[1] = name /\ 2 <= l
  <2>1. a[1] = name
    BY <1>4, <1>7 DEF Line
  <2>2. m # 1
    BY <1>6, <2>1
  <2> QED BY <1>6, <2>1, <2>2
<1>8. CASE "other" \in r.headers /\ c = 4 /\ Line(w, c, LengthLine(r), "Age")
  <2>1. LengthLine(r) \in Ends(r)
    BY DEF Ends
  <2>2. a[1] = "Age" /\ 2 <= l
    BY <1>7, <1>8, <2>1
  <2>3. q = s
    BY <2>2
  <2>4. Found(r, q, LengthLine(r))
    BY <1>1, <1>5, <1>8, <2>3, NextFound
  <2>5. ParserAt(r, w, q, c + 2)
    BY <1>2, <1>5, <1>8, <2>1, <2>3, <2>4, Skipped
  <2> QED BY <1>5, <2>2, <2>3, <2>5
<1>9. CASE /\ "length" \in r.headers /\ c = LengthLine(r)
           /\ Line(w, c, ChunkedLine(r), "Content-Length")
  <2>1. ChunkedLine(r) \in Ends(r) /\ ChunkedLine(r) = c + 6
    BY <1>9, Lines DEF Ends
  <2>2. a[1] = "Content-Length" /\ 2 <= l
    BY <1>7, <1>9, <2>1
  <2>3. Announces(w, c, Len(Body(r)))
    BY <1>9 DEF HeaderSymbols
  <2>4. v \in Seq(Symbols) /\ Len(v) = l - 2 /\ \A i \in 1..(l - 2) : v[i] = a[3 + i - 1]
    <3>1. v = SubSeq(a, 3, l)
      BY <1>3, <2>2
    <3>2. \A i \in 3..l : a[i] \in Symbols
      BY <1>3
    <3>3. /\ v \in Seq(Symbols) /\ Len(v) = IF 3 <= l THEN l - 3 + 1 ELSE 0
          /\ \A i \in 1..(l - 3 + 1) : v[i] = a[3 + i - 1]
      <4>1. 3 \in Int /\ l \in Int
        OBVIOUS
      <4> QED BY ONLY <3>1, <3>2, <4>1, SubSeqProperties
    <3> QED BY <2>2, <3>3
  <2>5. \A i \in 1..(l - 2) : 3 + i - 1 \in 1..l /\ c + (3 + i - 1) = c + 2 + i
    BY <1>2
  <2>6. \A i \in 1..Len(v) : v[i] = w[c + 2 + i]
    BY <1>3, <2>4, <2>5
  <2>7. Contains(v, "cr") /\ AheadOf(w, c + 2, v)
    BY <2>2, <2>4, <2>6 DEF LineEnded, AheadOf
  <2>8. ParseInt(v) = Len(Body(r))
    <3>1. PICK e : e = ChunkedLine(r)
      OBVIOUS
    <3>2. PICK n : n = Len(Body(r))
      OBVIOUS
    <3>3. Line(w, c, e, "Content-Length") /\ e = c + 6 /\ Announces(w, c, n)
      BY <1>9, <2>1, <2>3, <3>1, <3>2
    <3>4. ParseInt(v) = n
      BY <1>2, <2>7, <3>3, ValueRead
    <3> QED BY <3>2, <3>4
  <2>9. q = [s EXCEPT !.length = ParseInt(v)]
    BY <2>2
  <2>10. Len(Body(r)) \in Nat
    OBVIOUS
  <2>11. /\ q \in ParserType /\ q.state = "to_return"
         /\ q.length = Len(Body(r)) /\ q.chunked = p.chunked
    <3>1. PICK n \in Nat : n = Len(Body(r))
      BY <2>10
    <3>2. q = [s EXCEPT !.length = n]
      BY <2>8, <2>9, <3>1
    <3>3. q \in ParserType /\ q.state = s.state /\ q.length = n /\ q.chunked = s.chunked
      BY <1>5, <3>2 DEF ParserType
    <3> QED BY <1>5, <3>1, <3>3
  <2>12. Found(r, q, ChunkedLine(r))
    BY <1>1, <1>9, <2>11, NextFound
  <2>13. ParserAt(r, w, q, c + 2)
    BY <1>2, <1>9, <2>1, <2>11, <2>12, Skipped
  <2> QED BY <2>2, <2>11, <2>13
<1>10. CASE /\ "chunked" \in r.headers /\ c = ChunkedLine(r)
            /\ Line(w, c, LastLine(r), "Transfer-Encoding")
  <2>1. LastLine(r) \in Ends(r)
    BY DEF Ends
  <2>2. a[1] = "Transfer-Encoding" /\ 2 <= l
    BY <1>7, <1>10, <2>1
  <2>3. q = [s EXCEPT !.chunked = TRUE]
    BY <2>2
  <2>4. q \in ParserType /\ q.state = "to_return" /\ q.length = p.length /\ q.chunked = TRUE
    BY <1>5, <2>3 DEF ParserType
  <2>5. Found(r, q, LastLine(r))
    BY <1>1, <1>10, <2>4, NextFound
  <2>6. ParserAt(r, w, q, c + 2)
    BY <1>2, <1>10, <2>1, <2>4, <2>5, Skipped
  <2> QED BY <2>2, <2>4, <2>6
<1>11. c # LastLine(r) \/ w[c + 1] # "cr"
  BY <1>4
<1> QED BY <1>1, <1>8, <1>9, <1>10, <1>11, NextLine

-----------------------------------------------------------------------------
(* The actions: the start of a call, and its end *)

LEMMA CallIs ==
  ASSUME TypeInv
  PROVE  /\ BufferLen \in Nat \ {0} /\ call.head \in BOOLEAN
         /\ Sent(call) \in Seq(Symbols) /\ HeaderSymbols(reply, Sent(call))
         /\ Body(reply) \in Seq(STRING)
         /\ BodyAt(call) = LastLine(reply) + 2 /\ BodyAt(call) \in Nat
         /\ BodyAt(call) <= Len(Sent(call))
<1>1. call \in Calls
  BY DEF TypeInv
<1>2. BufferLen \in Nat \ {0} /\ call.head \in BOOLEAN
  BY <1>1, CallsAssumption DEF BufferLen
<1>3. Body(reply) \in Seq(STRING)
  BY <1>1, RepliesAssumption DEF reply
<1>4. Sent(call) \in Seq(Symbols) /\ HeaderSymbols(call.reply, Sent(call))
      /\ BodyAt(call) \in Nat /\ BodyAt(call) <= Len(Sent(call))
  BY <1>1, SentIs
<1> QED BY <1>2, <1>3, <1>4 DEF reply, BodyAt

\* The stream while nothing is read.
LEMMA WireKept ==
  ASSUME WireInv, call' = call, wire' = wire
  PROVE  WireInv' /\ Off' = Off
BY DEF WireInv, Off

\* What the callback was given while it is given no more.
LEMMA GivenKept ==
  ASSUME GivenInv, call' = call, given' = given,
         pc' \in Early \cup {"identity", "chunks"} => pc \in Early \cup {"identity", "chunks"}
  PROVE  GivenInv'
BY DEF GivenInv

\* The call is over.
LEMMA Over ==
  ASSUME TypeInv', WireInv', GivenInv', DoneInv', pc' = "done"
  PROVE  IInv'
<1>1. HeldInv' /\ ParserInv' /\ BodyInv'
  BY DEF HeldInv, ParserInv, BodyInv, Early
<1> QED BY <1>1 DEF IInv

\* It fails.
LEMMA Fails ==
  ASSUME IInv, TypeInv', call' = call, wire' = wire, given' = given, pc' = "done",
         result'.kind = "error"
  PROVE  IInv'
<1>1. WireInv'
  BY WireKept DEF IInv
<1>2. GivenInv'
  BY GivenKept DEF IInv, Early
<1>3. DoneInv'
  BY DEF DoneInv
<1> QED BY <1>1, <1>2, <1>3, Over

LEMMA InitInv == ASSUME Init PROVE IInv
<1>1. call \in Calls
  BY DEF Init
<1>2. wire = Sent(call)
  BY DEF Init, Sent, OnWire, reply
<1>3. Sent(call) \in Seq(Symbols) /\ BodyAt(call) \in Nat /\ BodyAt(call) <= Len(Sent(call))
  BY <1>1, SentIs
<1>4. BufferLen \in Nat \ {0}
  BY <1>1, CallsAssumption DEF BufferLen
<1>5. buf \in [1..BufferLen -> Symbols]
  BY <1>4, SymbolsAre DEF Init
<1>6. parser \in ParserType /\ parser = NewParser /\ parser.state = "start"
  BY DEF Init, NewParser, ParserType, States
<1>7. result \in [kind : {"running", "error", "ok"}, bytes : Nat] /\ result.kind = "running"
  BY DEF Init, Running
<1>8. given \in [data : Seq(Symbols), offset : Nat] /\ given.data = <<>> /\ given.offset = 0
  <2>1. <<>> \in Seq(Symbols)
    OBVIOUS
  <2> QED BY <2>1 DEF Init
<1>9. TypeInv
  <2>1. pc \in Phases /\ expired \in BOOLEAN /\ open \in BOOLEAN
    BY DEF Init, Phases
  <2>2. left \in 0..BufferLen /\ limit \in 0..BufferLen /\ pos \in Nat /\ received \in Nat
    BY <1>4 DEF Init
  <2>3. wire \in Seq(Symbols)
    BY <1>2, <1>3
  <2> QED BY <1>1, <1>5, <1>6, <1>7, <1>8, <2>1, <2>2, <2>3 DEF TypeInv, ParserType
<1>10. Off = 0 /\ At = 0
  <2>1. Off = 0
    BY <1>2, <1>3 DEF Off
  <2> QED BY <2>1 DEF At, Init
<1>11. WireInv
  BY <1>2, <1>3, <1>10 DEF WireInv
<1>12. HeldInv
  BY <1>4, <1>10 DEF HeldInv, Held, Init
<1>13. ParserInv
  BY <1>6, <1>10 DEF ParserInv, ParserAt, Init
<1>14. GivenInv
  BY <1>3, <1>8 DEF GivenInv
<1>15. BodyInv
  BY DEF BodyInv, Init
<1>16. DoneInv
  BY <1>7 DEF DoneInv, Init
<1> QED BY <1>9, <1>11, <1>12, <1>13, <1>14, <1>15, <1>16 DEF IInv

LEMMA SendInv == ASSUME IInv, Send PROVE IInv'
<1>1. /\ pc = "send" /\ call' = call /\ wire' = wire /\ buf' = buf /\ left' = left
      /\ limit' = limit /\ pos' = pos /\ parser' = parser /\ received' = received
      /\ expired' = expired /\ given' = given
  BY DEF Send, parsing
<1>2. CASE pc' = "read" /\ open' = TRUE /\ result' = result
  <2>1. TypeInv'
    BY <1>1, <1>2 DEF IInv, TypeInv, Phases, BufferLen
  <2>2. WireInv' /\ Off' = Off
    BY <1>1, WireKept DEF IInv
  <2>3. HeldInv'
    BY <1>1, <1>2, <2>2 DEF IInv, HeldInv, Held, BufferLen
  <2>4. At' = At
    BY <1>1, <1>2, <2>2 DEF At
  <2>5. ParserInv'
    BY <1>1, <1>2, <2>4 DEF IInv, ParserInv, Early, reply
  <2>6. GivenInv'
    BY <1>1, <1>2, GivenKept DEF IInv, Early
  <2>7. BodyInv' /\ DoneInv'
    BY <1>1, <1>2 DEF IInv, BodyInv, DoneInv
  <2> QED BY <2>1, <2>2, <2>3, <2>5, <2>6, <2>7 DEF IInv
<1>3. CASE open' \in BOOLEAN /\ pc' = "done" /\ result' = Failed
  <2>1. TypeInv'
    BY <1>1, <1>3 DEF IInv, TypeInv, Phases, Failed, BufferLen
  <2>2. result'.kind = "error"
    BY <1>3 DEF Failed
  <2> QED BY <1>1, <1>3, <2>1, <2>2, Fails
<1> QED BY <1>2, <1>3 DEF Send

-----------------------------------------------------------------------------
(* Reading *)

LEMMA FailedIs ==
  /\ Failed \in [kind : {"running", "error", "ok"}, bytes : Nat] /\ Failed.kind = "error"
  /\ \A n \in Nat : /\ Success(n) \in [kind : {"running", "error", "ok"}, bytes : Nat]
                    /\ Success(n).kind = "ok"
BY DEF Failed, Success

\* The actions that only end the call.
LEMMA GivesUp ==
  ASSUME IInv, NEW b, Finish(Failed, b),
         UNCHANGED <<call, wire, buf, left, parsing, received, expired, given>>
  PROVE  IInv'
<1>1. /\ pc' = "done" /\ result' = Failed /\ open' \in BOOLEAN
  BY DEF Finish, IInv, TypeInv
<1>2. /\ call' = call /\ wire' = wire /\ buf' = buf /\ left' = left
      /\ limit' = limit /\ pos' = pos /\ parser' = parser /\ received' = received
      /\ expired' = expired /\ given' = given
  BY DEF parsing
<1>3. TypeInv'
  BY <1>1, <1>2, FailedIs DEF IInv, TypeInv, Phases, BufferLen
<1> QED BY <1>1, <1>2, <1>3, FailedIs, Fails

LEMMA ReadErrorInv == ASSUME IInv, ReadError PROVE IInv'
BY GivesUp DEF ReadError

LEMMA ReadNothingInv == ASSUME IInv, ReadNothing PROVE IInv'
BY GivesUp DEF ReadNothing

LEMMA TimerInv == ASSUME IInv, TimerExpires PROVE IInv'
<1>1. /\ expired' = TRUE /\ call' = call /\ wire' = wire /\ pc' = pc /\ buf' = buf /\ left' = left
      /\ limit' = limit /\ pos' = pos /\ parser' = parser /\ received' = received
      /\ result' = result /\ open' = open /\ given' = given
  BY DEF TimerExpires, parsing
<1>2. TypeInv'
  BY <1>1 DEF IInv, TypeInv, BufferLen
<1>3. WireInv' /\ Off' = Off
  BY <1>1, WireKept DEF IInv
<1>4. HeldInv'
  BY <1>1, <1>3 DEF IInv, HeldInv, Held, BufferLen
<1>5. At' = At
  BY <1>1, <1>3 DEF At
<1>6. ParserInv'
  BY <1>1, <1>5 DEF IInv, ParserInv, reply
<1>7. GivenInv'
  BY <1>1, GivenKept DEF IInv
<1>8. BodyInv'
  BY <1>1, <1>3 DEF IInv, BodyInv, BufferLen, reply
<1>9. DoneInv'
  BY <1>1 DEF IInv, DoneInv, BufferLen, reply, Announced
<1> QED BY <1>2, <1>3, <1>4, <1>6, <1>7, <1>8, <1>9 DEF IInv

LEMMA StutterInv == ASSUME IInv, UNCHANGED vars PROVE IInv'
<1>1. /\ expired' = expired /\ call' = call /\ wire' = wire /\ pc' = pc /\ buf' = buf
      /\ left' = left /\ limit' = limit /\ pos' = pos /\ parser' = parser
      /\ received' = received /\ result' = result /\ open' = open /\ given' = given
  BY DEF vars
<1>2. TypeInv'
  BY <1>1 DEF IInv, TypeInv, BufferLen
<1>3. WireInv' /\ Off' = Off
  BY <1>1, WireKept DEF IInv
<1>4. HeldInv'
  BY <1>1, <1>3 DEF IInv, HeldInv, Held, BufferLen
<1>5. At' = At
  BY <1>1, <1>3 DEF At
<1>6. ParserInv'
  BY <1>1, <1>5 DEF IInv, ParserInv, reply
<1>7. GivenInv'
  BY <1>1, GivenKept DEF IInv
<1>8. BodyInv'
  BY <1>1, <1>3 DEF IInv, BodyInv, BufferLen, reply
<1>9. DoneInv'
  BY <1>1 DEF IInv, DoneInv, BufferLen, reply, Announced
<1> QED BY <1>2, <1>3, <1>4, <1>6, <1>7, <1>8, <1>9 DEF IInv

\* The next n bytes of the wire after those already held.
LEMMA Advances ==
  ASSUME TypeInv, WireInv, NEW k \in 1..Len(wire), Consume(k), call' = call
  PROVE  /\ wire' \in Seq(Symbols) /\ WireInv'
         /\ Off \in Nat /\ Off' = Off + k /\ Off + k <= Len(Sent(call))
         /\ Take(k) \in Seq(Symbols) /\ Len(Take(k)) = k
         /\ \A i \in 1..k : Take(k)[i] = Sent(call)[Off + i]
<1> PICK w : w = Sent(call)
  OBVIOUS
<1> PICK n \in Nat : n = Len(w)
  BY CallIs
<1> PICK l \in Nat : l = Len(wire)
  BY DEF TypeInv
<1> PICK m : m = Off
  OBVIOUS
<1>1. wire \in Seq(Symbols)
  BY DEF TypeInv
<1>2. m = n - l /\ l <= n /\ \A i \in 1..l : wire[i] = w[m + i]
  BY DEF WireInv, Off
<1>3. PICK u : u = wire'
  OBVIOUS
<1>4. u = SubSeq(wire, k + 1, Len(wire))
  BY <1>3 DEF Consume
<1>5. /\ Take(k) \in Seq(Symbols) /\ Len(Take(k)) = k /\ \A i \in 1..k : Take(k)[i] = wire[i]
      /\ u \in Seq(Symbols) /\ Len(u) = l - k /\ \A i \in 1..(l - k) : u[i] = wire[k + i]
  <2>1. PICK t : t = SubSeq(wire, 1, k)
    OBVIOUS
  <2>2. /\ t \in Seq(Symbols) /\ Len(t) = k /\ \A i \in 1..k : t[i] = wire[i]
        /\ u \in Seq(Symbols) /\ Len(u) = Len(wire) - k
        /\ \A i \in 1..Len(u) : u[i] = wire[k + i]
    BY <1>1, <1>4, <2>1, Reads
  <2> QED BY <2>1, <2>2 DEF Take
<1>6. Off' = n - (l - k)
  BY <1>3, <1>5 DEF Off
<1>7. n - (l - k) = m + k /\ m \in Nat /\ m + k <= n
  BY <1>2
<1>8. \A i \in 1..k : Take(k)[i] = w[m + i]
  <2>1. \A i \in 1..k : i \in 1..l
    OBVIOUS
  <2> QED BY <1>2, <1>5, <2>1
<1>9. \A i \in 1..(l - k) : u[i] = w[m + k + i]
  <2> TAKE i \in 1..(l - k)
  <2>1. k + i \in 1..l /\ m + (k + i) = m + k + i
    BY <1>2, <1>7
  <2>2. u[i] = wire[k + i]
    BY <1>5
  <2>3. wire[k + i] = w[m + (k + i)]
    BY <1>2, <2>1
  <2> QED BY <2>1, <2>2, <2>3
<1>10. WireInv'
  <2>1. l - k <= n
    BY <1>2
  <2> QED BY <1>3, <1>5, <1>6, <1>7, <1>9, <2>1 DEF WireInv
<1> QED BY <1>3, <1>5, <1>6, <1>7, <1>8, <1>10

\* Bytes that follow those held are put behind them.
LEMMA HeldMore ==
  ASSUME TypeInv, NEW h \in Nat, NEW k \in Nat, Off \in Nat, Held(h),
         NEW t, Len(t) = k, h + k <= BufferLen,
         \A i \in 1..k : t[i] = Sent(call)[Off + i],
         Fills(buf, h, t, buf'), call' = call, Off' = Off + k
  PROVE  Held(h + k)'
<1> PICK w : w = Sent(call)
  OBVIOUS
<1> PICK m \in Nat : m = Off
  OBVIOUS
<1> PICK b : b = buf'
  OBVIOUS
<1>1. h <= m /\ \A i \in 1..h : buf[i] = w[m - h + i]
  BY DEF Held
<1>2. (\A i \in 1..h : b[i] = buf[i]) /\ \A i \in 1..k : b[h + i] = t[i]
  BY DEF Fills
<1>3. ASSUME NEW i \in 1..(h + k) PROVE b[i] = w[m + k - (h + k) + i]
  <2>1. CASE i \in 1..h
    <3>1. m + k - (h + k) + i = m - h + i
      OBVIOUS
    <3> QED BY <1>1, <1>2, <2>1, <3>1
  <2>2. CASE i \notin 1..h
    <3>1. i - h \in 1..k /\ h + (i - h) = i /\ m + (i - h) = m + k - (h + k) + i
      BY <2>2
    <3>2. b[i] = t[i - h] /\ t[i - h] = w[m + (i - h)]
      BY <1>2, <3>1
    <3> QED BY <3>1, <3>2
  <2> QED BY <2>1, <2>2
<1>4. h + k <= m + k
  BY <1>1
<1>5. Off' = m + k /\ BufferLen' = BufferLen /\ Sent(call)' = w
  BY DEF BufferLen
<1>6. h + k <= Off' /\ h + k <= BufferLen'
  BY <1>4, <1>5
<1>7. \A i \in 1..(h + k) : buf'[i] = Sent(call)'[Off' - (h + k) + i]
  BY <1>3, <1>5
<1> QED BY <1>6, <1>7 DEF Held

LEMMA ReadHeaderInv == ASSUME IInv, NEW k \in 1..BufferLen, ReadHeader(k) PROVE IInv'
<1>1. /\ pc = "read" /\ pc' = "parse" /\ call' = call /\ left' = left /\ limit' = left + k
      /\ pos' = 0 /\ parser' = parser /\ received' = received /\ expired' = expired
      /\ result' = result /\ open' = open /\ given' = given
      /\ buf' = Ended(Put(buf, left, Take(k)), left + k)
      /\ Consume(k) /\ k \in Pieces(BufferLen - left)
  BY DEF ReadHeader
<1>2. TypeInv /\ WireInv
  BY DEF IInv
<1>3. BufferLen \in Nat /\ left \in 0..BufferLen /\ buf \in [1..BufferLen -> Symbols]
  BY <1>1, <1>2, CallIs DEF TypeInv
<1>4. k \in 1..Len(wire) /\ left + k <= BufferLen
  <2> PICK l \in Nat : l = Len(wire)
    BY <1>2 DEF TypeInv
  <2> QED BY <1>1, <1>3 DEF Pieces
<1>5. /\ wire' \in Seq(Symbols) /\ WireInv' /\ Off \in Nat /\ Off' = Off + k
      /\ Take(k) \in Seq(Symbols) /\ Len(Take(k)) = k
      /\ \A i \in 1..k : Take(k)[i] = Sent(call)[Off + i]
  BY <1>1, <1>2, <1>4, Advances
<1>6. Fills(buf, left, Take(k), buf')
  <2>1. buf' = Ended(Put(buf, left, Take(k)), left + Len(Take(k)))
    BY <1>1, <1>5
  <2>2. left \in Nat /\ left + Len(Take(k)) <= BufferLen
    BY <1>3, <1>4, <1>5
  <2> QED BY <1>3, <1>5, <2>1, <2>2, Filled
<1>7. TypeInv'
  <2>1. buf' \in [1..BufferLen -> Symbols]
    BY <1>6 DEF Fills
  <2>2. limit' \in 0..BufferLen /\ pos' \in Nat
    BY <1>1, <1>3, <1>4
  <2> QED BY <1>1, <1>2, <1>5, <2>1, <2>2 DEF TypeInv, Phases, BufferLen
<1>8. HeldInv'
  <2>1. Held(left)
    BY <1>1 DEF IInv, HeldInv
  <2>2. Held(left + k)'
    <3> PICK h \in Nat : h = left
      BY <1>3
    <3> PICK t : t = Take(k)
      OBVIOUS
    <3>1. Held(h) /\ h + k <= BufferLen /\ k \in Nat
      BY <1>4, <2>1
    <3>2. Len(t) = k /\ \A i \in 1..k : t[i] = Sent(call)[Off + i]
      BY <1>5
    <3>3. Fills(buf, h, t, buf') /\ call' = call /\ Off' = Off + k /\ Off \in Nat
      BY <1>1, <1>5, <1>6
    <3>4. Held(h + k)'
      BY <1>2, <3>1, <3>2, <3>3, HeldMore
    <3> QED BY <1>1, <3>4
  <2>3. 0 <= left + k
    BY <1>3
  <2> QED BY <1>1, <2>2, <2>3 DEF HeldInv, Held
<1>9. At' = At
  BY <1>1, <1>3, <1>5 DEF At
<1>10. ParserInv'
  BY <1>1, <1>9 DEF IInv, ParserInv, Early, reply
<1>11. GivenInv'
  BY <1>1, GivenKept DEF IInv, Early
<1>12. BodyInv' /\ DoneInv'
  BY <1>1 DEF IInv, BodyInv, DoneInv
<1> QED BY <1>5, <1>7, <1>8, <1>10, <1>11, <1>12 DEF IInv

-----------------------------------------------------------------------------
(* Parsing *)

\* The parser goes on with what is given to it.
LEMMA ParseGoes ==
  ASSUME IInv, pc = "parse", Parsing, result' = result, open' = open,
         NEW n \in Nat, pos + n <= limit, pos' = pos + n, pc' \in {"parse", "parsed"},
         parser' \in ParserType, ParserAt(reply, Sent(call), parser', At + n),
         pc' = "parse" => parser'.state # "end"
  PROVE  IInv'
<1>1. /\ call' = call /\ wire' = wire /\ buf' = buf /\ left' = left /\ limit' = limit
      /\ received' = received /\ expired' = expired /\ given' = given
  BY DEF Parsing
<1>2. pos \in Nat /\ limit \in Nat
  BY CallIs DEF IInv, TypeInv
<1>3. TypeInv'
  BY <1>1, <1>2 DEF IInv, TypeInv, ParserType, Phases, BufferLen
<1>4. WireInv' /\ Off' = Off
  BY <1>1, WireKept DEF IInv
<1>5. HeldInv'
  BY <1>1, <1>4 DEF IInv, HeldInv, Held, BufferLen
<1>6. At' = At + n
  <2>1. Off \in Int
    BY CallIs DEF IInv, TypeInv, Off
  <2> QED BY <1>1, <1>2, <1>4, <2>1 DEF At
<1>7. ParserInv'
  BY <1>1, <1>6 DEF ParserInv, reply
<1>8. GivenInv'
  BY <1>1, GivenKept DEF IInv, Early
<1>9. BodyInv' /\ DoneInv'
  BY DEF IInv, BodyInv, DoneInv
<1> QED BY <1>3, <1>4, <1>5, <1>7, <1>8, <1>9 DEF IInv

LEMMA ParseFailsInv ==
  ASSUME IInv, ParserFails, Parsing PROVE IInv'
BY GivesUp DEF ParserFails, Parsing, parsing

\* What is ahead is the wire from where the parser is.
LEMMA AheadIs ==
  ASSUME IInv, pc = "parse"
  PROVE  /\ AheadOf(Sent(call), At, Ahead) /\ Len(Ahead) = limit - pos
         /\ pos \in Nat /\ limit \in Nat /\ pos <= limit /\ At \in Nat
         /\ ParserAt(reply, Sent(call), parser, At) /\ parser \in ParserType
         /\ HeaderSymbols(reply, Sent(call)) /\ parser.state # "end"
<1>1. TypeInv /\ Held(limit) /\ pos <= limit
  BY DEF IInv, HeldInv
<1>2. /\ BufferLen \in Nat /\ buf \in [1..BufferLen -> Symbols]
      /\ limit \in 0..BufferLen /\ pos \in Nat
  BY <1>1, CallIs DEF TypeInv
<1> PICK a : a = Ahead
  OBVIOUS
<1>3. a \in Seq(Symbols) /\ Len(a) = limit - pos /\ \A i \in 1..(limit - pos) : a[i] = buf[pos + i]
  BY <1>1, <1>2, PartOf DEF Ahead
<1>4. Off \in Int
  BY <1>1, CallIs DEF TypeInv, Off
<1>5. /\ At = Off - limit + pos /\ limit <= Off
      /\ \A i \in 1..limit : buf[i] = Sent(call)[Off - limit + i]
  BY <1>1 DEF At, Held
<1>6. ASSUME NEW i \in 1..(limit - pos) PROVE a[i] = Sent(call)[At + i]
  <2>1. pos + i \in 1..limit /\ Off - limit + (pos + i) = At + i
    BY <1>1, <1>2, <1>4, <1>5
  <2> QED BY <1>3, <1>5, <2>1
<1>7. AheadOf(Sent(call), At, a)
  BY <1>3, <1>6 DEF AheadOf
<1>8. At \in Nat
  BY <1>1, <1>2, <1>4, <1>5
<1>9. ParserAt(reply, Sent(call), parser, At) /\ parser.state # "end"
  BY DEF IInv, ParserInv, Early
<1>10. parser \in ParserType
  BY <1>1 DEF TypeInv, ParserType
<1> QED BY <1>1, <1>2, <1>3, <1>7, <1>8, <1>9, <1>10, CallIs

\* The parser stops where it is.
LEMMA Stops ==
  ASSUME IInv, pc = "parse", StopAt(0), UNCHANGED <<result, open>>, Parsing
  PROVE  IInv'
<1>1. /\ pos \in Nat /\ limit \in Nat /\ pos <= limit /\ At \in Nat
      /\ ParserAt(reply, Sent(call), parser, At) /\ parser \in ParserType
  BY AheadIs
<1>2. pos' = pos + 0 /\ pc' = "parsed" /\ parser' = parser
  BY DEF StopAt
<1>3. PICK n \in Nat : n = 0
  OBVIOUS
<1>4. pos + n <= limit /\ pos' = pos + n /\ At + n = At
  BY <1>1, <1>2, <1>3
<1>5. ParserAt(reply, Sent(call), parser', At + n)
  BY <1>1, <1>2, <1>4
<1> QED BY <1>1, <1>2, <1>4, <1>5, ParseGoes

LEMMA ParseOutInv == ASSUME IInv, ParseOut PROVE IInv'
BY Stops DEF ParseOut

LEMMA AheadOne ==
  ASSUME IInv, pc = "parse", Ahead # <<>>
  PROVE  1 \in 1..Len(Ahead) /\ pos + 1 <= limit /\ Ahead[1] \in Symbols
         /\ Ahead[1] = Sent(call)[At + 1]
<1>1. Ahead \in Seq(Symbols)
  BY AheadIs DEF AheadOf
<1>2. Len(Ahead) \in Nat /\ Len(Ahead) # 0
  BY <1>1
<1>3. 1 \in 1..Len(Ahead)
  BY <1>2
<1> QED BY <1>1, <1>3, AheadIs DEF AheadOf

LEMMA ParseStartInv == ASSUME IInv, ParseStart PROVE IInv'
<1>1. pc = "parse" /\ parser.state = "start" /\ Ahead # <<>> /\ Parsing
  BY DEF ParseStart, In
<1>2. CASE StopAt(0) /\ UNCHANGED <<result, open>>
  BY <1>1, <1>2, Stops
<1>3. CASE ParserFails
  BY <1>1, <1>3, ParseFailsInv
<1>4. CASE /\ GoOn(1, [parser EXCEPT !.status = Ahead[1], !.state = "to_return"])
           /\ UNCHANGED <<result, open>>
  <2> PICK q : q = [parser EXCEPT !.status = Ahead[1], !.state = "to_return"]
    OBVIOUS
  <2>1. pos' = pos + 1 /\ parser' = q /\ pc' = "parse" /\ result' = result /\ open' = open
    BY <1>1, <1>4 DEF GoOn
  <2>2. Ahead[1] \in Symbols /\ pos + 1 <= limit
    BY <1>1, AheadOne
  <2>3. q \in ParserType /\ q.state = "to_return"
    BY <1>1, <2>2, AheadIs DEF ParserType, States
  <2>4. ParserAt(reply, Sent(call), q, At + 1)
    BY <1>1, <2>2, AheadIs, StartStep
  <2> QED BY <1>1, <2>1, <2>2, <2>3, <2>4, ParseGoes
<1> QED BY <1>2, <1>3, <1>4 DEF ParseStart

LEMMA ParseToReturnInv == ASSUME IInv, ParseToReturn PROVE IInv'
<1>1. /\ pc = "parse" /\ parser.state = "to_return" /\ Parsing
      /\ result' = result /\ open' = open
  BY DEF ParseToReturn, In
<1>2. CASE Contains(Ahead, "cr")
  <2> PICK k : k = CHOOSE n \in 1..Len(Ahead) :
                     Ahead[n] = "cr" /\ ~Contains(SubSeq(Ahead, 1, n - 1), "cr")
    OBVIOUS
  <2> PICK q : q = [parser EXCEPT !.state = "newline"]
    OBVIOUS
  <2>1. pos' = pos + k /\ parser' = q /\ pc' = "parse"
    BY <1>1, <1>2 DEF ParseToReturn, GoOn
  <2>2. k \in 1..Len(Ahead) /\ ParserAt(reply, Sent(call), q, At + k)
    BY <1>1, <1>2, AheadIs, ReturnFound
  <2>3. q \in ParserType /\ q.state = "newline"
    BY <1>1, AheadIs DEF ParserType, States
  <2>4. k \in Nat /\ pos + k <= limit
    BY <1>1, <2>2, AheadIs
  <2> QED BY <1>1, <2>1, <2>2, <2>3, <2>4, ParseGoes
<1>3. CASE ~Contains(Ahead, "cr")
  <2> PICK k : k = Len(Ahead)
    OBVIOUS
  <2>1. pos' = pos + k /\ parser' = parser /\ pc' = "parsed"
    BY <1>1, <1>3 DEF ParseToReturn, StopAt
  <2>2. ParserAt(reply, Sent(call), parser, At + k)
    BY <1>1, <1>3, AheadIs, ReturnMissing
  <2>3. k \in Nat /\ pos + k <= limit
    BY <1>1, AheadIs
  <2> QED BY <1>1, <2>1, <2>2, <2>3, AheadIs, ParseGoes
<1> QED BY <1>2, <1>3

LEMMA ParseNewlineInv == ASSUME IInv, ParseNewline PROVE IInv'
<1>1. pc = "parse" /\ parser.state = "newline" /\ Ahead # <<>> /\ Parsing
  BY DEF ParseNewline, In
<1>2. CASE ParserFails
  BY <1>1, <1>2, ParseFailsInv
<1>3. CASE GoOn(1, [parser EXCEPT !.state = "header"]) /\ UNCHANGED <<result, open>>
  <2> PICK q : q = [parser EXCEPT !.state = "header"]
    OBVIOUS
  <2>1. pos' = pos + 1 /\ parser' = q /\ pc' = "parse" /\ result' = result /\ open' = open
    BY <1>1, <1>3 DEF GoOn
  <2>2. pos + 1 <= limit
    BY <1>1, AheadOne
  <2>3. q \in ParserType /\ q.state = "header"
    BY <1>1, AheadIs DEF ParserType, States
  <2>4. ParserAt(reply, Sent(call), q, At + 1)
    BY <1>1, AheadIs, NewlineStep
  <2> QED BY <1>1, <2>1, <2>2, <2>3, <2>4, ParseGoes
<1> QED BY <1>2, <1>3 DEF ParseNewline

LEMMA ParseToBodyInv == ASSUME IInv, ParseToBody PROVE IInv'
<1>1. pc = "parse" /\ parser.state = "to_body" /\ Ahead # <<>> /\ Parsing
  BY DEF ParseToBody, In
<1>2. CASE ParserFails
  BY <1>1, <1>2, ParseFailsInv
<1>3. CASE /\ pos' = pos + 1 /\ parser' = [parser EXCEPT !.state = "end"] /\ pc' = "parsed"
           /\ UNCHANGED <<result, open>>
  <2> PICK q : q = [parser EXCEPT !.state = "end"]
    OBVIOUS
  <2>1. pos' = pos + 1 /\ parser' = q /\ pc' = "parsed" /\ result' = result /\ open' = open
    BY <1>3
  <2>2. pos + 1 <= limit
    BY <1>1, AheadOne
  <2>3. q \in ParserType
    BY <1>1, AheadIs DEF ParserType, States
  <2>4. ParserAt(reply, Sent(call), q, At + 1)
    BY <1>1, AheadIs, ToBodyStep
  <2> QED BY <1>1, <2>1, <2>2, <2>3, <2>4, ParseGoes
<1> QED BY <1>2, <1>3 DEF ParseToBody

LEMMA ParseHeaderInv == ASSUME IInv, ParseHeader PROVE IInv'
<1>1. /\ pc = "parse" /\ parser.state = "header" /\ Ahead # <<>> /\ Parsing
      /\ result' = result /\ open' = open
  BY DEF ParseHeader, In
<1> PICK a : a = Ahead
  OBVIOUS
<1> PICK v : v = SubSeq(a, 3, Len(a))
  OBVIOUS
<1> PICK s : s = [parser EXCEPT !.state = "to_return"]
  OBVIOUS
<1> PICK q : q = CASE a[1] = "Content-Length" -> [s EXCEPT !.length = ParseInt(v)]
                   [] a[1] = "Transfer-Encoding" -> [s EXCEPT !.chunked = TRUE]
                   [] OTHER -> s
  OBVIOUS
<1>2. IF a[1] = "cr" THEN GoOn(1, [parser EXCEPT !.state = "to_body"])
      ELSE IF ~Contains(a, ":") \/ (a[1] # "Age" /\ ~LineEnded(v)) THEN StopAt(0)
      ELSE GoOn(2, q)
  BY DEF ParseHeader
<1>3. CASE StopAt(0)
  BY <1>1, <1>3, Stops
<1>4. CASE a[1] = "cr" /\ GoOn(1, [parser EXCEPT !.state = "to_body"])
  <2> PICK z : z = [parser EXCEPT !.state = "to_body"]
    OBVIOUS
  <2>1. pos' = pos + 1 /\ parser' = z /\ pc' = "parse"
    BY <1>1, <1>4 DEF GoOn
  <2>2. pos + 1 <= limit /\ Sent(call)[At + 1] = "cr"
    BY <1>1, <1>4, AheadOne
  <2>3. z \in ParserType /\ z.state = "to_body"
    BY <1>1, AheadIs DEF ParserType, States
  <2>4. ParserAt(reply, Sent(call), z, At + 1)
    BY <1>1, <2>2, AheadIs, LastStep
  <2> QED BY <1>1, <2>1, <2>2, <2>3, <2>4, ParseGoes
<1>5. CASE /\ a[1] # "cr" /\ Contains(a, ":") /\ (a[1] = "Age" \/ LineEnded(v)) /\ GoOn(2, q)
  <2>1. pos' = pos + 2 /\ parser' = q /\ pc' = "parse"
    BY <1>1, <1>5 DEF GoOn
  <2>2. Body(reply) \in Seq(STRING)
    BY CallIs DEF IInv
  <2>3. 2 <= Len(a) /\ q \in ParserType /\ ParserAt(reply, Sent(call), q, At + 2)
    BY <1>1, <1>5, <2>2, AheadIs, HeaderStep
  <2>4. q.state # "end"
    <3>1. s.state = "to_return" /\ s \in ParserType
      BY <1>1, AheadIs DEF ParserType, States
    <3> QED BY <3>1 DEF ParserType
  <2>5. pos + 2 <= limit
    BY <1>1, <2>3, AheadIs
  <2> QED BY <1>1, <2>1, <2>3, <2>4, <2>5, ParseGoes
<1> QED BY <1>2, <1>3, <1>4, <1>5

-----------------------------------------------------------------------------
(* The start of the body *)

LEMMA ParsedInv == ASSUME IInv, Parsed PROVE IInv'
<1>1. /\ pc = "parsed" /\ left' = limit - pos /\ call' = call /\ wire' = wire
      /\ limit' = limit /\ pos' = pos /\ parser' = parser
      /\ received' = received /\ expired' = expired /\ given' = given
  BY DEF Parsed, parsing
<1> PICK s : s = SubSeq(buf, pos + 1, limit)
  OBVIOUS
<1>2. buf' = IF s = <<>> THEN buf ELSE Ended(Put(buf, 0, s), Len(s))
  BY DEF Parsed
<1>3. TypeInv /\ WireInv /\ Held(limit) /\ pos <= limit
  BY <1>1 DEF IInv, HeldInv
<1>4. /\ BufferLen \in Nat /\ buf \in [1..BufferLen -> Symbols]
      /\ limit \in 0..BufferLen /\ limit \in Nat /\ pos \in Nat
  BY <1>1, <1>3, CallIs DEF TypeInv
<1> PICK n \in Nat : n = limit - pos
  BY <1>3, <1>4
<1>5. s \in Seq(Symbols) /\ Len(s) = n /\ \A i \in 1..n : s[i] = buf[pos + i]
  BY <1>3, <1>4, PartOf
<1>6. buf' \in [1..BufferLen -> Symbols] /\ \A i \in 1..n : buf'[i] = s[i]
  <2>1. CASE s = <<>>
    <3>1. n = 0
      BY <1>5, <2>1
    <3> QED BY <1>2, <1>4, <2>1, <3>1
  <2>2. CASE s # <<>>
    <3>1. PICK z \in Nat : z = 0
      OBVIOUS
    <3>2. z + Len(s) <= BufferLen /\ z + Len(s) = Len(s)
      BY <1>4, <1>5, <3>1
    <3>3. buf' = Ended(Put(buf, z, s), z + Len(s))
      BY <1>2, <2>2, <3>1, <3>2
    <3>4. Fills(buf, z, s, buf')
      BY <1>4, <1>5, <3>2, <3>3, Filled
    <3>5. \A i \in 1..n : z + i = i
      BY <3>1
    <3> QED BY <1>5, <3>4, <3>5 DEF Fills
  <2> QED BY <2>1, <2>2
<1>7. WireInv' /\ Off' = Off
  BY <1>1, <1>3, WireKept
<1>8. Off \in Int
  BY <1>3, CallIs DEF TypeInv, Off
<1>9. left' = n /\ n <= Off /\ n <= BufferLen
        /\ \A i \in 1..n : buf'[i] = Sent(call)[Off - n + i]
  <2>1. left' = n /\ n <= Off /\ n <= BufferLen
    BY <1>1, <1>3, <1>4, <1>8 DEF Held
  <2>2. ASSUME NEW i \in 1..n PROVE buf'[i] = Sent(call)[Off - n + i]
    <3>1. pos + i \in 1..limit /\ Off - limit + (pos + i) = Off - n + i
      BY <1>3, <1>4, <1>8
    <3>2. buf[pos + i] = Sent(call)[Off - limit + (pos + i)]
      BY <1>3, <3>1 DEF Held
    <3> QED BY <1>5, <1>6, <3>1, <3>2
  <2> QED BY <2>1, <2>2
<1>10. Held(left)'
  BY <1>1, <1>7, <1>9 DEF Held, BufferLen
<1>11. left' \in 0..BufferLen
  BY <1>9
<1>12. CASE Finish(Failed, TRUE)
  <2>1. pc' = "done" /\ result' = Failed /\ open' = FALSE
    BY <1>12 DEF Finish
  <2>2. TypeInv'
    BY <1>1, <1>3, <1>11, <2>1, FailedIs DEF TypeInv, Phases, BufferLen
  <2> QED BY <1>1, <2>1, <2>2, FailedIs, Fails
<1>13. CASE parser.state # "end" /\ Finish(Success(limit), TRUE)
  <2>1. pc' = "done" /\ result' = Success(limit) /\ open' = FALSE
    BY <1>13 DEF Finish
  <2>2. TypeInv'
    BY <1>1, <1>3, <1>4, <1>11, <2>1, FailedIs DEF TypeInv, Phases, BufferLen
  <2>3. GivenInv'
    BY <1>1, <2>1, GivenKept DEF IInv, Early
  <2>4. DoneInv'
    BY <1>1, <1>13, <2>1 DEF DoneInv
  <2> QED BY <1>7, <2>1, <2>2, <2>3, <2>4, Over
<1>14. CASE /\ pc' \in {"body", "read"} /\ UNCHANGED <<result, open>>
            /\ pc' = "body" <=> parser.state = "end"
  <2>1. TypeInv'
    BY <1>1, <1>3, <1>6, <1>11, <1>14 DEF TypeInv, Phases, BufferLen
  <2>2. HeldInv'
    BY <1>10, <1>14 DEF HeldInv
  <2>3. At' = At
    <3>1. At' = Off - n
      BY <1>7, <1>9, <1>14 DEF At
    <3>2. At = Off - limit + pos
      BY <1>1 DEF At
    <3> QED BY <1>4, <1>8, <3>1, <3>2
  <2>4. ParserInv'
    BY <1>1, <1>14, <2>3 DEF IInv, ParserInv, Early, reply
  <2>5. GivenInv'
    BY <1>1, <1>14, GivenKept DEF IInv, Early
  <2>6. BodyInv' /\ DoneInv'
    BY <1>1, <1>14 DEF IInv, BodyInv, DoneInv
  <2> QED BY <1>7, <2>1, <2>2, <2>4, <2>5, <2>6 DEF IInv
<1>15. \/ Finish(Failed, TRUE)
       \/ parser.state = "end" /\ pc' = "body" /\ UNCHANGED <<result, open>>
       \/ parser.state # "end" /\ Finish(Success(limit), TRUE)
       \/ parser.state # "end" /\ pc' = "read" /\ UNCHANGED <<result, open>>
  BY DEF Parsed
<1> QED BY <1>12, <1>13, <1>14, <1>15

\* The body begins where the parser ended.
LEMMA AtBody ==
  ASSUME IInv, pc = "body"
  PROVE  /\ Off = BodyAt(call) + left /\ Held(left) /\ parser.state = "end"
         /\ Found(reply, parser, LastLine(reply)) /\ given.data = <<>>
<1>1. Held(left) /\ parser.state = "end" /\ given.data = <<>> /\ At = Off - left
  BY DEF IInv, HeldInv, ParserInv, GivenInv, Early, At
<1>2. ParserAt(reply, Sent(call), parser, At)
  BY DEF IInv, ParserInv, Early
<1>3. At = BodyAt(call) /\ Found(reply, parser, LastLine(reply))
  BY <1>1, <1>2 DEF ParserAt, BodyAt, reply
<1>4. Off \in Int /\ left \in Nat
  BY CallIs DEF IInv, TypeInv, Off
<1> QED BY <1>1, <1>3, <1>4

LEMMA BodyStartsInv == ASSUME IInv, BodyStarts PROVE IInv'
<1>1. /\ pc = "body" /\ received' = left /\ call' = call /\ wire' = wire /\ buf' = buf
      /\ left' = left /\ limit' = limit /\ pos' = pos /\ parser' = parser
      /\ expired' = expired
  BY DEF BodyStarts, parsing
<1>2. /\ TypeInv /\ WireInv /\ GivenInv /\ BufferLen \in Nat /\ left \in 0..BufferLen
      /\ left \in Nat /\ buf \in [1..BufferLen -> Symbols] /\ parser \in ParserType
  BY <1>1, CallIs DEF IInv, TypeInv, ParserType
<1>3. /\ Off = BodyAt(call) + left /\ Held(left) /\ parser.state = "end"
      /\ Found(reply, parser, LastLine(reply)) /\ given.data = <<>>
  BY <1>1, AtBody
<1>4. WireInv' /\ Off' = Off
  BY <1>1, <1>2, WireKept
<1>5. CASE given' = given /\ \E b : Finish(Failed, b) /\ b \in BOOLEAN
  <2>1. pc' = "done" /\ result' = Failed /\ open' \in BOOLEAN
    BY <1>2, <1>5 DEF Finish, TypeInv
  <2>2. TypeInv'
    BY <1>1, <1>2, <1>5, <2>1, FailedIs DEF TypeInv, Phases, BufferLen
  <2> QED BY <1>1, <1>5, <2>1, <2>2, FailedIs, Fails
<1>6. CASE call.head /\ given' = given /\ Finish(Success(0), FALSE)
  <2>1. pc' = "done" /\ result' = Success(0) /\ open' = open
    BY <1>6 DEF Finish
  <2>2. TypeInv'
    <3>1. 0 \in Nat
      OBVIOUS
    <3> QED BY <1>1, <1>2, <1>6, <2>1, <3>1, FailedIs DEF TypeInv, Phases, BufferLen
  <2>3. GivenInv'
    BY <1>1, <1>2, <1>6, <2>1, GivenKept DEF Early
  <2>4. DoneInv'
    BY <1>1, <1>6, <2>1 DEF DoneInv
  <2> QED BY <1>4, <2>1, <2>2, <2>3, <2>4, Over
<1>7. CASE /\ ~call.head /\ ~(parser.length > BufferLen)
           /\ pc' = (IF parser.chunked THEN "chunks" ELSE "identity")
           /\ UNCHANGED <<result, open, given>>
  <2>1. /\ pc' \in {"chunks", "identity"} /\ result' = result /\ open' = open /\ given' = given
        /\ pc' = "identity" => ~parser.chunked
        /\ pc' = "chunks" => parser.chunked
    BY <1>7
  <2>2. TypeInv'
    BY <1>1, <1>2, <2>1 DEF TypeInv, Phases, BufferLen
  <2>3. Held(received)'
    BY <1>1, <1>3, <1>4 DEF Held, BufferLen
  <2>4. HeldInv'
    BY <2>1, <2>3 DEF HeldInv
  <2>5. ParserInv'
    BY <2>1 DEF ParserInv, Early
  <2>6. GivenInv'
    BY <1>1, <1>2, <2>1, GivenKept DEF Early
  <2>7. BodyInv'
    <3>1. parser.length <= BufferLen
      BY <1>2, <1>7 DEF ParserType
    <3> QED BY <1>1, <1>3, <1>4, <1>7, <2>1, <3>1 DEF BodyInv, reply, BufferLen
  <2>8. DoneInv'
    BY <1>1, <2>1 DEF IInv, DoneInv
  <2> QED BY <1>4, <2>2, <2>4, <2>5, <2>6, <2>7, <2>8 DEF IInv
<1>8. CASE /\ ~call.head /\ parser.length > BufferLen /\ Give(Prefix(left), left)
           /\ (pc' = "stream" /\ UNCHANGED <<result, open>>) \/ Finish(Failed, FALSE)
  <2> PICK d : d = Prefix(left)
    OBVIOUS
  <2>1. d \in Seq(Symbols) /\ Len(d) = left /\ \A i \in 1..left : d[i] = buf[i]
    <3>1. PICK z \in Nat : z = 0
      OBVIOUS
    <3>2. d = SubSeq(buf, z + 1, left) /\ z <= left /\ left - z = left
      BY <1>2, <3>1 DEF Prefix
    <3>3. d \in Seq(Symbols) /\ Len(d) = left - z /\ \A i \in 1..(left - z) : d[i] = buf[z + i]
      BY <1>2, <3>1, <3>2, PartOf
    <3>4. \A i \in 1..left : z + i = i
      BY <3>1
    <3> QED BY <3>2, <3>3, <3>4
  <2>2. given' = [data |-> d, offset |-> left]
    <3>1. <<>> \o d = d
      BY <2>1, ConcatEmptySeq
    <3> QED BY <1>3, <1>8, <3>1 DEF Give
  <2> PICK g : g = given'
    OBVIOUS
  <2>3. g.data = d /\ g.offset = left /\ g \in [data : Seq(Symbols), offset : Nat]
    BY <1>2, <2>1, <2>2
  <2>4. \A i \in 1..left : d[i] = Sent(call)[BodyAt(call) + i]
    <3>1. Off - left = BodyAt(call)
      BY <1>2, <1>3, CallIs
    <3> QED BY <1>3, <2>1, <3>1 DEF Held
  <2>5. BodyAt(call) + left <= Len(Sent(call))
    <3>1. Len(wire) \in Nat /\ Len(Sent(call)) \in Nat
      BY <1>2, CallIs DEF TypeInv
    <3> QED BY <1>2, <1>3, <3>1 DEF Off
  <2>6. /\ pc' \in {"stream", "done"} /\ result' \in {result, Failed} /\ open' = open
        /\ pc' = "stream" => result' = result
        /\ pc' = "done" => result' = Failed
    BY <1>8 DEF Finish
  <2>7. TypeInv'
    BY <1>1, <1>2, <2>3, <2>6, FailedIs DEF TypeInv, Phases, BufferLen
  <2>8. GivenInv'
    BY <1>1, <1>8, <2>1, <2>3, <2>4, <2>5, <2>6 DEF GivenInv, Early
  <2>9. HeldInv' /\ ParserInv'
    BY <2>6 DEF HeldInv, ParserInv, Early
  <2>10. BodyInv'
    BY <1>1, <1>3, <1>4, <1>8, <2>1, <2>3, <2>6 DEF BodyInv, reply, BufferLen
  <2>11. DoneInv'
    BY <1>1, <2>6, FailedIs DEF IInv, DoneInv
  <2> QED BY <1>4, <2>7, <2>8, <2>9, <2>10, <2>11 DEF IInv
<1> QED BY <1>1, <1>5, <1>6, <1>7, <1>8 DEF BodyStarts

-----------------------------------------------------------------------------
(* The body *)

\* What is known of a body while it is read.
LEMMA InTheBody ==
  ASSUME IInv, pc \in {"stream", "identity", "chunks"}
  PROVE  /\ ~call.head /\ parser.state = "end" /\ Off = BodyAt(call) + received
         /\ received \in Nat /\ BufferLen \in Nat /\ parser \in ParserType
         /\ received <= Len(Sent(call)) - BodyAt(call)
         /\ Announced => /\ ~parser.chunked /\ parser.length = Len(Body(reply))
                         /\ Body(reply) \in Seq(STRING)
                         /\ Len(Sent(call)) - BodyAt(call) = Len(Body(reply))
                         /\ \A i \in 1..Len(Body(reply)) :
                              Sent(call)[BodyAt(call) + i] = Body(reply)[i]
<1>1. /\ ~call.head /\ parser.state = "end" /\ Off = BodyAt(call) + received
      /\ Found(reply, parser, LastLine(reply))
  BY DEF IInv, BodyInv
<1>2. received \in Nat /\ BufferLen \in Nat /\ parser \in ParserType
  BY CallIs DEF IInv, TypeInv, ParserType
<1>3. received <= Len(Sent(call)) - BodyAt(call)
  <2>1. Len(wire) \in Nat /\ Len(Sent(call)) \in Nat /\ BodyAt(call) \in Nat
    BY CallIs DEF IInv, TypeInv
  <2> QED BY <1>1, <1>2, <2>1 DEF Off
<1>4. ASSUME Announced
      PROVE  /\ ~parser.chunked /\ parser.length = Len(Body(reply))
             /\ Body(reply) \in Seq(STRING)
             /\ Len(Sent(call)) - BodyAt(call) = Len(Body(reply))
             /\ \A i \in 1..Len(Body(reply)) : Sent(call)[BodyAt(call) + i] = Body(reply)[i]
  <2>1. "chunked" \notin reply.headers
    BY <1>4 DEF Announced, Chunked
  <2>2. ~parser.chunked
    BY <1>1, <2>1 DEF Found
  <2>3. Body(reply) \in Seq(STRING)
    BY CallIs DEF IInv
  <2>4. ChunkedLine(reply) <= LastLine(reply)
    BY Lines
  <2>5. parser.length = Len(Body(reply))
    <3>1. CASE "length" \in reply.headers
      BY <1>1, <2>4, <3>1 DEF Found
    <3>2. CASE "length" \notin reply.headers
      <4>1. Len(Body(reply)) = 0
        BY <1>4, <3>2 DEF Announced
      <4> QED BY <1>1, <3>2, <4>1 DEF Found
    <3> QED BY <3>1, <3>2
  <2>6. BodyOnWire(reply) = Body(reply)
    BY <2>1 DEF BodyOnWire, Chunked
  <2>7. call \in Calls /\ BodyAt(call) \in Nat
    BY CallIs DEF IInv, TypeInv
  <2>8. /\ Len(Sent(call)) = BodyAt(call) + Len(Body(reply))
        /\ \A i \in 1..Len(Body(reply)) : Sent(call)[BodyAt(call) + i] = Body(reply)[i]
    <3>1. /\ Len(Sent(call)) = BodyAt(call) + Len(BodyOnWire(reply))
          /\ \A i \in 1..Len(BodyOnWire(reply)) :
               Sent(call)[BodyAt(call) + i] = BodyOnWire(reply)[i]
      BY <1>1, <2>7, SentIs DEF reply
    <3> QED BY <2>6, <3>1
  <2>9. Len(Body(reply)) \in Nat
    BY <2>3
  <2> QED BY <2>2, <2>3, <2>5, <2>7, <2>8, <2>9
<1> QED BY <1>1, <1>2, <1>3, <1>4

\* More of a body that is collected.
LEMMA MoreInv ==
  ASSUME IInv, pc \in {"identity", "chunks"}, NEW k \in 1..BufferLen, More(k)
  PROVE  IInv'
<1>1. /\ k \in Pieces(BufferLen - received) /\ Consume(k)
      /\ buf' = Put(buf, received, Take(k)) /\ received' = received + k
      /\ call' = call /\ pc' = pc /\ left' = left /\ limit' = limit /\ pos' = pos
      /\ parser' = parser /\ expired' = expired /\ result' = result /\ open' = open
      /\ given' = given
  BY DEF More, parsing
<1>2. TypeInv /\ WireInv /\ Held(received)
  BY DEF IInv, HeldInv
<1>3. /\ Off = BodyAt(call) + received /\ received \in Nat /\ BufferLen \in Nat
      /\ BodyAt(call) \in Nat /\ buf \in [1..BufferLen -> Symbols]
  BY <1>2, InTheBody, CallIs DEF TypeInv
<1>4. k \in 1..Len(wire) /\ received + k <= BufferLen
  <2> PICK l \in Nat : l = Len(wire)
    BY <1>2 DEF TypeInv
  <2> QED BY <1>1, <1>3 DEF Pieces
<1>5. /\ wire' \in Seq(Symbols) /\ WireInv' /\ Off \in Nat /\ Off' = Off + k
      /\ Take(k) \in Seq(Symbols) /\ Len(Take(k)) = k
      /\ \A i \in 1..k : Take(k)[i] = Sent(call)[Off + i]
  BY <1>1, <1>2, <1>4, Advances
<1>6. Fills(buf, received, Take(k), buf')
  <2>1. received + Len(Take(k)) <= BufferLen
    BY <1>4, <1>5
  <2> QED BY <1>1, <1>3, <1>5, <2>1, Filled
<1>7. TypeInv'
  <2>1. buf' \in [1..BufferLen -> Symbols]
    BY <1>6 DEF Fills
  <2>2. received' \in Nat
    BY <1>1, <1>3
  <2> QED BY <1>1, <1>2, <1>5, <2>1, <2>2 DEF TypeInv, BufferLen
<1>8. HeldInv'
  <2> PICK h \in Nat : h = received
    BY <1>3
  <2> PICK t : t = Take(k)
    OBVIOUS
  <2>1. Held(h) /\ h + k <= BufferLen /\ k \in Nat
    BY <1>2, <1>4
  <2>2. Len(t) = k /\ \A i \in 1..k : t[i] = Sent(call)[Off + i]
    BY <1>5
  <2>3. Fills(buf, h, t, buf') /\ call' = call /\ Off' = Off + k /\ Off \in Nat
    BY <1>1, <1>5, <1>6
  <2>4. Held(h + k)'
    BY <1>2, <2>1, <2>2, <2>3, HeldMore
  <2>5. Held(received)'
    BY <1>1, <2>4
  <2> QED BY <1>1, <2>5 DEF HeldInv
<1>9. ParserInv'
  BY <1>1 DEF ParserInv, Early
<1>10. GivenInv'
  BY <1>1, GivenKept DEF IInv, Early
<1>11. BodyInv'
  <2>1. Off' = BodyAt(call) + received'
    BY <1>1, <1>3, <1>5
  <2> QED BY <1>1, <2>1 DEF IInv, BodyInv, reply, BufferLen
<1>12. DoneInv'
  BY <1>1 DEF IInv, DoneInv
<1> QED BY <1>5, <1>7, <1>8, <1>9, <1>10, <1>11, <1>12 DEF IInv

LEMMA ReadIdentityInv == ASSUME IInv, NEW k \in 1..BufferLen, ReadIdentity(k) PROVE IInv'
BY MoreInv DEF ReadIdentity

LEMMA ReadChunkInv == ASSUME IInv, NEW k \in 1..BufferLen, ReadChunk(k) PROVE IInv'
BY MoreInv DEF ReadChunk

LEMMA IdentityEndsInv == ASSUME IInv, IdentityEnds PROVE IInv'
<1>1. /\ pc = "identity" /\ Whole /\ pc' = "done" /\ result' = Success(received)
      /\ open' = FALSE /\ call' = call /\ wire' = wire /\ buf' = buf /\ left' = left
      /\ limit' = limit /\ pos' = pos /\ parser' = parser /\ received' = received
      /\ expired' = expired /\ given' = given
  BY DEF IdentityEnds, Finish, parsing
<1>2. received \in Nat /\ BufferLen \in Nat /\ parser \in ParserType
  BY <1>1, InTheBody
<1>3. TypeInv'
  BY <1>1, <1>2, FailedIs DEF IInv, TypeInv, Phases, BufferLen
<1>4. WireInv'
  BY <1>1, WireKept DEF IInv
<1>5. GivenInv'
  BY <1>1, GivenKept DEF IInv, Early
<1>6. DoneInv'
  <2>1. ASSUME Announced
        PROVE  /\ ~(parser.length > BufferLen) /\ buf \in [1..BufferLen -> Symbols]
               /\ Len(Body(reply)) <= BufferLen
               /\ \A i \in 1..Len(Body(reply)) : buf[i] = Body(reply)[i]
    <3>1. /\ Off = BodyAt(call) + received /\ parser.length = Len(Body(reply))
          /\ received <= Len(Body(reply)) /\ Len(Body(reply)) \in Nat
          /\ \A i \in 1..Len(Body(reply)) : Sent(call)[BodyAt(call) + i] = Body(reply)[i]
      BY <1>1, <2>1, InTheBody
    <3>2. Held(received) /\ buf \in [1..BufferLen -> Symbols] /\ BodyAt(call) \in Nat
      BY <1>1, CallIs DEF IInv, HeldInv, TypeInv
    <3>3. received = Len(Body(reply))
      BY <1>1, <1>2, <3>1 DEF Whole
    <3>4. Off - received = BodyAt(call)
      BY <1>2, <3>1, <3>2
    <3>5. received <= BufferLen /\ \A i \in 1..received : buf[i] = Sent(call)[BodyAt(call) + i]
      BY <3>2, <3>4 DEF Held
    <3>6. ~(parser.length > BufferLen)
      BY <1>2, <3>1, <3>3, <3>5
    <3> QED BY <3>1, <3>2, <3>3, <3>5, <3>6
  <2>2. Announced' = Announced /\ BufferLen' = BufferLen /\ reply' = reply
    BY <1>1 DEF Announced, BufferLen, reply
  <2> QED BY <1>1, <2>1, <2>2 DEF DoneInv
<1> QED BY <1>1, <1>3, <1>4, <1>5, <1>6, Over

LEMMA ChunksEndInv == ASSUME IInv, ChunksEnd PROVE IInv'
<1>1. /\ pc = "chunks" /\ pc' = "done" /\ open' = FALSE
      /\ result' \in {Success(received), Failed}
      /\ call' = call /\ wire' = wire /\ left' = left
      /\ limit' = limit /\ pos' = pos /\ parser' = parser /\ received' = received
      /\ expired' = expired /\ given' = given
  BY DEF ChunksEnd, Finish, parsing
<1>2. received \in Nat /\ (Announced => ~parser.chunked)
  BY <1>1, InTheBody
<1>3. TypeInv'
  BY <1>1, <1>2, FailedIs DEF IInv, TypeInv, Phases, BufferLen
<1>4. WireInv'
  BY <1>1, WireKept DEF IInv
<1>5. GivenInv'
  BY <1>1, GivenKept DEF IInv, Early
<1>6. DoneInv'
  <2>1. Announced' = Announced
    BY <1>1 DEF Announced, reply
  <2>2. parser.chunked
    BY <1>1 DEF IInv, BodyInv
  <2> QED BY <1>1, <1>2, <2>1, <2>2 DEF DoneInv
<1> QED BY <1>1, <1>3, <1>4, <1>5, <1>6, Over

\* A piece that the callback is given follows what it was given before.
LEMMA GivesMore ==
  ASSUME IInv, pc = "stream", NEW k \in 1..Len(wire), Consume(k), call' = call,
         Give(Take(k), received + k)
  PROVE  /\ given' \in [data : Seq(Symbols), offset : Nat]
         /\ Len(given'.data) = received + k /\ given'.offset = received + k
         /\ BodyAt(call) + (received + k) <= Len(Sent(call))
         /\ \A i \in 1..(received + k) : given'.data[i] = Sent(call)[BodyAt(call) + i]
<1>1. TypeInv /\ WireInv
  BY DEF IInv
<1>2. /\ Off = BodyAt(call) + received /\ received \in Nat /\ BodyAt(call) \in Nat
  BY <1>1, InTheBody, CallIs
<1>3. /\ Off \in Nat /\ Off + k <= Len(Sent(call))
      /\ Take(k) \in Seq(Symbols) /\ Len(Take(k)) = k
      /\ \A i \in 1..k : Take(k)[i] = Sent(call)[Off + i]
  BY <1>1, Advances
<1> PICK t : t = Take(k)
  OBVIOUS
<1> PICK d : d = given.data
  OBVIOUS
<1>4. /\ d \in Seq(Symbols) /\ Len(d) = received
      /\ \A i \in 1..received : d[i] = Sent(call)[BodyAt(call) + i]
  BY <1>1 DEF IInv, TypeInv, GivenInv, BodyInv
<1> PICK e : e = d \o t
  OBVIOUS
<1>5. given' = [data |-> e, offset |-> received + k]
  BY DEF Give
<1>6. Joins(d, t, e)
  BY <1>3, <1>4, Joined
<1>7. /\ e \in Seq(Symbols) /\ Len(e) = received + k
      /\ \A i \in 1..received : e[i] = d[i]
      /\ \A i \in 1..k : e[received + i] = t[i]
  BY <1>3, <1>4, <1>6 DEF Joins
<1>8. ASSUME NEW i \in 1..(received + k) PROVE e[i] = Sent(call)[BodyAt(call) + i]
  <2>1. CASE i \in 1..received
    BY <1>4, <1>7, <2>1
  <2>2. CASE i \notin 1..received
    <3>1. /\ i - received \in 1..k /\ received + (i - received) = i
          /\ Off + (i - received) = BodyAt(call) + i
      BY <1>2, <2>2
    <3>2. e[i] = t[i - received]
      BY <1>7, <3>1
    <3> QED BY <1>3, <3>1, <3>2
  <2> QED BY <2>1, <2>2
<1>9. BodyAt(call) + (received + k) <= Len(Sent(call))
  <2>1. Len(Sent(call)) \in Nat /\ BodyAt(call) \in Nat
    BY <1>1, CallIs DEF IInv
  <2> QED BY <1>2, <1>3, <2>1
<1> PICK g : g = given'
  OBVIOUS
<1>10. g.data = e /\ g.offset = received + k /\ g \in [data : Seq(Symbols), offset : Nat]
  <2>1. e \in Seq(Symbols) /\ received + k \in Nat
    BY <1>2, <1>7
  <2> QED BY <1>5, <2>1
<1> QED BY <1>7, <1>8, <1>9, <1>10

LEMMA StreamInv == ASSUME IInv, NEW k \in 1..BufferLen, Stream(k) PROVE IInv'
<1>1. /\ pc = "stream" /\ k \in Pieces(BufferLen - 1) /\ Consume(k)
      /\ buf' = Ended(Put(buf, 0, Take(k)), k) /\ received' = received + k
      /\ Give(Take(k), received + k)
      /\ call' = call /\ left' = left /\ limit' = limit /\ pos' = pos
      /\ parser' = parser /\ expired' = expired
  BY DEF Stream, parsing
<1>2. TypeInv /\ WireInv /\ parser.length > BufferLen
  BY <1>1 DEF IInv, BodyInv
<1>3. /\ ~call.head /\ parser.state = "end" /\ Off = BodyAt(call) + received
      /\ received \in Nat /\ BufferLen \in Nat /\ BodyAt(call) \in Nat
      /\ buf \in [1..BufferLen -> Symbols] /\ parser \in ParserType
  BY <1>1, <1>2, InTheBody, CallIs DEF TypeInv
<1>4. k \in 1..Len(wire) /\ k <= BufferLen
  <2> PICK l \in Nat : l = Len(wire)
    BY <1>2 DEF TypeInv
  <2> QED BY <1>1, <1>3 DEF Pieces
<1>5. /\ wire' \in Seq(Symbols) /\ WireInv' /\ Off \in Nat /\ Off' = Off + k
      /\ Take(k) \in Seq(Symbols) /\ Len(Take(k)) = k
  BY <1>1, <1>2, <1>4, Advances
<1>6. buf' \in [1..BufferLen -> Symbols]
  <2>1. PICK z \in Nat : z = 0
    OBVIOUS
  <2>2. z + Len(Take(k)) = k /\ z + Len(Take(k)) <= BufferLen
    BY <1>4, <1>5, <2>1
  <2>3. buf' = Ended(Put(buf, z, Take(k)), z + Len(Take(k)))
    BY <1>1, <2>1, <2>2
  <2>4. Fills(buf, z, Take(k), buf')
    BY <1>3, <1>5, <2>2, <2>3, Filled
  <2> QED BY <2>4 DEF Fills
<1> PICK g : g = given'
  OBVIOUS
<1>7. /\ g \in [data : Seq(Symbols), offset : Nat]
      /\ Len(g.data) = received + k /\ g.offset = received + k
      /\ BodyAt(call) + (received + k) <= Len(Sent(call))
      /\ \A i \in 1..(received + k) : g.data[i] = Sent(call)[BodyAt(call) + i]
  BY <1>1, <1>4, GivesMore
<1>8. \/ pc' = "done" /\ result' = Success(0) /\ open' = FALSE /\ received + k >= parser.length
      \/ pc' = "stream" /\ result' = result /\ open' = open
      \/ pc' = "done" /\ result' = Failed /\ open' = open
  BY <1>1 DEF Stream, Finish
<1>9. result' \in [kind : {"running", "error", "ok"}, bytes : Nat] /\ open' \in BOOLEAN
  <2>1. 0 \in Nat
    OBVIOUS
  <2> QED BY <1>2, <1>8, <2>1, FailedIs DEF TypeInv
<1>10. TypeInv'
  <2>1. received' \in Nat
    BY <1>1, <1>3
  <2>2. pc' \in Phases
    BY <1>8 DEF Phases
  <2> QED BY <1>1, <1>2, <1>5, <1>6, <1>7, <1>9, <2>1, <2>2 DEF TypeInv, BufferLen
<1>11. GivenInv'
  BY <1>1, <1>3, <1>7, <1>8 DEF GivenInv, Early
<1>12. CASE pc' = "stream" /\ result' = result
  <2>1. HeldInv' /\ ParserInv'
    BY <1>12 DEF HeldInv, ParserInv, Early
  <2>2. BodyInv'
    <3>1. Off' = BodyAt(call) + received'
      BY <1>1, <1>3, <1>5
    <3>2. Found(reply, parser, LastLine(reply))
      BY <1>1 DEF IInv, BodyInv
    <3> QED BY <1>1, <1>2, <1>3, <1>7, <1>12, <3>1, <3>2 DEF BodyInv, reply, BufferLen
  <2>3. DoneInv'
    BY <1>1, <1>12 DEF IInv, DoneInv
  <2> QED BY <1>5, <1>10, <1>11, <2>1, <2>2, <2>3 DEF IInv
<1>13. CASE pc' = "done" /\ result' = Failed
  <2>1. DoneInv'
    BY <1>13, FailedIs DEF DoneInv
  <2> QED BY <1>5, <1>10, <1>11, <1>13, <2>1, Over
<1>14. CASE pc' = "done" /\ result' = Success(0) /\ received + k >= parser.length
  <2>1. ASSUME Announced PROVE Len(g.data) = Len(Body(reply))
    <3>1. /\ parser.length = Len(Body(reply)) /\ Len(Body(reply)) \in Nat
          /\ Len(Sent(call)) - BodyAt(call) = Len(Body(reply))
      BY <1>1, <2>1, InTheBody
    <3>2. Len(Sent(call)) \in Nat
      BY <1>2, CallIs
    <3>3. received + k <= Len(Body(reply))
      BY <1>3, <1>7, <3>1, <3>2
    <3> QED BY <1>3, <1>7, <1>14, <3>1, <3>3
  <2>2. Announced' = Announced /\ BufferLen' = BufferLen /\ reply' = reply
    BY <1>1 DEF Announced, BufferLen, reply
  <2>3. DoneInv'
    BY <1>1, <1>2, <1>14, <2>1, <2>2 DEF DoneInv
  <2> QED BY <1>5, <1>10, <1>11, <1>14, <2>3, Over
<1> QED BY <1>8, <1>12, <1>13, <1>14

-----------------------------------------------------------------------------
(* The theorems *)

LEMMA ReceiveInv == ASSUME IInv, Receive PROVE IInv'
BY ReadHeaderInv, StreamInv, ReadIdentityInv, ReadChunkInv DEF Receive

LEMMA ParseInv == ASSUME IInv, Parse PROVE IInv'
BY ParseOutInv, ParseStartInv, ParseToReturnInv, ParseNewlineInv, ParseHeaderInv,
   ParseToBodyInv, ParsedInv DEF Parse

LEMMA NextInv == ASSUME IInv, [Next]_vars PROVE IInv'
<1>1. CASE ClientStep
  BY <1>1, SendInv, ParseInv, ReadNothingInv, BodyStartsInv, IdentityEndsInv, ChunksEndInv
     DEF ClientStep
<1>2. CASE Receive \/ ReadError \/ TimerExpires
  BY <1>2, ReceiveInv, ReadErrorInv, TimerInv
<1>3. CASE UNCHANGED vars
  BY <1>3, StutterInv
<1> QED BY <1>1, <1>2, <1>3 DEF Next

LEMMA HeaderReadInv == ASSUME IInv PROVE HeaderRead
<1>1. ASSUME pc = "body"
      PROVE  /\ parser.length = (IF "length" \in reply.headers THEN Len(Body(reply)) ELSE 0)
             /\ parser.chunked = Chunked(reply)
  <2>1. Found(reply, parser, LastLine(reply))
    BY <1>1, AtBody
  <2>2. ChunkedLine(reply) <= LastLine(reply) /\ LastLine(reply) <= LastLine(reply)
    BY Lines
  <2>3. parser.chunked = Chunked(reply)
    <3>1. parser.chunked = ("chunked" \in reply.headers /\ LastLine(reply) <= LastLine(reply))
      BY <2>1 DEF Found
    <3>2. ("chunked" \in reply.headers /\ LastLine(reply) <= LastLine(reply))
            = ("chunked" \in reply.headers)
      BY <2>2
    <3> QED BY <3>1, <3>2 DEF Chunked
  <2>4. parser.length = (IF "length" \in reply.headers THEN Len(Body(reply)) ELSE 0)
    BY <2>1, <2>2 DEF Found
  <2> QED BY <2>3, <2>4
<1>2. ASSUME pc \in {"read", "body"}, ~call.head
      PROVE  IsSuffix(Prefix(left) \o wire, OnWire(reply))
  <2>1. TypeInv /\ WireInv /\ Held(left)
    BY <1>2 DEF IInv, HeldInv
  <2>2. OnWire(reply) = Sent(call)
    BY <1>2 DEF Sent, reply
  <2>3. /\ buf \in [1..BufferLen -> Symbols] /\ BufferLen \in Nat
        /\ left \in 0..BufferLen /\ left \in Nat
        /\ wire \in Seq(Symbols) /\ Sent(call) \in Seq(Symbols)
    BY <1>2, <2>1, CallIs DEF TypeInv
  <2> PICK w : w = Sent(call)
    OBVIOUS
  <2> PICK n \in Nat : n = Len(w)
    BY <2>3
  <2> PICK l \in Nat : l = Len(wire)
    BY <2>3
  <2> PICK h \in Nat : h = left
    BY <2>3
  <2> PICK d : d = Prefix(left)
    OBVIOUS
  <2>4. d \in Seq(Symbols) /\ Len(d) = h /\ \A i \in 1..h : d[i] = buf[i]
    <3>1. PICK z \in Nat : z = 0
      OBVIOUS
    <3>2. d = SubSeq(buf, z + 1, h) /\ z <= h /\ h - z = h /\ h \in 0..BufferLen
      BY <2>3, <3>1 DEF Prefix
    <3>3. d \in Seq(Symbols) /\ Len(d) = h - z /\ \A i \in 1..(h - z) : d[i] = buf[z + i]
      BY <2>3, <3>2, PartOf
    <3>4. \A i \in 1..h : z + i = i
      BY <3>1
    <3> QED BY <3>2, <3>3, <3>4
  <2> PICK s : s = d \o wire
    OBVIOUS
  <2>5. Joins(d, wire, s)
    BY <2>3, <2>4, Joined
  <2>6. /\ s \in Seq(Symbols) /\ Len(s) = h + l
        /\ \A i \in 1..h : s[i] = d[i]
        /\ \A i \in 1..l : s[h + i] = wire[i]
    BY <2>4, <2>5 DEF Joins
  <2>7. Off = n - l /\ h <= n - l /\ \A i \in 1..h : buf[i] = w[n - l - h + i]
    <3>1. Off = n - l
      BY DEF Off
    <3> QED BY <2>1, <3>1 DEF Held
  <2>8. l <= n /\ \A i \in 1..l : wire[i] = w[n - l + i]
    BY <2>1, <2>7 DEF WireInv
  <2>9. ASSUME NEW i \in 1..(h + l) PROVE s[i] = w[n - (h + l) + i]
    <3>1. CASE i \in 1..h
      <4>1. n - l - h + i = n - (h + l) + i
        OBVIOUS
      <4>2. s[i] = d[i] /\ d[i] = buf[i] /\ buf[i] = w[n - l - h + i]
        BY <2>4, <2>6, <2>7, <3>1
      <4> QED BY <4>1, <4>2
    <3>2. CASE i \notin 1..h
      <4>1. i - h \in 1..l /\ h + (i - h) = i /\ n - l + (i - h) = n - (h + l) + i
        BY <3>2
      <4>2. s[i] = wire[i - h]
        BY <2>6, <4>1
      <4> QED BY <2>8, <4>1, <4>2
    <3> QED BY <3>1, <3>2
  <2>10. Len(s) <= Len(w) /\ \A i \in 1..Len(s) : s[i] = w[Len(w) - Len(s) + i]
    <3>1. h + l <= n
      BY <2>7
    <3> QED BY <2>6, <2>9, <3>1
  <2>11. IsSuffix(s, w)
    BY <2>3, <2>6, <2>10, SuffixIs
  <2> QED BY <2>2, <2>11
<1> QED BY <1>1, <1>2 DEF HeaderRead

LEMMA BodyDeliveredInv == ASSUME IInv, Announced PROVE BodyDelivered
<1>1. TypeInv
  BY DEF IInv
<1>2. /\ Body(reply) \in Seq(STRING) /\ BufferLen \in Nat /\ BodyAt(call) \in Nat
      /\ given.data \in Seq(Symbols) /\ given.offset = Len(given.data)
  BY <1>1, CallIs DEF IInv, TypeInv, GivenInv
<1> PICK b : b = Body(reply)
  OBVIOUS
<1>3. b \in Seq(Symbols)
  <2>1. STRING \subseteq Symbols
    BY SymbolsAre
  <2>2. Seq(STRING) \subseteq Seq(Symbols)
    BY <2>1, SeqMonotonic
  <2> QED BY <1>2, <2>2
<1> PICK n \in Nat : n = Len(b)
  BY <1>3
<1> PICK d : d = given.data
  OBVIOUS
<1> PICK m \in Nat : m = Len(d)
  BY <1>2
<1>4. m <= n /\ \A i \in 1..m : d[i] = b[i]
  <2>1. CASE call.head
    <3>1. d = <<>>
      BY <2>1 DEF IInv, GivenInv
    <3>2. m = 0
      BY <3>1
    <3> QED BY <3>2
  <2>2. CASE ~call.head
    <3>1. BodyOnWire(reply) = b
      BY DEF Announced, BodyOnWire
    <3>2. /\ Len(Sent(call)) = BodyAt(call) + n
          /\ \A i \in 1..n : Sent(call)[BodyAt(call) + i] = b[i]
      <4>1. /\ Len(Sent(call)) = BodyAt(call) + Len(BodyOnWire(reply))
            /\ \A i \in 1..Len(BodyOnWire(reply)) :
                 Sent(call)[BodyAt(call) + i] = BodyOnWire(reply)[i]
        BY <1>1, <2>2, SentIs DEF reply, TypeInv
      <4> QED BY <3>1, <4>1
    <3>3. /\ BodyAt(call) + m <= Len(Sent(call))
          /\ \A i \in 1..m : d[i] = Sent(call)[BodyAt(call) + i]
      BY DEF IInv, GivenInv
    <3>4. m <= n
      BY <1>2, <3>2, <3>3
    <3>5. \A i \in 1..m : i \in 1..n
      BY <3>4
    <3> QED BY <3>2, <3>3, <3>4, <3>5
  <2> QED BY <2>1, <2>2
<1>5. IsPrefix(d, b)
  BY <1>2, <1>3, <1>4, PrefixIs
<1>6. ASSUME InBody, result.kind = "ok", ~call.head
      PROVE  IF parser.length > BufferLen THEN d = b ELSE Prefix(n) = b
  <2>1. pc = "done" /\ parser.state = "end"
    BY <1>6 DEF IInv, DoneInv, InBody
  <2>2. CASE parser.length > BufferLen
    <3>1. m = n
      BY <1>6, <2>1, <2>2 DEF IInv, DoneInv
    <3>2. d = b
      BY <1>2, <1>3, <1>4, <3>1, SeqEqual
    <3> QED BY <2>2, <3>2
  <2>3. CASE ~(parser.length > BufferLen)
    <3>1. /\ buf \in [1..BufferLen -> Symbols] /\ n <= BufferLen
          /\ \A i \in 1..n : buf[i] = b[i]
      BY <1>6, <2>1, <2>3 DEF IInv, DoneInv
    <3>2. PICK z \in Nat : z = 0
      OBVIOUS
    <3>3. z <= n /\ n - z = n /\ n \in 0..BufferLen
      BY <1>2, <3>1, <3>2
    <3> PICK s : s = Prefix(n)
      OBVIOUS
    <3>4. s = SubSeq(buf, z + 1, n)
      BY <3>2 DEF Prefix
    <3>5. s \in Seq(Symbols) /\ Len(s) = n - z /\ \A i \in 1..(n - z) : s[i] = buf[z + i]
      BY <1>2, <3>1, <3>3, <3>4, PartOf
    <3>6. \A i \in 1..n : s[i] = b[i]
      <4>1. \A i \in 1..n : z + i = i
        BY <3>2
      <4> QED BY <3>1, <3>3, <3>5, <4>1
    <3>7. s = b
      BY <1>3, <3>3, <3>5, <3>6, SeqEqual
    <3> QED BY <2>3, <3>7
  <2> QED BY <2>2, <2>3
<1> QED BY <1>2, <1>5, <1>6 DEF BodyDelivered

\* The services leave the call as it is, or make another.
LEMMA ServicesStutter == ASSUME ServiceNext PROVE [Next]_vars \/ RefreshAgain
BY DEF ServiceNext, RefreshAuthToken, ActiveDevice, MqRpc, RequestContentLength, Download,
       Use, Measure

LEMMA InitLater == Init' => IInv'
<1>1. Init => IInv
  BY InitInv
<1> QED BY <1>1, PTL

LEMMA AgainInv == ASSUME RefreshAgain PROVE IInv'
<1>1. CallAgain({c \in Calls : c.service = "token"})
  BY DEF RefreshAgain
<1>2. Init'
  BY <1>1 DEF CallAgain, Init
<1> QED BY <1>2, InitLater

LEMMA Keeps == ServiceSpec => []IInv
<1>1. ServiceInit => IInv
  BY InitInv DEF ServiceInit
<1>2. IInv /\ [ServiceNext]_<<vars, serviceVars>> => IInv'
  <2>1. ASSUME IInv, ServiceNext PROVE IInv'
    BY <2>1, ServicesStutter, NextInv, AgainInv
  <2>2. ASSUME IInv, UNCHANGED <<vars, serviceVars>> PROVE IInv'
    BY <2>2, StutterInv
  <2> QED BY <2>1, <2>2
<1> QED BY <1>1, <1>2, PTL DEF ServiceSpec

\* However the reply is cut into reads, tc_iot_http_parser_analysis finds the length and the
\* encoding that were sent, and what tc_iot_http_client_internal_perform keeps in the buffer
\* goes on exactly where the parser stopped: no byte of the reply is lost or read twice.
THEOREM HeadersAreRead == ServiceSpec => []HeaderRead
<1>1. IInv => HeaderRead
  BY HeaderReadInv
<1> QED BY <1>1, Keeps, PTL

\* A body whose length is announced reaches the caller once, in order and whole: collected in
\* the buffer when it fits, handed to the callback with the offset it ends at when it does not.
THEOREM AnnouncedBodiesAreDelivered == ServiceSpec => [](Announced => BodyDelivered)
<1>1. IInv => (Announced => BodyDelivered)
  BY BodyDeliveredInv
<1> QED BY <1>1, Keeps, PTL
=============================================================================
