----------------------------- MODULE PartsProofs -----------------------------
(***************************************************************************)
(* What is proved of the parts that share nothing with another: the        *)
(* descriptors of the network ports, the packets of MQTT, sent in parts    *)
(* and read byte by byte, the datagrams of CoAP, the timers of the         *)
(* RT-Thread port, the remote calls of the samples, the delivery of a      *)
(* message to the handlers of its topic, and CoAP messages written and     *)
(* read.  Each holds for every value of its constants.                     *)
(***************************************************************************)
EXTENDS NetworkPorts, PacketStream, PacketSending, Datagrams, HalTimer, RpcSync,
        TopicDelivery, CoapMessage, FiniteSetTheorems, SequenceTheorems,
        WellFoundedInduction, TLAPS

-----------------------------------------------------------------------------
(* Induction and recursion: what the library states of operators, of sets and *)
(* functions.                                                                *)

LEMMA SetInduction ==
  ASSUME NEW S, 0 \in S, \A n \in Nat : n \in S => n + 1 \in S
  PROVE  Nat \subseteq S
<1> DEFINE R == {x \in Nat \X Nat : x[1] < x[2]}
<1>1. IsWellFoundedOn(R, Nat)
  BY NatLessThanWellFounded DEF OpToRel
<1>2. SUFFICES ASSUME Nat \ S # {} PROVE FALSE
  OBVIOUS
<1>3. PICK x \in Nat \ S : \A y \in Nat \ S : <<y, x>> \notin R
  <2> HIDE DEF R
  <2>1. Nat \ S \subseteq Nat
    OBVIOUS
  <2> QED BY <1>1, <1>2, <2>1, WFMin
<1>4. x - 1 \in Nat /\ x - 1 + 1 = x
  BY <1>3
<1>5. x - 1 \notin S
  BY <1>4
<1>6. <<x - 1, x>> \in R
  BY <1>4
<1> QED BY <1>3, <1>4, <1>5, <1>6

\* A sequence of values, each made from the one before it.
Iterates(f, T, base, succ) ==
  f \in [Nat -> T] /\ f[0] = base /\ \A n \in Nat : f[n + 1] = succ[f[n]]

LEMMA Iterated ==
  ASSUME NEW T, NEW base \in T, NEW succ, succ \in [T -> T]
  PROVE  \E f : Iterates(f, T, base, succ)
<1> DEFINE Begins(n, g) == g[0] = base /\ \A k \in 0..n - 1 : g[k + 1] = succ[g[k]]
           S == {n \in Nat : \E g \in [0..n -> T] : Begins(n, g)}
<1>1. 0 \in S
  <2>1. [k \in 0..0 |-> base] \in [0..0 -> T] /\ Begins(0, [k \in 0..0 |-> base])
    OBVIOUS
  <2> QED BY <2>1
<1>2. \A n \in Nat : n \in S => n + 1 \in S
  <2> TAKE n \in Nat
  <2> HAVE n \in S
  <2>1. PICK g \in [0..n -> T] : Begins(n, g)
    OBVIOUS
  <2> DEFINE h == [k \in 0..n + 1 |-> IF k = n + 1 THEN succ[g[n]] ELSE g[k]]
  <2>2. h \in [0..n + 1 -> T]
    OBVIOUS
  <2>3. h[0] = base
    BY <2>1
  <2>4. ASSUME NEW k \in 0..(n + 1) - 1 PROVE h[k + 1] = succ[h[k]]
    <3>1. k \in 0..n /\ h[k] = g[k]
      OBVIOUS
    <3>2. CASE k = n
      BY <3>1, <3>2
    <3>3. CASE k # n
      <4>1. k \in 0..n - 1 /\ k + 1 \in 0..n /\ k + 1 # n + 1
        BY <3>3
      <4>2. g[k + 1] = succ[g[k]]
        BY <4>1, <2>1
      <4> QED BY <3>1, <4>1, <4>2
    <3> QED BY <3>2, <3>3
  <2> HIDE DEF h
  <2>5. Begins(n + 1, h)
    BY <2>3, <2>4
  <2>6. n + 1 \in Nat
    OBVIOUS
  <2> QED BY <2>2, <2>5, <2>6
<1>3. Nat \subseteq S
  <2> HIDE DEF S
  <2> QED BY <1>1, <1>2, SetInduction
<1> DEFINE G == [n \in Nat |-> CHOOSE g \in [0..n -> T] : Begins(n, g)]
<1>4. ASSUME NEW n \in Nat PROVE G[n] \in [0..n -> T] /\ Begins(n, G[n])
  BY <1>3
<1> HIDE DEF G
<1>5. ASSUME NEW n \in Nat, NEW g \in [0..n -> T], NEW h \in [0..n + 1 -> T], Begins(n, g), Begins(n + 1, h)
      PROVE  h[n] = g[n]
  <2> DEFINE A == {k \in Nat : k <= n => h[k] = g[k]}
  <2>1. 0 \in A
    BY <1>5
  <2>2. \A k \in Nat : k \in A => k + 1 \in A
    <3> TAKE k \in Nat
    <3> HAVE k \in A
    <3>1. SUFFICES ASSUME k + 1 <= n PROVE h[k + 1] = g[k + 1]
      OBVIOUS
    <3>2. k \in 0..n - 1 /\ k \in 0..(n + 1) - 1 /\ h[k] = g[k]
      BY <3>1
    <3> QED BY <3>2, <1>5
  <2>3. Nat \subseteq A
    <3> HIDE DEF A
    <3> QED BY <2>1, <2>2, SetInduction
  <2> QED BY <2>3
<1> DEFINE f == [n \in Nat |-> G[n][n]]
<1>6. f \in [Nat -> T]
  BY <1>4
<1>7. f[0] = base
  BY <1>4
<1>8. ASSUME NEW n \in Nat PROVE f[n + 1] = succ[f[n]]
  <2>1. G[n] \in [0..n -> T] /\ Begins(n, G[n]) /\ G[n + 1] \in [0..n + 1 -> T] /\ Begins(n + 1, G[n + 1])
    <3>1. n + 1 \in Nat
      OBVIOUS
    <3> HIDE DEF Begins
    <3> QED BY <1>4, <3>1
  <2>2. G[n + 1][n] = G[n][n]
    <3> HIDE DEF Begins
    <3> QED BY <2>1, <1>5
  <2>3. n \in 0..(n + 1) - 1
    OBVIOUS
  <2>4. G[n + 1][n + 1] = succ[G[n + 1][n]]
    BY <2>1, <2>3
  <2> QED BY <2>2, <2>4
<1> HIDE DEF f
<1> QED BY <1>6, <1>7, <1>8 DEF Iterates

\* A function defined by recursion: the step may look only at places of lesser measure.
Narrows(succ, D, S, m) ==
  /\ succ \in [[D -> S] \X D -> S] /\ m \in [D -> Nat]
  /\ \A f, g \in [D -> S] : \A x \in D :
       (\A y \in D : m[y] < m[x] => f[y] = g[y]) => succ[<<f, x>>] = succ[<<g, x>>]
Solves(f, D, S, succ) == f \in [D -> S] /\ \A x \in D : f[x] = succ[<<f, x>>]

LEMMA Recursion ==
  ASSUME NEW D, NEW S, NEW any \in S, NEW m, NEW succ, Narrows(succ, D, S, m)
  PROVE  \E f : Solves(f, D, S, succ)
<1>a. succ \in [[D -> S] \X D -> S] /\ m \in [D -> Nat]
  BY DEF Narrows
<1>b. \A f, g \in [D -> S] : \A x \in D :
        (\A y \in D : m[y] < m[x] => f[y] = g[y]) => succ[<<f, x>>] = succ[<<g, x>>]
  BY DEF Narrows
<1> DEFINE T == [D -> S]
           more == [f \in T |-> [x \in D |-> succ[<<f, x>>]]]
           first == [x \in D |-> any]
<1>1. first \in T /\ more \in [T -> T]
  BY <1>a
<1>2. PICK F : Iterates(F, T, first, more)
  <2> HIDE DEF T, more, first
  <2> QED BY <1>1, Iterated
<1>3. ASSUME NEW n \in Nat, NEW x \in D PROVE n + 1 \in Nat /\ F[n] \in T /\ F[n + 1][x] = succ[<<F[n], x>>]
  <2>1. F[n] \in T
    <3> HIDE DEF T
    <3> QED BY <1>2 DEF Iterates
  <2>2. F[n + 1] = more[F[n]]
    <3> HIDE DEF more
    <3> QED BY <1>2 DEF Iterates
  <2>3. more[F[n]][x] = succ[<<F[n], x>>]
    BY <2>1
  <2> HIDE DEF T, more
  <2> QED BY <2>1, <2>2, <2>3
<1> DEFINE Stable == {n \in Nat : \A x \in D : m[x] < n => F[n + 1][x] = F[n][x]}
<1>4. 0 \in Stable
  BY <1>a
<1>5. \A n \in Nat : n \in Stable => n + 1 \in Stable
  <2> TAKE n \in Nat
  <2> HAVE n \in Stable
  <2> SUFFICES ASSUME NEW x \in D, m[x] < n + 1 PROVE F[n + 1 + 1][x] = F[n + 1][x]
    OBVIOUS
  <2>1. \A y \in D : m[y] < m[x] => F[n + 1][y] = F[n][y]
    BY <1>a
  <2>2. F[n] \in T /\ F[n + 1] \in T
    <3> HIDE DEF T
    <3> QED BY <1>3
  <2>3. succ[<<F[n + 1], x>>] = succ[<<F[n], x>>]
    BY <2>1, <2>2, <1>b
  <2> QED BY <2>3, <1>3
<1>6. Nat \subseteq Stable
  <2> HIDE DEF Stable
  <2> QED BY <1>4, <1>5, SetInduction
<1>7. ASSUME NEW x \in D, NEW n \in Nat, m[x] < n PROVE F[n][x] = F[m[x] + 1][x]
  <2> DEFINE A == {k \in Nat : F[m[x] + 1 + k][x] = F[m[x] + 1][x]}
  <2>1. 0 \in A
    BY <1>a
  <2>2. \A k \in Nat : k \in A => k + 1 \in A
    <3> TAKE k \in Nat
    <3> HAVE k \in A
    <3>0. m[x] \in Nat
      BY <1>a
    <3>1. m[x] + 1 + k \in Nat /\ m[x] < m[x] + 1 + k /\ m[x] + 1 + (k + 1) = (m[x] + 1 + k) + 1
      BY <3>0
    <3>2. F[(m[x] + 1 + k) + 1][x] = F[m[x] + 1 + k][x]
      BY <3>1, <1>6
    <3> QED BY <3>1, <3>2
  <2>3. Nat \subseteq A
    <3> HIDE DEF A
    <3> QED BY <2>1, <2>2, SetInduction
  <2>4. n - (m[x] + 1) \in Nat /\ m[x] + 1 + (n - (m[x] + 1)) = n
    BY <1>7, <1>a
  <2> QED BY <2>3, <2>4
<1> DEFINE f == [x \in D |-> F[m[x] + 1][x]]
<1>8. f \in T
  <2> SUFFICES ASSUME NEW x \in D PROVE F[m[x] + 1][x] \in S
    OBVIOUS
  <2>1. F[m[x] + 1] \in T
    <3> HIDE DEF T
    <3> QED BY <1>2, <1>a DEF Iterates
  <2> QED BY <2>1
<1>9. ASSUME NEW x \in D PROVE f[x] = succ[<<f, x>>]
  <2>1. f[x] = succ[<<F[m[x]], x>>]
    BY <1>3, <1>a
  <2>2. \A y \in D : m[y] < m[x] => f[y] = F[m[x]][y]
    BY <1>7, <1>a
  <2>3. F[m[x]] \in T
    <3> HIDE DEF T
    <3> QED BY <1>3, <1>a
  <2> HIDE DEF f
  <2> QED BY <2>1, <2>2, <2>3, <1>8, <1>b
<1> HIDE DEF f
<1> QED BY <1>8, <1>9 DEF Solves

-----------------------------------------------------------------------------
(* Initial pieces of sequences *)

LEMMA Initial ==
  ASSUME NEW S, NEW seq \in Seq(S), NEW k \in 0..Len(seq)
  PROVE  /\ SubSeq(seq, 1, k) \in Seq(S) /\ Len(SubSeq(seq, 1, k)) = k
         /\ \A i \in 1..k : SubSeq(seq, 1, k)[i] = seq[i]
<1>1. k \in Int /\ 1 \in Int /\ Len(seq) \in Nat
  BY LenProperties
<1>2. \A i \in 1..k : seq[i] \in S
  BY <1>1, ElementOfSeq
<1>3. /\ SubSeq(seq, 1, k) \in Seq(S) /\ Len(SubSeq(seq, 1, k)) = IF 1 <= k THEN k - 1 + 1 ELSE 0
      /\ \A i \in 1..k - 1 + 1 : SubSeq(seq, 1, k)[i] = seq[1 + i - 1]
  BY <1>1, <1>2, SubSeqProperties
<1> QED BY <1>1, <1>3

LEMMA InitialNext ==
  ASSUME NEW S, NEW seq \in Seq(S), NEW k \in 0..Len(seq) - 1
  PROVE  Append(SubSeq(seq, 1, k), seq[k + 1]) = SubSeq(seq, 1, k + 1)
<1>0. Len(seq) \in Nat
  BY LenProperties
<1>1. PICK s : s = SubSeq(seq, 1, k)
  OBVIOUS
<1>2. PICK t : t = SubSeq(seq, 1, k + 1)
  OBVIOUS
<1>3. s \in Seq(S) /\ Len(s) = k /\ \A i \in 1..k : s[i] = seq[i]
  BY <1>0, <1>1, Initial
<1>4. k + 1 \in 0..Len(seq)
  BY <1>0
<1>5. t \in Seq(S) /\ Len(t) = k + 1 /\ \A i \in 1..k + 1 : t[i] = seq[i]
  BY <1>4, <1>2, Initial
<1>6. seq[k + 1] \in S
  BY <1>0, <1>4, ElementOfSeq
<1>7. PICK u : u = Append(s, seq[k + 1])
  OBVIOUS
<1>8. u \in Seq(S) /\ Len(u) = k + 1 /\ (\A i \in 1..k : u[i] = s[i]) /\ u[k + 1] = seq[k + 1]
  BY <1>3, <1>6, <1>7, AppendProperties
<1>9. \A i \in 1..Len(u) : u[i] = t[i]
  BY <1>3, <1>5, <1>8, <1>0
<1>10. u = t
  BY <1>5, <1>8, <1>9, SeqEqual
<1> QED BY <1>1, <1>2, <1>7, <1>10

-----------------------------------------------------------------------------
(* Folds *)

\* The values a fold of seq goes through.
Run(F, S, base, succ, seq) ==
  /\ F \in [0..Len(seq) -> S] /\ F[0] = base
  /\ \A k \in 1..Len(seq) : F[k] = succ[<<F[k - 1], seq[k]>>]

RunsTo(v, S, base, succ, seq) == \E F : Run(F, S, base, succ, seq) /\ F[Len(seq)] = v

LEMMA MaxOfInitial ==
  ASSUME NEW n \in Nat, NEW s \in SUBSET (1..n), s # {}
  PROVE  Max(s) \in s /\ \A x \in s : x <= Max(s)
<1>1. \E x \in s : \A y \in s : y <= x
  <2> DEFINE A == {k \in Nat : \A t \in SUBSET (1..k) : t # {} => \E x \in t : \A y \in t : y <= x}
  <2>1. 0 \in A
    <3>1. 1..0 = {}
      OBVIOUS
    <3> QED BY <3>1
  <2>2. \A k \in Nat : k \in A => k + 1 \in A
    <3> TAKE k \in Nat
    <3> HAVE k \in A
    <3> SUFFICES ASSUME NEW t \in SUBSET (1..k + 1), t # {} PROVE \E x \in t : \A y \in t : y <= x
      OBVIOUS
    <3>1. CASE k + 1 \in t
      BY <3>1
    <3>2. CASE k + 1 \notin t
      <4>1. t \in SUBSET (1..k)
        BY <3>2
      <4> QED BY <4>1
    <3> QED BY <3>1, <3>2
  <2>3. Nat \subseteq A
    <3> HIDE DEF A
    <3> QED BY <2>1, <2>2, SetInduction
  <2> QED BY <2>3
<1> QED BY <1>1 DEF Max

\* What FoldLeft's iter is of the sets of places of seq.
FoldsSets(g, S, base, succ, seq) ==
  /\ g \in [SUBSET (DOMAIN seq) -> S]
  /\ \A s \in SUBSET (DOMAIN seq) :
       g[s] = IF s = {} THEN base ELSE succ[<<g[s \ {Max(s)}], seq[Max(s)]>>]

LEMMA FoldExists ==
  ASSUME NEW T, NEW S, NEW base \in S, NEW succ \in [S \X T -> S], NEW seq \in Seq(T)
  PROVE  \E g : FoldsSets(g, S, base, succ, seq)
<1>0. PICK n \in Nat : n = Len(seq) /\ DOMAIN seq = 1..n
  BY LenProperties
<1> DEFINE D == SUBSET (1..n)
           m == [s \in D |-> IF s = {} THEN 0 ELSE Max(s)]
           G == [D -> S]
           by == [z \in G \X D |-> IF z[2] = {} THEN base
                                   ELSE succ[<<z[1][z[2] \ {Max(z[2])}], seq[Max(z[2])]>>]]
<1>1. ASSUME NEW s \in D, s # {} 
      PROVE  /\ Max(s) \in 1..n /\ s \ {Max(s)} \in D /\ seq[Max(s)] \in T
             /\ m[s \ {Max(s)}] < m[s]
  <2>1. Max(s) \in s /\ \A x \in s : x <= Max(s)
    BY <1>1, MaxOfInitial
  <2>2. s \ {Max(s)} \in D /\ Max(s) \in 1..n
    BY <2>1
  <2>3. seq[Max(s)] \in T
    BY <2>2, <1>0, ElementOfSeq
  <2>4. CASE s \ {Max(s)} = {}
    <3>1. m[s] = Max(s) /\ m[s \ {Max(s)}] = 0
      BY <2>4, <1>1
    <3> QED BY <3>1, <2>2, <2>3
  <2>5. CASE s \ {Max(s)} # {}
    <3> DEFINE t == s \ {Max(s)}
    <3>0. t \in SUBSET (1..n) /\ t # {}
      BY <2>2, <2>5
    <3>1. Max(t) \in t
      <4> HIDE DEF t
      <4> QED BY <3>0, MaxOfInitial
    <3>2. m[s] = Max(s) /\ m[t] = Max(t)
      BY <2>2, <2>5, <1>1
    <3>3. Max(t) < Max(s)
      <4>1. Max(t) \in s /\ Max(t) # Max(s)
        BY <3>1
      <4>2. Max(t) <= Max(s) /\ Max(t) \in 1..n
        BY <4>1, <2>1
      <4> QED BY <4>1, <4>2, <2>2
    <3> QED BY <3>2, <3>3, <2>2, <2>3
  <2> QED BY <2>4, <2>5
<1>2. m \in [D -> Nat]
  <2> SUFFICES ASSUME NEW s \in D PROVE m[s] \in Nat
    OBVIOUS
  <2>1. CASE s = {}
    BY <2>1
  <2>2. CASE s # {}
    <3>1. Max(s) \in Nat
      <4>1. Max(s) \in 1..n
        <5> HIDE DEF m
        <5> QED BY <2>2, <1>1
      <4> QED BY <4>1
    <3> QED BY <2>2, <3>1
  <2> QED BY <2>1, <2>2
<1>3. by \in [G \X D -> S]
  <2> SUFFICES ASSUME NEW g \in G, NEW s \in D PROVE by[<<g, s>>] \in S
    <3> HIDE DEF D, G
    <3>1. \A z \in G \X D : z = <<z[1], z[2]>> /\ z[1] \in G /\ z[2] \in D
      OBVIOUS
    <3>2. by = [z \in G \X D |-> by[z]]
      OBVIOUS
    <3> HIDE DEF by
    <3> QED BY <3>1, <3>2
  <2>1. CASE s = {}
    BY <2>1
  <2>2. CASE s # {}
    <3>1. s \ {Max(s)} \in D /\ seq[Max(s)] \in T
      BY <2>2, <1>1
    <3>2. by[<<g, s>>] = succ[<<g[s \ {Max(s)}], seq[Max(s)]>>]
      BY <2>2
    <3> QED BY <3>1, <3>2
  <2> QED BY <2>1, <2>2
<1>4. ASSUME NEW f \in G, NEW g \in G, NEW s \in D, \A t \in D : m[t] < m[s] => f[t] = g[t]
      PROVE  by[<<f, s>>] = by[<<g, s>>]
  <2>1. CASE s = {}
    BY <2>1
  <2>2. CASE s # {}
    <3>1. f[s \ {Max(s)}] = g[s \ {Max(s)}]
      <4> HIDE DEF m
      <4> QED BY <2>2, <1>1, <1>4
    <3> QED BY <2>2, <3>1
  <2> QED BY <2>1, <2>2
<1>5. Narrows(by, D, S, m)
  <2> HIDE DEF D, m, by
  <2> QED BY <1>2, <1>3, <1>4 DEF Narrows
<1>6. PICK g : Solves(g, D, S, by)
  <2> HIDE DEF D, m, by
  <2> QED BY <1>5, Recursion
<1>7. \A s \in D : g[s] = IF s = {} THEN base ELSE succ[<<g[s \ {Max(s)}], seq[Max(s)]>>]
  BY <1>6 DEF Solves
<1>8. g \in G
  BY <1>6 DEF Solves
<1> QED BY <1>7, <1>8, <1>0 DEF FoldsSets

\* The fold's values at the initial pieces of the sequence.
LEMMA FoldRuns ==
  ASSUME NEW T, NEW S, NEW base \in S, NEW succ, NEW seq \in Seq(T),
         \A v \in S : \A t \in T : succ[<<v, t>>] \in S,
         NEW iter,
         iter = [s \in SUBSET (DOMAIN seq) |->
                   IF s = {} THEN base ELSE succ[<<iter[s \ {Max(s)}], seq[Max(s)]>>]]
  PROVE  RunsTo(iter[DOMAIN seq], S, base, succ, seq)
<1>0. PICK n \in Nat : n = Len(seq) /\ DOMAIN seq = 1..n
  BY LenProperties
<1> DEFINE F == [k \in 0..n |-> iter[1..k]]
<1>1. F[0] = base /\ 1..0 = {}
  BY <1>0
<1>2. ASSUME NEW k \in 1..n PROVE F[k] = succ[<<F[k - 1], seq[k]>>]
  <2>a. k \in 1..k /\ \A i \in 1..k : i \in 1..n
    OBVIOUS
  <2>1. 1..k \in SUBSET (1..n) /\ 1..k # {} /\ k \in 1..k
    BY <2>a, Zenon
  <2>2. Max(1..k) \in 1..k /\ k <= Max(1..k)
    BY <2>1, MaxOfInitial
  <2>3. Max(1..k) = k
    BY <2>2
  <2>4. (1..k) \ {k} = 1..k - 1
    OBVIOUS
  <2>5. iter[1..k] = succ[<<iter[1..k - 1], seq[k]>>]
    BY <2>1, <2>3, <2>4, <1>0
  <2>6. k \in 0..n /\ k - 1 \in 0..n
    OBVIOUS
  <2> QED BY <2>5, <2>6
<1> DEFINE A == {k \in Nat : k <= n => F[k] \in S}
<1>3. 0 \in A
  BY <1>1
<1>4. \A k \in Nat : k \in A => k + 1 \in A
  <2> HIDE DEF F
  <2> TAKE k \in Nat
  <2> HAVE k \in A
  <2> SUFFICES ASSUME k + 1 <= n PROVE F[k + 1] \in S
    OBVIOUS
  <2>1. k + 1 \in 1..n /\ F[k] \in S /\ (k + 1) - 1 = k
    OBVIOUS
  <2>2. seq[k + 1] \in T
    BY <2>1, <1>0, ElementOfSeq
  <2> QED BY <2>1, <2>2, <1>2
<1>5. Nat \subseteq A
  <2> HIDE DEF A
  <2> QED BY <1>3, <1>4, SetInduction
<1>6. F \in [0..n -> S]
  <2>1. \A k \in 0..n : F[k] \in S
    <3> HIDE DEF F
    <3> QED BY <1>5
  <2> QED BY <2>1
<1>7. F[n] = iter[DOMAIN seq]
  BY <1>0
<1> HIDE DEF F
<1>8. Run(F, S, base, succ, seq)
  BY <1>0, <1>1, <1>2, <1>6 DEF Run
<1> QED BY <1>7, <1>8, <1>0 DEF RunsTo

\* Only the values that occur matter.
Agree(succ, other, S, T) == \A x \in S : \A t \in T : succ[<<x, t>>] = other[<<x, t>>]

LEMMA RunsByOther ==
  ASSUME NEW T, NEW S, NEW base \in S, NEW succ, NEW other, NEW seq \in Seq(T), NEW v,
         RunsTo(v, S, base, succ, seq), Agree(succ, other, S, T)
  PROVE  RunsTo(v, S, base, other, seq)
<1>1. PICK F : Run(F, S, base, succ, seq) /\ F[Len(seq)] = v
  BY DEF RunsTo
<1>2. ASSUME NEW k \in 1..Len(seq) PROVE F[k] = other[<<F[k - 1], seq[k]>>]
  <2>1. seq[k] \in T /\ k - 1 \in 0..Len(seq)
    BY ElementOfSeq
  <2>2. F[k - 1] \in S /\ F[k] = succ[<<F[k - 1], seq[k]>>]
    BY <1>1, <2>1 DEF Run
  <2> QED BY <2>1, <2>2 DEF Agree
<1>3. Run(F, S, base, other, seq)
  BY <1>1, <1>2 DEF Run
<1> QED BY <1>1, <1>3 DEF RunsTo

\* A longer sequence with the same beginning is run through in the same way.
SameUpTo(n, s, t) == \A k \in 1..n : s[k] = t[k]

LEMMA RunsAgree ==
  ASSUME NEW S, NEW base, NEW succ, NEW s, NEW t, NEW F, NEW G, NEW n \in Nat,
         Len(s) \in Nat, Len(t) \in Nat, n <= Len(s), n <= Len(t),
         Run(F, S, base, succ, s), Run(G, S, base, succ, t), SameUpTo(n, s, t)
  PROVE  F[n] = G[n]
<1> DEFINE A == {k \in Nat : k <= n => F[k] = G[k]}
<1>1. 0 \in A
  BY DEF Run
<1>2. \A k \in Nat : k \in A => k + 1 \in A
  <2> TAKE k \in Nat
  <2> HAVE k \in A
  <2> SUFFICES ASSUME k + 1 <= n PROVE F[k + 1] = G[k + 1]
    OBVIOUS
  <2>1. k + 1 \in 1..Len(s) /\ k + 1 \in 1..Len(t) /\ k + 1 \in 1..n /\ (k + 1) - 1 = k /\ F[k] = G[k]
    OBVIOUS
  <2>2. F[k + 1] = succ[<<F[k], s[k + 1]>>]
    BY <2>1 DEF Run
  <2>3. G[k + 1] = succ[<<G[k], t[k + 1]>>]
    BY <2>1 DEF Run
  <2>4. s[k + 1] = t[k + 1]
    BY <2>1 DEF SameUpTo
  <2> QED BY <2>1, <2>2, <2>3, <2>4
<1>3. Nat \subseteq A
  <2> HIDE DEF A
  <2> QED BY <1>1, <1>2, SetInduction
<1> QED BY <1>3

-----------------------------------------------------------------------------
(* Division *)

LEMMA DivisionFacts ==
  ASSUME NEW a \in Int, NEW b \in Nat \ {0}
  PROVE  /\ a \div b \in Int /\ a % b \in Int
         /\ a = b * (a \div b) + (a % b)
         /\ 0 <= a % b /\ a % b < b
OBVIOUS

Divided(a, b, q, r) ==
  a = b * q + r /\ 0 <= r /\ r < b /\ q = a \div b /\ r = a % b
LEMMA Division ==
  ASSUME NEW a \in Int, NEW b \in Nat \ {0}
  PROVE  \E q, r \in Int : Divided(a, b, q, r)
BY DivisionFacts DEF Divided

LEMMA DivisionIs ==
  ASSUME NEW a \in Int, NEW b \in Nat \ {0}, NEW q \in Int, NEW r \in Int,
         a = b * q + r, 0 <= r, r < b
  PROVE  a \div b = q /\ a % b = r
OBVIOUS

LEMMA Times ==
  ASSUME NEW c \in Nat \ {0}, NEW a \in Int, NEW b \in Int
  PROVE  /\ c * a \in Int
         /\ a <= b <=> c * a <= c * b
         /\ a < b <=> c * a < c * b
OBVIOUS

-----------------------------------------------------------------------------
(* Descriptors *)

Ports == {"net", "udp", "linux", "tls", "dtls"}
Places == {"off", "idle", "ready", "up", "reading", "open"}
Contexts == [fd : Descriptors \cup {-1}, connected : BOOLEAN]

TypeInv ==
  /\ port \in [Clients -> Ports] /\ \A c \in Clients : port[c] \in PortsOf[c]
  /\ os \in [Descriptors -> Clients \cup {Nobody}]
  /\ net \in [Clients -> Contexts]
  /\ at \in [Clients -> Places]
  /\ dropped \subseteq Descriptors /\ strayed \subseteq Clients

-----------------------------------------------------------------------------
(* The inductive invariant: the descriptor that a client at work would use is its own, and *)
(* what it owns and has not dropped is what it would use.                                  *)

Active == {"ready", "up", "reading", "open"}
Excepted(c) == Kind[c] = "coap" /\ port[c] = "udp"

\* Whether a read or write with context n reaches a descriptor.
Reaches(c, n) == n.fd \in Descriptors /\ (Secure(c) => n.connected)

OwnInv ==
  \A c \in Clients :
    /\ at[c] \in Active /\ ~Excepted(c) /\ Reaches(c, net[c]) => os[net[c].fd] = c
    /\ at[c] \in {"up", "reading"} => net[c].fd \in Descriptors /\ os[net[c].fd] = c
    /\ Kind[c] = "ntp" => at[c] = "off"
KeptInv ==
  \A d \in Descriptors : \A c \in Clients :
    os[d] = c /\ d \notin dropped => at[c] \in Active /\ net[c].fd = d

IInv == TypeInv /\ OwnInv /\ KeptInv /\ OwnDescriptors

-----------------------------------------------------------------------------
(* What a connect may do *)

\* It takes a free descriptor, or changes nothing but the number in its context.
Made1(n, c, r) ==
  \E d \in NextFree : /\ r.os = [os EXCEPT ![d] = c] /\ r.n.fd = d /\ r.n \in Contexts
                      /\ Secure(c) \/ port[c] = "udp" => r.n.connected = TRUE
                      /\ port[c] = "udp" => r.ok = TRUE
                      /\ r.ok # TRUE => port[c] \in {"linux", "tls", "dtls"}
Failed1(n, c, r) ==
  /\ r.os = os /\ r.n \in Contexts /\ r.n.connected = n.connected
  /\ r.n.fd \in {n.fd, -1} \/ (r.n.fd \in NextFree /\ port[c] # "linux")
  /\ r.ok = TRUE => port[c] = "udp" \/ (port[c] = "linux" /\ r.n.fd = -1)

LEMMA FreeFacts ==
  ASSUME TypeInv
  PROVE  \A d \in NextFree : d \in Descriptors /\ os[d] = Nobody
BY DEF NextFree

LEMMA MadeFacts ==
  ASSUME TypeInv, NEW n \in Contexts, NEW c, NEW d \in NextFree, NEW reported \in BOOLEAN, NEW flag \in BOOLEAN
  PROVE  LET r == Made(n, c, d, reported, flag) IN
         /\ r.ok = reported /\ r.os = [os EXCEPT ![d] = c]
         /\ r.n \in Contexts /\ r.n.fd = d /\ r.n.connected = flag
BY FreeFacts DEF Made, Context, Contexts

LEMMA FailedFacts ==
  ASSUME TypeInv, NEW n \in Contexts, NEW fd \in Descriptors \cup {-1}, NEW reported \in BOOLEAN
  PROVE  LET r == Failed(n, fd, reported) IN
         /\ r.ok = reported /\ r.os = os
         /\ r.n \in Contexts /\ r.n.fd = fd /\ r.n.connected = n.connected
BY DEF Failed, Contexts

Outcome(n, c, r) == r.ok \in BOOLEAN /\ (Made1(n, c, r) \/ Failed1(n, c, r))

\* Every port's connect ends in one of the two.
LEMMA Outcomes ==
  ASSUME TypeInv, NEW c \in Clients, NEW n \in Contexts, NEW r \in Connect(n, c)
  PROVE  Outcome(n, c, r)
<1>1. ASSUME NEW d \in NextFree, NEW reported \in BOOLEAN, NEW flag \in BOOLEAN,
             Secure(c) \/ port[c] = "udp" => flag = TRUE,
             port[c] = "udp" => reported = TRUE,
             reported # TRUE => port[c] \in {"linux", "tls", "dtls"}
      PROVE  Outcome(n, c, Made(n, c, d, reported, flag))
  <2> DEFINE r1 == Made(n, c, d, reported, flag)
  <2>1. /\ r1.ok = reported /\ r1.os = [os EXCEPT ![d] = c]
        /\ r1.n \in Contexts /\ r1.n.fd = d /\ r1.n.connected = flag
    BY MadeFacts
  <2> HIDE DEF r1
  <2>2. Outcome(n, c, r1)
    BY <1>1, <2>1 DEF Outcome, Made1
  <2> QED BY <2>2 DEF r1
<1>2. ASSUME NEW fd \in Descriptors \cup {-1}, NEW reported \in BOOLEAN,
             fd \in {n.fd, -1} \/ (fd \in NextFree /\ port[c] # "linux"),
             reported = TRUE => port[c] = "udp" \/ (port[c] = "linux" /\ fd = -1)
      PROVE  Outcome(n, c, Failed(n, fd, reported))
  BY <1>2, FailedFacts DEF Outcome, Failed1
<1>3. /\ n.fd \in Descriptors \cup {-1} /\ n.connected \in BOOLEAN
      /\ NextFree \subseteq Descriptors /\ port[c] \in Ports
  BY FreeFacts DEF Contexts, TypeInv
<1>4. CASE port[c] = "net"
  <2>1. r \in NetConnect(n, c)
    BY <1>4 DEF Connect
  <2>2. \/ r = Failed(n, n.fd, FALSE) \/ r = Failed(n, -1, FALSE)
        \/ \E d \in NextFree : r = Failed(n, d, FALSE) \/ r = Made(n, c, d, TRUE, n.connected)
    BY <2>1 DEF NetConnect
  <2> QED BY <1>1, <1>2, <1>3, <1>4, <2>2 DEF Secure
<1>5. CASE port[c] = "udp"
  <2>1. r \in UdpConnect(n, c)
    BY <1>5 DEF Connect
  <2>2. \/ r = Failed(n, n.fd, FALSE) \/ r = Failed(n, -1, TRUE)
        \/ \E d \in NextFree : r = Failed(n, d, TRUE) \/ r = Made(n, c, d, TRUE, TRUE)
    BY <2>1 DEF UdpConnect
  <2> QED BY <1>1, <1>2, <1>3, <1>5, <2>2 DEF Secure
<1>6. CASE port[c] = "linux"
  <2>1. r \in LinuxNetConnect(n, c)
    BY <1>6 DEF Connect, LinuxUdpConnect
  <2>2. \/ r = Failed(n, n.fd, FALSE) \/ r = Failed(n, -1, TRUE)
        \/ \E d \in NextFree :
             r = Made(n, c, d, FALSE, n.connected) \/ r = Made(n, c, d, TRUE, TRUE)
    BY <2>1 DEF LinuxNetConnect
  <2> QED BY <1>1, <1>2, <1>3, <1>6, <2>2 DEF Secure
<1>7. ASSUME port[c] \in {"tls", "dtls"}, NEW q \in LinuxTlsSocket(n, c)
      PROVE  Outcome(n, c, q) /\ Outcome(n, c, [q EXCEPT !.ok = FALSE])
  <2>1. \/ q = Failed(n, -1, FALSE)
        \/ \E d \in NextFree : \/ q = Failed(n, d, FALSE) \/ q = Made(n, c, d, TRUE, TRUE)
                               \/ q = Made(n, c, d, FALSE, TRUE)
    BY <1>7 DEF LinuxTlsSocket, TlsSocket
  <2>2. Outcome(n, c, q)
    BY <1>1, <1>2, <1>3, <1>7, <2>1
  <2> DEFINE q2 == [q EXCEPT !.ok = FALSE]
  <2>3. \E b, x, t : q = [ok |-> b, n |-> x, os |-> t]
    BY <2>1 DEF Failed, Made
  <2>4. q2.ok = FALSE /\ q2.n = q.n /\ q2.os = q.os
    BY <2>3
  <2> HIDE DEF q2
  <2>5. Outcome(n, c, q2)
    BY <1>7, <2>2, <2>4 DEF Outcome, Made1, Failed1
  <2> QED BY <2>2, <2>5 DEF q2
<1>8. ASSUME port[c] \in {"tls", "dtls"},
             NEW q \in LinuxTlsSocket(n, c), r \in {q, [q EXCEPT !.ok = FALSE]}
      PROVE  Outcome(n, c, r)
  BY <1>7, <1>8
<1>9. CASE port[c] = "tls"
  <2>1. \E q \in LinuxTlsSocket(n, c) : r \in {q, [q EXCEPT !.ok = FALSE]}
    BY <1>9 DEF Connect, TlsConnect, LinuxTlsConnect, TlsHandshake, LinuxTlsHandshake, LinuxTlsSocket
  <2> QED BY <1>8, <1>9, <2>1
<1>10. CASE port[c] = "dtls"
  <2>1. \E q \in LinuxTlsSocket(n, c) : r \in {q, [q EXCEPT !.ok = FALSE]}
    BY <1>10 DEF Connect, DtlsConnect, LinuxDtlsConnect, DtlsHandshake, LinuxDtlsHandshake,
                 DtlsSocket, LinuxDtlsSocket, TlsHandshake, LinuxTlsSocket
  <2> QED BY <1>8, <1>10, <2>1
<1> QED BY <1>3, <1>4, <1>5, <1>6, <1>9, <1>10 DEF Ports

\* A prepared context has no number, and over TLS or DTLS no connection.
LEMMA PreparedFacts ==
  ASSUME TypeInv, NEW c \in Clients, NEW n \in Prepared(c)
  PROVE  /\ n \in Contexts /\ n.fd = -1
         /\ Secure(c) => n.connected = FALSE
<1>1. port[c] \in Ports
  BY DEF TypeInv
<1>2. \E b \in BOOLEAN : n = Context(-1, b) /\ (Secure(c) => b = FALSE)
  BY <1>1 DEF Prepared, NetInit, UdpInit, LinuxNetInit, LinuxUdpInit, TlsInit, DtlsInit, LinuxTlsInit,
     LinuxDtlsInit, CopyNetContext, NetworkPrepare, OnStack, Ports, Secure
<1> QED BY <1>2 DEF Context, Contexts

-----------------------------------------------------------------------------
(* What keeps the invariant *)

\* A context without a number cannot end up with another's.
LEMMA NoStray ==
  ASSUME PortsAssumption, TypeInv, NEW c \in Clients, NEW n \in Contexts, n.fd = -1, NEW r, Outcome(n, c, r)
  PROVE  Strays(c, r.n, r.os) = {}
<1>1. CASE Made1(n, c, r)
  BY <1>1, FreeFacts DEF Made1, Strays, TypeInv
<1>2. CASE Failed1(n, c, r)
  BY <1>2, FreeFacts DEF Failed1, Strays, TypeInv, PortsAssumption
<1> QED BY <1>1, <1>2 DEF Outcome

\* A connect by a client that is off or idle: it goes on with a descriptor of its own, or
\* with none; if it goes nowhere, it has dropped what it opened.
LEMMA Connects ==
  ASSUME PortsAssumption, TypeInv, OwnInv, KeptInv,
         NEW c \in Clients, NEW n \in Contexts, NEW r, Outcome(n, c, r),
         at[c] \in {"off", "idle"}, NEW s \in Places, NEW more \in SUBSET Descriptors,
         os' = r.os, net' = [net EXCEPT ![c] = r.n], at' = [at EXCEPT ![c] = s],
         dropped' = dropped \cup more, port' = port, strayed' \subseteq Clients,
         s \in Active /\ ~Excepted(c) /\ Reaches(c, r.n) => r.os[r.n.fd] = c,
         s \in {"up", "reading"} => r.n.fd \in Descriptors /\ r.os[r.n.fd] = c,
         Kind[c] = "ntp" => s = "off",
         s \in Active \/ (r.n.fd \in Descriptors /\ r.os[r.n.fd] = c => r.n.fd \in dropped')
  PROVE  TypeInv' /\ OwnInv' /\ KeptInv'
<1>1. /\ r.n \in Contexts /\ r.os \in [Descriptors -> Clients \cup {Nobody}]
      /\ \A d \in Descriptors : \/ r.os[d] = os[d]
                                \/ os[d] = Nobody /\ r.os[d] = c /\ d = r.n.fd
  <2>1. CASE Made1(n, c, r)
    BY <2>1, FreeFacts DEF Made1, TypeInv
  <2>2. CASE Failed1(n, c, r)
    BY <2>2 DEF Failed1, TypeInv
  <2> QED BY <2>1, <2>2 DEF Outcome
<1>2. TypeInv'
  BY <1>1 DEF TypeInv
<1>3. \A e \in Clients : e # c => net'[e] = net[e] /\ at'[e] = at[e]
  BY DEF TypeInv
<1>4. net'[c] = r.n /\ at'[c] = s
  BY DEF TypeInv
<1>5. \A e \in Clients : \A m : (Excepted(e)' <=> Excepted(e)) /\ (Reaches(e, m)' <=> Reaches(e, m))
  BY DEF Excepted, Reaches, Secure
<1>6. Nobody \notin Clients
  BY DEF PortsAssumption
<1>7. OwnInv'
  <2> SUFFICES ASSUME NEW e \in Clients
               PROVE  /\ at'[e] \in Active /\ ~Excepted(e) /\ Reaches(e, net'[e]) => os'[net'[e].fd] = e
                      /\ at'[e] \in {"up", "reading"} => net'[e].fd \in Descriptors /\ os'[net'[e].fd] = e
                      /\ Kind[e] = "ntp" => at'[e] = "off"
    BY DEF OwnInv, Excepted, Reaches, Secure
  <2>1. CASE e = c
    BY <1>4, <2>1
  <2>2. CASE e # c
    <3>1. net'[e] = net[e] /\ at'[e] = at[e]
      BY <1>3, <2>2
    <3>2. \A d \in Descriptors : os[d] = e => os'[d] = e
      BY <1>1, <1>6, <2>2
    <3>3. Reaches(e, net[e]) => net[e].fd \in Descriptors
      BY DEF Reaches
    <3> QED BY <3>1, <3>2, <3>3 DEF OwnInv
  <2> QED BY <2>1, <2>2
<1>8. KeptInv'
  <2> SUFFICES ASSUME NEW d \in Descriptors, NEW e \in Clients, os'[d] = e, d \notin dropped'
               PROVE  at'[e] \in Active /\ net'[e].fd = d
    BY DEF KeptInv
  <2>0. d \notin dropped
    OBVIOUS
  <2>1. CASE e = c
    <3>1. CASE r.os[d] = os[d]
      <4>1. at[c] \in Active /\ at[c] \in {"off", "idle"}
        BY <2>0, <2>1, <3>1 DEF KeptInv
      <4> QED BY <4>1 DEF Active
    <3>2. CASE os[d] = Nobody /\ r.os[d] = c /\ d = r.n.fd
      BY <1>1, <1>4, <2>1, <3>2
    <3> QED BY <1>1, <3>1, <3>2
  <2>2. CASE e # c
    BY <1>1, <1>3, <2>0, <2>2 DEF KeptInv
  <2> QED BY <2>1, <2>2
<1> QED BY <1>2, <1>7, <1>8

\* A disconnect by a client that holds its descriptor.
LEMMA Disconnects ==
  ASSUME PortsAssumption, TypeInv, OwnInv, KeptInv,
         NEW c \in Clients, at[c] \in {"up", "reading"}, NEW s \in {"off", "idle"},
         Kind[c] \in {"mqtt", "http"},
         os' = Closed(os, net[c].fd), net' = [net EXCEPT ![c] = Disconnect(net[c], c)],
         at' = [at EXCEPT ![c] = s], port' = port, dropped' = dropped, strayed' \subseteq Clients
  PROVE  TypeInv' /\ OwnInv' /\ KeptInv'
<1>1. net[c].fd \in Descriptors /\ os[net[c].fd] = c /\ net[c] \in Contexts
  BY DEF OwnInv, TypeInv
<1>2. port[c] \in {"net", "linux", "tls"}
  BY DEF PortsAssumption, TypeInv
<1>3. Disconnect(net[c], c) \in Contexts
  BY <1>1, <1>2 DEF Disconnect, NetDisconnect, LinuxNetDisconnect, TlsDisconnect, Context, Contexts
<1>4. /\ os' \in [Descriptors -> Clients \cup {Nobody}]
      /\ \A d \in Descriptors : os'[d] = IF d = net[c].fd THEN Nobody ELSE os[d]
  BY DEF Closed, TypeInv
<1>5. TypeInv'
  BY <1>3, <1>4 DEF TypeInv, Places
<1>6. \A e \in Clients : e # c => net'[e] = net[e] /\ at'[e] = at[e]
  BY DEF TypeInv
<1>7. at'[c] = s /\ Nobody \notin Clients
  BY DEF TypeInv, PortsAssumption
<1>8. OwnInv'
  <2> SUFFICES ASSUME NEW e \in Clients
               PROVE  /\ at'[e] \in Active /\ ~Excepted(e) /\ Reaches(e, net'[e]) => os'[net'[e].fd] = e
                      /\ at'[e] \in {"up", "reading"} => net'[e].fd \in Descriptors /\ os'[net'[e].fd] = e
                      /\ Kind[e] = "ntp" => at'[e] = "off"
    BY DEF OwnInv, Excepted, Reaches, Secure
  <2>1. CASE e = c
    BY <1>7, <2>1 DEF Active
  <2>2. CASE e # c
    <3>1. net'[e] = net[e] /\ at'[e] = at[e]
      BY <1>6, <2>2
    <3>2. Reaches(e, net'[e]) <=> Reaches(e, net[e])
      BY <3>1 DEF Reaches, Secure
    <3>3. ASSUME NEW d \in Descriptors, os[d] = e PROVE os'[d] = e
      BY <1>1, <1>4, <2>2, <3>3
    <3>4. at[e] \in Active /\ ~Excepted(e) /\ Reaches(e, net[e]) => net[e].fd \in Descriptors /\ os[net[e].fd] = e
      BY DEF OwnInv, Reaches
    <3>5. /\ at[e] \in {"up", "reading"} => net[e].fd \in Descriptors /\ os[net[e].fd] = e
          /\ Kind[e] = "ntp" => at[e] = "off"
      BY DEF OwnInv
    <3> QED BY <3>1, <3>2, <3>3, <3>4, <3>5
  <2> QED BY <2>1, <2>2
<1>9. KeptInv'
  <2> SUFFICES ASSUME NEW d \in Descriptors, NEW e \in Clients, os'[d] = e, d \notin dropped'
               PROVE  at'[e] \in Active /\ net'[e].fd = d
    BY DEF KeptInv
  <2>1. d # net[c].fd /\ os[d] = e
    BY <1>4, <1>7
  <2>2. e # c
    BY <2>1 DEF KeptInv
  <2> QED BY <1>6, <2>1, <2>2 DEF KeptInv
<1> QED BY <1>5, <1>8, <1>9

-----------------------------------------------------------------------------
(* The steps *)

NetworkSpec == NetworkInit /\ [][NetworkNext]_networkVars

LEMMA InitIInv == PortsAssumption /\ NetworkInit => IInv
<1> SUFFICES ASSUME PortsAssumption, NetworkInit PROVE IInv
  OBVIOUS
<1>1. TypeInv
  BY DEF NetworkInit, TypeInv, Ports, Places, Contexts
<1>2. OwnInv /\ KeptInv
  BY DEF NetworkInit, OwnInv, KeptInv, Active, PortsAssumption
<1>3. OwnDescriptors
  BY DEF NetworkInit, OwnDescriptors
<1> QED BY <1>1, <1>2, <1>3 DEF IInv

\* A client whose descriptor is its own, or that reaches none, does not stray.
LEMMA OwnStraysNot ==
  ASSUME PortsAssumption, IInv, NEW c \in Clients, at[c] \in Active
  PROVE  Strays(c, net[c], os) \subseteq {c} /\ (~Excepted(c) => Strays(c, net[c], os) = {})
BY DEF IInv, OwnInv, Reaches, Strays

\* The exception is settled when the port is chosen.
LEMMA StrayedKept ==
  ASSUME OwnDescriptors, NEW c \in Clients, NEW S, port' = port, strayed' = strayed \cup S,
         S \subseteq {c}, S # {} => Excepted(c)
  PROVE  OwnDescriptors'
BY DEF OwnDescriptors, Excepted

LEMMA NextIInv == PortsAssumption /\ IInv /\ [NetworkNext]_networkVars => IInv'
<1> SUFFICES ASSUME PortsAssumption, IInv, [NetworkNext]_networkVars PROVE IInv'
  OBVIOUS
<1> USE DEF IInv
<1>1. CASE UNCHANGED networkVars
  BY <1>1 DEF networkVars, TypeInv, OwnInv, KeptInv, OwnDescriptors, Excepted, Reaches, Secure
<1>2. ASSUME NEW c \in Clients, MqttInit(c) \/ MqttReconnect(c)
      PROVE  IInv'
  <2>1. PICK n, r :
          /\ n \in Contexts /\ r \in Connect(n, c)
          /\ at[c] \in {"off", "idle"} /\ Kind[c] = "mqtt" /\ UNCHANGED <<port, strayed>>
          /\ os' = r.os /\ net' = [net EXCEPT ![c] = r.n]
          /\ at' = [at EXCEPT ![c] = IF r.ok THEN "ready" ELSE "idle"]
          /\ dropped' = dropped \cup LeftOpen(c, r)
    <3>1. net[c] \in Contexts
      BY DEF TypeInv
    <3> QED BY <1>2, <3>1, PreparedFacts DEF MqttInit, MqttReconnect, Attempt
  <2>2. Outcome(n, c, r) /\ port[c] \in {"net", "linux", "tls"} /\ ~Excepted(c)
    BY <2>1, Outcomes DEF TypeInv, PortsAssumption, Excepted
  <2> PICK s, more : s = (IF r.ok THEN "ready" ELSE "idle") /\ more = LeftOpen(c, r)
    OBVIOUS
  <2>3. s \in Active /\ Reaches(c, r.n) => r.os[r.n.fd] = c
    <3> SUFFICES ASSUME r.ok = TRUE, Reaches(c, r.n)
                 PROVE  r.os[r.n.fd] = c
      BY <2>2 DEF Active, Outcome
    <3>1. CASE Made1(n, c, r)
      BY <3>1, FreeFacts DEF Made1, TypeInv
    <3>2. CASE Failed1(n, c, r)
      BY <2>2, <3>2 DEF Failed1, Reaches, PortsAssumption
    <3> QED BY <2>2, <3>1, <3>2 DEF Outcome
  <2>4. s \in Active \/ (r.n.fd \in Descriptors /\ r.os[r.n.fd] = c => r.n.fd \in dropped')
    <3> SUFFICES ASSUME r.ok # TRUE, r.n.fd \in Descriptors, r.os[r.n.fd] = c
                 PROVE  r.n.fd \in dropped'
      BY <2>2 DEF Active, Outcome
    <3>1. CASE Made1(n, c, r)
      <4>1. port[c] \in {"linux", "tls", "dtls"}
        BY <3>1 DEF Made1
      <4> QED BY <2>1, <2>2, <4>1 DEF LeftOpen, Outcome
    <3>2. CASE Failed1(n, c, r)
      BY <2>1, <3>2 DEF Failed1, KeptInv, Active
    <3> QED BY <2>2, <3>1, <3>2 DEF Outcome
  <2>5. s \in Places /\ s \notin {"up", "reading"} /\ more \in SUBSET Descriptors /\ Kind[c] # "ntp"
    BY <2>1 DEF Places, LeftOpen
  <2>6. strayed' \subseteq Clients
    BY <2>1 DEF TypeInv
  <2>7. at' = [at EXCEPT ![c] = s] /\ port' = port /\ dropped' = dropped \cup more
    BY <2>1
  <2>8. /\ s \in Active /\ ~Excepted(c) /\ Reaches(c, r.n) => r.os[r.n.fd] = c
        /\ s \in {"up", "reading"} => r.n.fd \in Descriptors /\ r.os[r.n.fd] = c
        /\ Kind[c] = "ntp" => s = "off"
    BY <2>3, <2>5
  <2>9. at[c] \in {"off", "idle"} /\ os' = r.os /\ net' = [net EXCEPT ![c] = r.n] /\ n \in Contexts
    BY <2>1
  <2>10. TypeInv /\ OwnInv /\ KeptInv
    OBVIOUS
  <2>11. TypeInv' /\ OwnInv' /\ KeptInv'
    BY ONLY PortsAssumption, c \in Clients, <2>2, <2>4, <2>5, <2>6, <2>7, <2>8, <2>9, <2>10, Connects
  <2> QED BY <2>1, <2>11 DEF OwnDescriptors
<1>3. ASSUME NEW c \in Clients, MqttConnected(c)
      PROVE  IInv'
  BY <1>3 DEF MqttConnected, TypeInv, Places, OwnInv, KeptInv, OwnDescriptors, Active, Excepted, Reaches, Secure
<1>4. ASSUME NEW c \in Clients, Use(c)
      PROVE  IInv'
  <2>1. Strays(c, net[c], os) \subseteq {c} /\ (~Excepted(c) => Strays(c, net[c], os) = {})
    BY <1>4, OwnStraysNot DEF Use, Active
  <2>2. UNCHANGED <<port, os, net, at, dropped>> /\ strayed' = strayed \cup Strays(c, net[c], os)
    BY <1>4 DEF Use
  <2>3. TypeInv' /\ OwnInv' /\ KeptInv'
    BY <2>1, <2>2 DEF TypeInv, OwnInv, KeptInv, Excepted, Reaches, Secure
  <2>4. OwnDescriptors'
    BY <2>1, <2>2, StrayedKept
  <2> QED BY <2>3, <2>4
<1>5. ASSUME NEW c \in Clients, MqttDisconnect(c) \/ HttpEnds(c)
      PROVE  IInv'
  <2>1. PICK s \in {"off", "idle"} :
          /\ at[c] \in {"up", "reading"} /\ Kind[c] \in {"mqtt", "http"} /\ UNCHANGED <<port, dropped>>
          /\ strayed' = strayed \cup Strays(c, net[c], os)
          /\ os' = Closed(os, net[c].fd) /\ net' = [net EXCEPT ![c] = Disconnect(net[c], c)]
          /\ at' = [at EXCEPT ![c] = s]
    BY <1>5 DEF MqttDisconnect, HttpEnds
  <2>2. Strays(c, net[c], os) \subseteq {c} /\ (~Excepted(c) => Strays(c, net[c], os) = {})
    BY <2>1, OwnStraysNot DEF Active
  <2>3. strayed' \subseteq Clients
    BY <2>1, <2>2 DEF TypeInv
  <2>4. TypeInv' /\ OwnInv' /\ KeptInv'
    BY <2>1, <2>3, Disconnects
  <2>5. OwnDescriptors'
    BY <2>1, <2>2, StrayedKept
  <2> QED BY <2>4, <2>5
<1>6. ASSUME NEW c \in Clients, HttpRequest(c)
      PROVE  IInv'
  <2>1. PICK n, r, s, more :
          /\ n \in Prepared(c) /\ r \in Connect(n, c)
          /\ s \in {"reading", "off"} /\ more \in SUBSET {r.n.fd}
          /\ at[c] = "off" /\ Kind[c] = "http" /\ UNCHANGED port
          /\ os' = r.os /\ net' = [net EXCEPT ![c] = r.n] /\ at' = [at EXCEPT ![c] = s]
          /\ strayed' = strayed \cup Strays(c, r.n, r.os) /\ dropped' = dropped \cup more
          /\ s = "reading" => r.n.fd \in Descriptors /\ r.os[r.n.fd] = c
          /\ s = "off" /\ r.n.fd \in Descriptors /\ r.os[r.n.fd] = c => more = {r.n.fd}
          /\ more # {} => r.n.fd \in Descriptors
    <3>1. PICK n, r :
            /\ n \in Prepared(c) /\ r \in Connect(n, c)
            /\ os' = r.os /\ net' = [net EXCEPT ![c] = r.n]
            /\ strayed' = strayed \cup Strays(c, r.n, r.os)
            /\ LET mine == r.n.fd \in Descriptors /\ r.os[r.n.fd] = c IN
               \/ mine /\ at' = [at EXCEPT ![c] = "reading"] /\ UNCHANGED dropped
               \/ UNCHANGED at /\ dropped' = IF mine THEN dropped \cup {r.n.fd} ELSE dropped
      BY <1>6 DEF HttpRequest
    <3>2. at[c] = "off" /\ Kind[c] = "http" /\ UNCHANGED port
      BY <1>6 DEF HttpRequest, Attempt
    <3>3. UNCHANGED at => at' = [at EXCEPT ![c] = "off"]
      BY <3>2 DEF TypeInv
    <3>4. dropped = dropped \cup {}
      OBVIOUS
    <3> DEFINE mine == r.n.fd \in Descriptors /\ r.os[r.n.fd] = c
    <3>5. CASE mine /\ at' = [at EXCEPT ![c] = "reading"] /\ UNCHANGED dropped
      <4> WITNESS n, r, "reading", {}
      <4> QED BY <3>1, <3>2, <3>4, <3>5
    <3>6. CASE UNCHANGED at /\ mine /\ dropped' = dropped \cup {r.n.fd}
      <4> WITNESS n, r, "off", {r.n.fd}
      <4> QED BY <3>1, <3>2, <3>3, <3>6
    <3>7. CASE UNCHANGED at /\ ~mine /\ dropped' = dropped
      <4> WITNESS n, r, "off", {}
      <4> QED BY <3>1, <3>2, <3>3, <3>4, <3>7
    <3> QED BY <3>1, <3>5, <3>6, <3>7
  <2>2. n \in Contexts /\ n.fd = -1
    BY <2>1, PreparedFacts
  <2>3. Outcome(n, c, r)
    BY <2>1, <2>2, Outcomes
  <2>4. Strays(c, r.n, r.os) = {}
    BY <2>2, <2>3, NoStray
  <2>5. strayed' \subseteq Clients /\ more \in SUBSET Descriptors /\ s \in Places
    BY <2>1, <2>4 DEF TypeInv, Places
  <2>6. /\ s \in Active => r.os[r.n.fd] = c
        /\ s \in Active \/ (r.n.fd \in Descriptors /\ r.os[r.n.fd] = c => r.n.fd \in dropped')
    BY <2>1 DEF Active
  <2>7. TypeInv' /\ OwnInv' /\ KeptInv'
    BY <2>1, <2>2, <2>3, <2>5, <2>6, Connects
  <2> QED BY <2>1, <2>4, <2>7, StrayedKept
<1>7. ASSUME NEW c \in Clients, CoapConstruct(c)
      PROVE  IInv'
  <2>1. PICK n, r :
          /\ n \in Prepared(c) /\ r \in Connect(n, c)
          /\ at[c] = "off" /\ Kind[c] = "coap" /\ UNCHANGED <<port, strayed>>
          /\ os' = r.os /\ net' = [net EXCEPT ![c] = r.n] /\ at' = [at EXCEPT ![c] = "open"]
          /\ dropped' = dropped \cup LeftOpen(c, r)
    BY <1>7 DEF CoapConstruct, Attempt
  <2>2. n \in Contexts /\ n.fd = -1 /\ (Secure(c) => n.connected = FALSE)
    BY <2>1, PreparedFacts
  <2>3. Outcome(n, c, r) /\ port[c] \in {"udp", "linux", "dtls"}
    BY <2>1, <2>2, Outcomes DEF TypeInv, PortsAssumption
  <2>4. ~Excepted(c) /\ Reaches(c, r.n) => r.os[r.n.fd] = c
    <3> SUFFICES ASSUME ~Excepted(c), Reaches(c, r.n)
                 PROVE  r.os[r.n.fd] = c
      OBVIOUS
    <3>1. CASE Made1(n, c, r)
      BY <3>1, FreeFacts DEF Made1, TypeInv
    <3>2. CASE Failed1(n, c, r)
      BY <2>1, <2>2, <2>3, <3>2 DEF Failed1, Reaches, Excepted, Secure, PortsAssumption
    <3> QED BY <2>3, <3>1, <3>2 DEF Outcome
  <2>5. LeftOpen(c, r) \in SUBSET Descriptors /\ strayed' \subseteq Clients /\ "open" \in Places /\ "open" \in Active
    BY <2>1 DEF LeftOpen, TypeInv, Places, Active
  <2>6. TypeInv' /\ OwnInv' /\ KeptInv'
    BY <2>1, <2>2, <2>3, <2>4, <2>5, Connects
  <2> QED BY <2>1, <2>6 DEF OwnDescriptors
<1>8. ASSUME NEW c \in Clients, NtpRequest(c)
      PROVE  IInv'
  <2>1. PICK n, r :
          /\ n \in Prepared(c) /\ r \in Connect(n, c)
          /\ Kind[c] = "ntp" /\ UNCHANGED <<port, at, dropped>> /\ net' = [net EXCEPT ![c] = r.n]
          /\ os' = IF r.ok THEN UdpDestroyed(r.n, r.os) ELSE r.os
          /\ strayed' = strayed \cup Strays(c, r.n, r.os)
    BY <1>8 DEF NtpRequest, Attempt
  <2>2. n \in Contexts /\ n.fd = -1
    BY <2>1, PreparedFacts
  <2>3. Outcome(n, c, r) /\ port[c] = "udp" /\ at[c] = "off"
    BY <2>1, <2>2, Outcomes DEF TypeInv, PortsAssumption, OwnInv
  <2>4. Strays(c, r.n, r.os) = {}
    BY <2>2, <2>3, NoStray
  <2>5. r.n \in Contexts /\ os' = os
    <3>1. CASE Made1(n, c, r)
      <4>1. PICK d \in NextFree : r.os = [os EXCEPT ![d] = c] /\ r.n.fd = d /\ r.n \in Contexts
        BY <3>1 DEF Made1
      <4>2. r.ok = TRUE /\ r.n.connected = TRUE
        BY <2>3, <3>1 DEF Made1
      <4>3. os' = [e \in Descriptors |-> IF e = d THEN Nobody ELSE [os EXCEPT ![d] = c][e]]
        BY <2>1, <4>1, <4>2 DEF UdpDestroyed, Closed
      <4> QED BY <4>1, <4>3, FreeFacts DEF TypeInv
    <3>2. CASE Failed1(n, c, r)
      <4>1. r.os = os /\ r.n \in Contexts /\ (r.n.fd = -1 \/ r.n.fd \in NextFree)
        BY <2>2, <3>2 DEF Failed1
      <4>2. \A d \in Descriptors : d = r.n.fd => os[d] = Nobody
        BY <4>1, FreeFacts DEF PortsAssumption
      <4>3. Closed(os, r.n.fd) = os
        BY <4>2 DEF Closed, TypeInv
      <4> QED BY <2>1, <4>1, <4>3 DEF UdpDestroyed
    <3> QED BY <2>3, <3>1, <3>2 DEF Outcome
  <2>6. TypeInv' /\ OwnInv' /\ KeptInv'
    BY <2>1, <2>3, <2>4, <2>5 DEF TypeInv, OwnInv, KeptInv, Excepted, Reaches, Secure, Active
  <2> QED BY <2>1, <2>4, <2>6, StrayedKept
<1> QED BY <1>1, <1>2, <1>3, <1>4, <1>5, <1>6, <1>7, <1>8 DEF NetworkNext

LEMMA AlwaysIInv == NetworkSpec => []IInv
<1>1. PortsAssumption /\ NetworkInit => IInv
  BY InitIInv
<1>2. PortsAssumption /\ IInv /\ [NetworkNext]_networkVars => IInv'
  BY NextIInv
<1> QED BY <1>1, <1>2, PortsAssumption, PTL DEF NetworkSpec

\* No client reads, writes or closes a descriptor that the system has given to another one,
\* but for CoAP on RT-Thread's UDP port: for every set of clients, whichever of its ports
\* each is built with, and however their connects fail.
THEOREM DescriptorsOwned == NetworkSpec => []OwnDescriptors
BY AlwaysIInv, PTL DEF IInv

\* Every open descriptor is one its client can still close, or one dropped in the three ways
\* the specification records: a client off or idle holds nothing else, one at work holds only
\* the number in its context.
THEOREM DescriptorsKept == NetworkSpec => []NothingLost
<1>1. IInv => NothingLost
  BY DEF IInv, TypeInv, KeptInv, NothingLost, Active
<1> QED BY <1>1, AlwaysIInv, PTL

-----------------------------------------------------------------------------
(* The packets on the way out.  What a connected client did not get out whole is an          *)
(* acknowledgement, with a cycle that will disconnect for it, or the last packet before the  *)
(* DISCONNECT; a client that is not connected has sent nothing yet as a connected one.       *)

PacketWritten == [by : Senders \cup {"disconnect"}, connected : BOOLEAN, length : Nat, written : Nat]
Stages == {"free", "packet", "disconnect", "closed"}

Broken(k) == output[k].connected /\ output[k].written # output[k].length
Excused(k) == Broken(k) => output[k].by = "publishAck" /\ unacked # {}
AckBehind(k) == Broken(k) => output[k].by = "publishAck"

SenderInv ==
  /\ output \in Seq(PacketWritten)
  /\ sender \in [at : Stages, left : Nat]
  /\ ~Connected => \A k \in 1..Len(output) : ~output[k].connected
  /\ sender.at \in {"packet", "disconnect"} =>
       /\ output # <<>>
       /\ output[Len(output)].written + sender.left = output[Len(output)].length
  /\ sender.at = "packet" =>
       /\ SentBy = "connect" => ~Connected
       /\ \A k \in 1..Len(output) - 1 : Excused(k)
  /\ sender.at = "free" => \A k \in 1..Len(output) : Excused(k)
  /\ Over => /\ output # <<>> /\ SentBy = "disconnect"
             /\ \A k \in 1..Len(output) - 2 : AckBehind(k)

LEMMA SenderInit == SendingInit => SenderInv
<1> SUFFICES ASSUME SendingInit PROVE SenderInv
  OBVIOUS
<1>1. output = <<>> /\ output \in Seq(PacketWritten) /\ Len(output) = 0
  BY DEF SendingInit
<1>2. sender.at = "free" /\ sender \in [at : Stages, left : Nat]
  BY DEF SendingInit, Sending, Stages
<1> QED BY <1>1, <1>2 DEF SenderInv, Over

\* The last packet, and the others, after one more or a part of the last.
LEMMA OneMore ==
  ASSUME SenderInv, NEW by \in Senders \cup {"disconnect"}, NEW n \in Nat,
         output' = Append(output, Packet(by, n))
  PROVE  /\ output' \in Seq(PacketWritten) /\ output' # <<>> /\ Len(output') = Len(output) + 1
         /\ Len(output) \in Nat
         /\ output'[Len(output')].written = 0 /\ output'[Len(output')].length = n
         /\ output'[Len(output')].by = by /\ output'[Len(output')].connected = Connected
         /\ \A k \in 1..Len(output) : output'[k] = output[k]
<1> PICK w \in PacketWritten : w = Packet(by, n)
  <2>1. Connected \in BOOLEAN
    BY DEF Connected
  <2> QED BY <2>1 DEF PacketWritten, Packet
<1>1. /\ output \in Seq(PacketWritten) /\ output' = Append(output, w)
      /\ w.written = 0 /\ w.length = n /\ w.by = by /\ w.connected = Connected
  BY DEF SenderInv, Packet
<1>2. /\ output' \in Seq(PacketWritten) /\ Len(output') = Len(output) + 1 /\ Len(output) \in Nat
      /\ output'[Len(output')] = w
      /\ \A k \in 1..Len(output) : output'[k] = output[k]
  BY <1>1
<1> QED BY <1>1, <1>2

LEMMA SendPacketKeeps == ASSUME SenderInv, NEW by \in Senders, SendPacket(by) PROVE SenderInv'
<1>1. PICK n \in Outgoing : output' = Append(output, Packet(by, n)) /\ sender' = Sending("packet", n)
  BY DEF SendPacket
<1>2. /\ n \in Nat /\ link' = link /\ unacked' = unacked /\ (by = "connect" => ~Connected)
      /\ sender.at = "free"
  BY SendingAssumption DEF SendPacket, NotSending
<1>3. \A k \in 1..Len(output) : Excused(k)
  BY <1>2 DEF SenderInv
<1>4. sender'.at = "packet" /\ sender'.left = n /\ sender' \in [at : Stages, left : Nat]
  BY <1>1, <1>2 DEF Sending, Stages
<1>5. /\ output' \in Seq(PacketWritten) /\ output' # <<>> /\ Len(output') = Len(output) + 1
      /\ Len(output) \in Nat
      /\ output'[Len(output')].written = 0 /\ output'[Len(output')].length = n
      /\ output'[Len(output')].by = by /\ output'[Len(output')].connected = Connected
      /\ \A k \in 1..Len(output) : output'[k] = output[k]
  BY <1>1, <1>2, OneMore
<1>6. Connected' = Connected /\ (SentBy' = "connect" => ~Connected')
  BY <1>2, <1>5 DEF Connected, SentBy
<1>7. \A k \in 1..Len(output') - 1 : Excused(k)'
  BY <1>2, <1>3, <1>5 DEF Excused, Broken
<1>8. ~Connected' => \A k \in 1..Len(output') : ~output'[k].connected
  BY <1>5, <1>6 DEF SenderInv
<1>9. ~Over'
  BY <1>4 DEF Over
<1> QED BY <1>2, <1>4, <1>5, <1>6, <1>7, <1>8, <1>9 DEF SenderInv

\* tc_iot_mqtt_disconnect, called when everything before the last packet was excused.
LEMMA EndLinkKeeps ==
  ASSUME SenderInv, EndLink, \A k \in 1..Len(output) - 1 : AckBehind(k)
  PROVE  SenderInv'
<1>1. CASE Connected /\ output' = Append(output, Packet("disconnect", DisconnectSize))
           /\ sender' = Sending("disconnect", DisconnectSize) /\ link' = link
  <2>1. DisconnectSize \in Nat /\ DisconnectSize = 2
    BY DEF DisconnectSize
  <2>2. /\ output' \in Seq(PacketWritten) /\ output' # <<>> /\ Len(output') = Len(output) + 1
        /\ Len(output) \in Nat
        /\ output'[Len(output')].written = 0 /\ output'[Len(output')].length = DisconnectSize
        /\ output'[Len(output')].by = "disconnect"
        /\ \A k \in 1..Len(output) : output'[k] = output[k]
    BY <1>1, <2>1, OneMore
  <2>3. /\ sender'.at = "disconnect" /\ sender'.left = DisconnectSize
        /\ sender' \in [at : Stages, left : Nat]
    BY <1>1, <2>1 DEF Sending, Stages
  <2>4. Connected' /\ SentBy' = "disconnect"
    BY <1>1, <2>2 DEF Connected, SentBy
  <2>5. \A k \in 1..Len(output') - 2 : AckBehind(k)'
    BY <2>2 DEF AckBehind, Broken
  <2> QED BY <2>1, <2>2, <2>3, <2>4, <2>5 DEF SenderInv
<1>2. CASE ~Connected /\ sender' = Sending("free", 0) /\ Unanswered /\ output' = output
  <2>1. ~Connected'
    BY <1>2 DEF Unanswered, Connected
  <2>2. \A k \in 1..Len(output) : ~output[k].connected
    BY <1>2 DEF SenderInv
  <2>3. sender'.at = "free" /\ sender' \in [at : Stages, left : Nat] /\ ~Over'
    BY <1>2 DEF Sending, Stages, Over
  <2>4. \A k \in 1..Len(output') : Excused(k)'
    BY <1>2, <2>2 DEF Excused, Broken
  <2> QED BY <1>2, <2>1, <2>2, <2>3, <2>4 DEF SenderInv
<1> QED BY <1>1, <1>2 DEF EndLink

LEMMA SendFailsKeeps == SenderInv /\ SendFails => SenderInv'
<1> SUFFICES ASSUME SenderInv, SendFails PROVE SenderInv'
  OBVIOUS
<1>1. sender.at = "packet" /\ (\A k \in 1..Len(output) - 1 : Excused(k)) /\ Len(output) \in Nat
  BY DEF SendFails, SenderInv
<1>2. CASE SentBy = "publishAck" /\ BeginDelivery(FALSE) /\ sender' = Sending("free", 0)
           /\ output' = output /\ link' = link
  <2>1. unacked' # {}
    BY <1>2 DEF BeginDelivery
  <2>2. \A k \in 1..Len(output') : Excused(k)'
    BY <1>1, <1>2, <2>1 DEF Excused, Broken, SentBy
  <2>3. sender'.at = "free" /\ sender' \in [at : Stages, left : Nat] /\ ~Over'
    BY <1>2 DEF Sending, Stages, Over
  <2>4. Connected' = Connected
    BY <1>2 DEF Connected
  <2> QED BY <1>2, <2>2, <2>3, <2>4 DEF SenderInv
<1>3. CASE EndLink
  BY <1>1, <1>3, EndLinkKeeps DEF Excused, AckBehind
<1> QED BY <1>2, <1>3 DEF SendFails

LEMMA WriteSomeKeeps == SenderInv /\ WriteSome => SenderInv'
<1> SUFFICES ASSUME SenderInv, WriteSome PROVE SenderInv'
  OBVIOUS
<1>1. PICK n \in 1..sender.left :
        /\ output' = [output EXCEPT ![Len(output)].written = @ + n]
        /\ sender' = [sender EXCEPT !.left = @ - n]
  BY DEF WriteSome
<1>2. /\ sender \in [at : Stages, left : Nat] /\ n \in Nat /\ sender.at \in {"packet", "disconnect"}
      /\ output \in Seq(PacketWritten) /\ output # <<>> /\ link' = link /\ unacked' = unacked
  BY DEF WriteSome, SenderInv
<1>3. /\ sender' \in [at : Stages, left : Nat] /\ sender'.at = sender.at /\ sender'.left = sender.left - n
  BY <1>1, <1>2
<1>4. Len(output) \in Nat \ {0} /\ output[Len(output)] \in PacketWritten
  BY <1>2
<1> PICK p \in PacketWritten : p = output[Len(output)]
  BY <1>4
<1>a. /\ p.length \in Nat /\ p.written \in Nat
      /\ p = [by |-> p.by, connected |-> p.connected, length |-> p.length, written |-> p.written]
  BY DEF PacketWritten
<1> PICK w \in PacketWritten :
      w = [by |-> p.by, connected |-> p.connected, length |-> p.length, written |-> p.written + n]
  <2>1. p.written + n \in Nat
    BY <1>2, <1>a
  <2> QED BY <1>a, <2>1 DEF PacketWritten
<1>5. w.length = p.length /\ w.written = p.written + n /\ w.by = p.by /\ w.connected = p.connected
  OBVIOUS
<1>6. output' = [output EXCEPT ![Len(output)] = w]
  <2>1. w = [p EXCEPT !.written = @ + n]
    BY <1>a
  <2> QED BY <1>1, <2>1
<1>7. /\ output' \in Seq(PacketWritten) /\ Len(output') = Len(output) /\ output'[Len(output)] = w
      /\ \A k \in 1..Len(output) : k # Len(output) => output'[k] = output[k]
  BY <1>2, <1>4, <1>6
<1>8. output' # <<>>
  BY <1>4, <1>7
<1>9. output'[Len(output')].written + sender'.left = output'[Len(output')].length
  <2>1. p.written + sender.left = p.length
    BY <1>2 DEF SenderInv
  <2> QED BY <1>2, <1>3, <1>5, <1>7, <1>a, <2>1
<1>10. Connected' = Connected /\ SentBy' = SentBy /\ Over' = Over
  BY <1>2, <1>3, <1>5, <1>7 DEF Connected, SentBy, Over
<1>11. /\ \A k \in 1..Len(output) - 1 : Excused(k) => Excused(k)'
       /\ \A k \in 1..Len(output) - 2 : AckBehind(k) => AckBehind(k)'
  BY <1>2, <1>4, <1>7 DEF Excused, AckBehind, Broken
<1>12. ~Connected' => \A k \in 1..Len(output') : ~output'[k].connected
  <2>1. \A k \in 1..Len(output) : output'[k].connected = output[k].connected
    BY <1>5, <1>7
  <2> QED BY <1>7, <1>10, <2>1 DEF SenderInv
<1>13. sender.at = "packet" => /\ SentBy' = "connect" => ~Connected'
                               /\ \A k \in 1..Len(output') - 1 : Excused(k)'
  BY <1>7, <1>10, <1>11 DEF SenderInv
<1>14. Over' => SentBy' = "disconnect" /\ \A k \in 1..Len(output') - 2 : AckBehind(k)'
  BY <1>7, <1>10, <1>11 DEF SenderInv
<1>15. sender'.at # "free"
  BY <1>2, <1>3
<1> QED BY <1>3, <1>7, <1>8, <1>9, <1>12, <1>13, <1>14, <1>15 DEF SenderInv

LEMMA SentKeeps == SenderInv /\ Sent => SenderInv'
<1> SUFFICES ASSUME SenderInv, Sent PROVE SenderInv'
  OBVIOUS
<1>1. sender.at = "packet" /\ sender.left = 0 /\ output' = output
      /\ sender'.at = "free" /\ sender'.left = 0 /\ sender' \in [at : Stages, left : Nat]
  BY DEF Sent, Sending, Stages
<1>2. /\ output \in Seq(PacketWritten) /\ output # <<>> /\ (\A k \in 1..Len(output) - 1 : Excused(k))
      /\ output[Len(output)].written + 0 = output[Len(output)].length
      /\ (SentBy = "connect" => ~Connected)
  BY <1>1 DEF SenderInv
<1>3. Len(output) \in Nat \ {0}
  BY <1>2
<1>4. output[Len(output)].written \in Nat
  <2>1. output[Len(output)] \in PacketWritten
    BY <1>2, <1>3
  <2> QED BY <2>1 DEF PacketWritten
<1>5. \A k \in 1..Len(output) : Excused(k)
  BY <1>2, <1>3, <1>4 DEF Excused, Broken
<1>6. unacked' = unacked
  BY DEF Sent, BeginDelivery
<1>7. Connected' = Connected
  BY <1>2 DEF Sent, Connected
<1>8. \A k \in 1..Len(output') : Excused(k)'
  BY <1>1, <1>5, <1>6 DEF Excused, Broken
<1>9. ~Over'
  BY <1>1 DEF Over
<1> QED BY <1>1, <1>2, <1>7, <1>8, <1>9 DEF SenderInv

LEMMA CycleReturnsKeeps == SenderInv /\ CycleReturns => SenderInv'
<1> SUFFICES ASSUME SenderInv, CycleReturns PROVE SenderInv'
  OBVIOUS
<1>1. sender.at = "free" /\ (\A k \in 1..Len(output) : Excused(k)) /\ Len(output) \in Nat
  BY DEF CycleReturns, EndDelivery, NotSending, SenderInv
<1>2. CASE EndLink
  BY <1>1, <1>2, EndLinkKeeps DEF Excused, AckBehind
<1>3. CASE delivering \notin unacked /\ output' = output /\ sender' = sender /\ link' = link
  <2>1. unacked' = unacked
    BY <1>3 DEF CycleReturns, EndDelivery
  <2> QED BY <1>1, <1>3, <2>1 DEF SenderInv, Connected, Over, SentBy, Excused, Broken
<1> QED BY <1>2, <1>3 DEF CycleReturns

\* The client's own steps: CONNACK, and giving up.
LEMMA ConnectionStepKeeps == SenderInv /\ (ConnectAnswered \/ ConnectFails) => SenderInv'
<1> SUFFICES ASSUME SenderInv, ConnectAnswered \/ ConnectFails PROVE SenderInv'
  OBVIOUS
<1>1. /\ sender.at = "free" /\ output' = output /\ sender' = sender /\ unacked' = unacked
      /\ ~Connected
  BY DEF ConnectAnswered, ConnectFails, NotSending, Connected
<1>2. \A k \in 1..Len(output) : ~output[k].connected
  BY <1>1 DEF SenderInv
<1> QED BY <1>1, <1>2 DEF SenderInv, Over, Excused, Broken

LEMMA GiveUpKeeps == SenderInv /\ GiveUp => SenderInv'
<1> SUFFICES ASSUME SenderInv, GiveUp PROVE SenderInv'
  OBVIOUS
<1>1. (\A k \in 1..Len(output) : Excused(k)) /\ Len(output) \in Nat
  BY DEF GiveUp, NotSending, SenderInv
<1> QED BY <1>1, EndLinkKeeps DEF GiveUp, Excused, AckBehind

LEMMA CloseStreamKeeps == SenderInv /\ CloseStream => SenderInv'
<1> SUFFICES ASSUME SenderInv, CloseStream PROVE SenderInv'
  OBVIOUS
<1>1. /\ sender.at = "disconnect" /\ output' = output /\ link' = link
      /\ sender'.at = "closed" /\ sender' \in [at : Stages, left : Nat]
  BY DEF CloseStream, Sending, Stages
<1>2. Over /\ Over'
  BY <1>1 DEF Over
<1> QED BY <1>1, <1>2 DEF SenderInv, Connected, SentBy, AckBehind, Broken

LEMMA SenderNext == SenderInv /\ [SendingNext]_sendingVars => SenderInv'
<1> SUFFICES ASSUME SenderInv, [SendingNext]_sendingVars PROVE SenderInv'
  OBVIOUS
<1>1. CASE UNCHANGED sendingVars
  BY <1>1 DEF sendingVars, SenderInv, Connected, Over, SentBy, Excused, AckBehind, Broken
<1>2. CASE SendingNext
  BY <1>2, SendPacketKeeps, WriteSomeKeeps, SentKeeps, SendFailsKeeps, CycleReturnsKeeps,
     ConnectionStepKeeps, GiveUpKeeps, CloseStreamKeeps DEF SendingNext
<1> QED BY <1>1, <1>2

LEMMA CutIsExcused == SenderInv => CutPacketEndsConnection
<1> SUFFICES ASSUME SenderInv, NEW k \in DOMAIN output, Cut(k), output[k].connected
             PROVE  /\ Over \/ (output[k].by = "publishAck" /\ unacked # {})
                    /\ output[k].by # "publishAck" =>
                         \A j \in k + 1..Len(output) : j = Len(output) /\ output[j].by = "disconnect"
  BY DEF CutPacketEndsConnection
<1>1. output \in Seq(PacketWritten) /\ Len(output) \in Nat /\ k \in 1..Len(output) /\ sender.at \in Stages
  BY DEF SenderInv
<1>2. Broken(k)
  <2>1. output[k] \in PacketWritten
    BY <1>1
  <2>2. output[k].written \in Nat /\ output[k].length \in Nat
    BY <2>1 DEF PacketWritten
  <2> QED BY <2>2 DEF Broken, Cut
<1>3. CASE Over
  <2>1. SentBy = "disconnect" /\ \A i \in 1..Len(output) - 2 : AckBehind(i)
    BY <1>3 DEF SenderInv
  <2>2. output[k].by # "publishAck" => k > Len(output) - 2
    BY <1>1, <1>2, <2>1 DEF AckBehind
  <2> QED BY <1>1, <1>3, <2>1, <2>2 DEF SentBy
<1>4. CASE sender.at = "packet"
  <2>1. k \in 1..Len(output) - 1
    BY <1>1, <1>4 DEF Cut
  <2> QED BY <1>2, <1>4, <2>1 DEF SenderInv, Excused
<1>5. CASE sender.at = "free"
  BY <1>1, <1>2, <1>5 DEF SenderInv, Excused
<1> QED BY <1>1, <1>3, <1>4, <1>5 DEF Over, Stages

SendingSpec == SendingInit /\ [][SendingNext]_sendingVars

\* A packet that a connected client could not finish is followed by the end of its
\* connection: at once, or, when it acknowledges a PUBLISH, when the cycle that delivers the
\* message ends.  For packets of every size, however many, however the network takes them,
\* and however deep the handlers nest.
THEOREM CutPacketsEndConnections == SendingSpec => []CutPacketEndsConnection
<1>1. SendingSpec => []SenderInv
  BY SenderInit, SenderNext, PTL DEF SendingSpec
<1> QED BY <1>1, CutIsExcused, PTL

-----------------------------------------------------------------------------
(* The packets on the way in.  A read that fails within a packet ends the connection, so *)
(* what has been read of the stream is a number of whole packets and a piece of the next. *)

LEMMA RadixFacts ==
  Radix \in Nat /\ Radix > 1 /\ Radix # 0 /\ Lengths \subseteq Nat
<1>1. MaxLength \in Int
  BY StreamAssumption DEF MaxLength
<1> QED BY StreamAssumption, <1>1

LEMMA Quotient ==
  ASSUME NEW n \in Nat, NEW r \in Nat, r > 1
  PROVE  /\ n \div r \in Nat /\ n % r \in 0..r - 1 /\ n = r * (n \div r) + (n % r)
         /\ n >= r => n \div r < n
         /\ n < r <=> n \div r = 0
<1>1. PICK q, m \in Int : Divided(n, r, q, m)
  BY Division
<1>2. q = n \div r /\ m = n % r /\ 0 <= m /\ m < r
  BY <1>1 DEF Divided
<1>4. n = r * q + m
  BY <1>1 DEF Divided
<1>5. q >= 0
  <2> SUFFICES ASSUME q <= -1 PROVE FALSE
    OBVIOUS
  <2>1. r * q <= r * (-1)
    OBVIOUS
  <2> QED BY <2>1, <1>2, <1>4
<1>6. ASSUME n >= r PROVE q < n
  <2> SUFFICES ASSUME q >= n PROVE FALSE
    OBVIOUS
  <2>1. r * q >= 2 * q
    BY <1>5
  <2> QED BY <2>1, <1>2, <1>4, <1>6
<1>7. n < r <=> q = 0
  <2>1. CASE q = 0
    BY <2>1, <1>2, <1>4
  <2>2. CASE q >= 1
    <3>1. r * q >= r * 1
      BY <2>2
    <3> QED BY <3>1, <1>2, <1>4, <2>2
  <2> QED BY <2>1, <2>2, <1>5
<1>8. n = r * (n \div r) + (n % r)
  <2>1. n \in Int /\ r \in Nat \ {0}
    OBVIOUS
  <2> QED BY ONLY <2>1, DivisionFacts
<1>9. n < r <=> n \div r = 0
  BY <1>2, <1>7
<1>10. n \div r \in Nat /\ n % r \in 0..r - 1
  BY <1>2, <1>5
<1>11. n >= r => n \div r < n
  BY <1>2, <1>6
<1> QED BY <1>8, <1>9, <1>10, <1>11

\* Digits meets its equation.
LEMMA DigitsAre ==
  /\ Digits \in [Nat -> Nat \ {0}]
  /\ \A n \in Nat : Digits[n] = IF n < Radix THEN 1 ELSE 1 + Digits[n \div Radix]
<1> DEFINE S == Nat \ {0}
           G == [Nat -> S]
           succ == [z \in G \X Nat |-> IF z[2] < Radix THEN 1 ELSE 1 + z[1][z[2] \div Radix]]
           m == [n \in Nat |-> n]
<1>1. \A n \in Nat : n \div Radix \in Nat /\ (~(n < Radix) => n \div Radix < n)
  BY RadixFacts, Quotient
<1>2. succ \in [G \X Nat -> S]
  BY <1>1
<1>3. \A f, g \in G : \A x \in Nat :
        (\A y \in Nat : m[y] < m[x] => f[y] = g[y]) => succ[<<f, x>>] = succ[<<g, x>>]
  BY <1>1
<1>4. Narrows(succ, Nat, S, m)
  BY <1>2, <1>3 DEF Narrows
<1>5. PICK f : Solves(f, Nat, S, succ)
  <2> HIDE DEF succ, m, S
  <2>1. 1 \in S
    BY DEF S
  <2> QED BY <1>4, <2>1, Recursion
<1>6. f \in G /\ \A n \in Nat : f[n] = IF n < Radix THEN 1 ELSE 1 + f[n \div Radix]
  BY <1>5 DEF Solves
<1>7. f = [n \in Nat |-> IF n < Radix THEN 1 ELSE 1 + f[n \div Radix]]
  BY <1>6
<1>8. Digits = [n \in Nat |-> IF n < Radix THEN 1 ELSE 1 + Digits[n \div Radix]]
  BY <1>7 DEF Digits
<1>9. \A n \in Nat : Digits[n] = IF n < Radix THEN 1 ELSE 1 + Digits[n \div Radix]
  BY <1>8
<1> DEFINE A == {k \in Nat : \A n \in Nat : n <= k => Digits[n] \in S}
<1>10. 0 \in A
  BY <1>9, RadixFacts
<1>11. \A k \in Nat : k \in A => k + 1 \in A
  <2> TAKE k \in Nat
  <2> HAVE k \in A
  <2> SUFFICES ASSUME NEW n \in Nat, n <= k + 1 PROVE Digits[n] \in S
    OBVIOUS
  <2>1. CASE n < Radix
    BY <1>9, <2>1
  <2>2. CASE ~(n < Radix)
    <3>1. n \div Radix \in Nat /\ n \div Radix <= k
      BY <2>2, <1>1
    <3> QED BY <3>1, <2>2, <1>9
  <2> QED BY <2>1, <2>2
<1>12. Nat \subseteq A
  <2> HIDE DEF A
  <2> QED BY <1>10, <1>11, SetInduction
<1>13. \A n \in Nat : Digits[n] \in S
  BY <1>12
<1> QED BY <1>8, <1>9, <1>13

LEMMA SizeType == \A n \in Nat : PacketSize(n) \in Nat /\ PacketSize(n) = 1 + Digits[n] + n /\ Digits[n] >= 1
  BY DigitsAre DEF PacketSize

Sums == [z \in Nat \X Nat |-> z[1] + PacketSize(z[2])]

LEMMA StreamSizeRuns ==
  ASSUME NEW seq \in Seq(Nat)
  PROVE  RunsTo(StreamSize(seq), Nat, 0, Sums, seq)
<1> DEFINE D == SUBSET (DOMAIN seq)
<1>1. Sums \in [Nat \X Nat -> Nat]
  <2>1. \A a, b \in Nat : a + PacketSize(b) \in Nat
    BY SizeType, SMTT(20)
  <2> QED BY <2>1 DEF Sums
<1>2. PICK g : FoldsSets(g, Nat, 0, Sums, seq)
  BY <1>1, FoldExists
<1> DEFINE iter == CHOOSE f : f = [s \in D |-> IF s = {} THEN 0 ELSE f[s \ {Max(s)}] + PacketSize(seq[Max(s)])]
<1>0. PICK n \in Nat : n = Len(seq) /\ DOMAIN seq = 1..n
  BY LenProperties
<1>3. \A s \in D : s # {} => Max(s) \in s /\ seq[Max(s)] \in Nat /\ s \ {Max(s)} \in D
  <2> TAKE s \in D
  <2> HAVE s # {}
  <2>1. s \in SUBSET (1..n)
    BY <1>0
  <2>2. Max(s) \in s
    BY <2>1, MaxOfInitial
  <2> QED BY <2>2, <1>0, ElementOfSeq
<1>4. g = [s \in D |-> IF s = {} THEN 0 ELSE g[s \ {Max(s)}] + PacketSize(seq[Max(s)])]
  <2>1. ASSUME NEW s \in D, s # {} PROVE g[s] = g[s \ {Max(s)}] + PacketSize(seq[Max(s)])
    BY <2>1, <1>2, <1>3 DEF FoldsSets, Sums
  <2>2. g[{}] = 0
    BY <1>2 DEF FoldsSets
  <2>3. g = [s \in D |-> g[s]]
    BY <1>2 DEF FoldsSets
  <2> QED BY <2>1, <2>2, <2>3
<1>5. iter = [s \in D |-> IF s = {} THEN 0 ELSE iter[s \ {Max(s)}] + PacketSize(seq[Max(s)])]
  BY <1>4
<1>6. StreamSize(seq) = iter[DOMAIN seq]
  BY DEF StreamSize, FoldLeft, MapThenFoldSet
<1> HIDE DEF iter
<1> DEFINE V == Nat \cup {iter[s] : s \in D}
           succ == [z \in V \X Nat |-> z[1] + PacketSize(z[2])]
<1>7. iter = [s \in D |-> IF s = {} THEN 0 ELSE succ[<<iter[s \ {Max(s)}], seq[Max(s)]>>]]
  <2>1. ASSUME NEW s \in D, s # {} PROVE iter[s] = succ[<<iter[s \ {Max(s)}], seq[Max(s)]>>]
    BY <2>1, <1>3, <1>5
  <2>2. iter[{}] = 0 /\ iter = [s \in D |-> iter[s]]
    BY <1>5
  <2> QED BY <2>1, <2>2
<1>8. ASSUME NEW x \in Nat, NEW t \in Nat PROVE succ[<<x, t>>] = x + PacketSize(t) /\ succ[<<x, t>>] \in Nat
  <2>1. x \in V
    OBVIOUS
  <2>2. succ[<<x, t>>] = x + PacketSize(t)
    <3> HIDE DEF V
    <3> QED BY <2>1
  <2>3. x + PacketSize(t) \in Nat
    BY SizeType, SMTT(20)
  <2> HIDE DEF succ
  <2> QED BY <2>2, <2>3
<1>9. RunsTo(iter[DOMAIN seq], Nat, 0, succ, seq)
  <2> HIDE DEF succ
  <2> QED BY <1>7, <1>8, FoldRuns
<1>10. Agree(succ, Sums, Nat, Nat)
  BY <1>8 DEF Sums, Agree
<1> HIDE DEF succ
<1>11. RunsTo(iter[DOMAIN seq], Nat, 0, Sums, seq)
  BY <1>9, <1>10, RunsByOther
<1> QED BY <1>6, <1>11

LEMMA StreamSizeGrows ==
  ASSUME NEW seq \in Seq(Nat), NEW k \in 1..Len(seq)
  PROVE  StreamSize(SubSeq(seq, 1, k)) = StreamSize(SubSeq(seq, 1, k - 1)) + PacketSize(seq[k])
<1>0. Len(seq) \in Nat /\ k \in 0..Len(seq) /\ k - 1 \in 0..Len(seq) /\ k - 1 \in Nat
  BY LenProperties
<1>a. PICK n : n = k - 1
  OBVIOUS
<1>b. PICK s : s = SubSeq(seq, 1, n)
  OBVIOUS
<1>c. PICK t : t = SubSeq(seq, 1, k)
  OBVIOUS
<1>1. s \in Seq(Nat) /\ Len(s) = n /\ \A i \in 1..n : s[i] = seq[i]
  BY <1>0, <1>a, <1>b, Initial
<1>2. t \in Seq(Nat) /\ Len(t) = k /\ \A i \in 1..k : t[i] = seq[i]
  BY <1>0, <1>c, Initial
<1>3. PICK F : Run(F, Nat, 0, Sums, s) /\ F[n] = StreamSize(s)
  BY <1>1, StreamSizeRuns DEF RunsTo
<1>4. PICK G : Run(G, Nat, 0, Sums, t) /\ G[k] = StreamSize(t)
  BY <1>2, StreamSizeRuns DEF RunsTo
<1>5. F[n] = G[n]
  <2>1. n \in Nat /\ Len(s) \in Nat /\ Len(t) \in Nat /\ n <= Len(s) /\ n <= Len(t)
    BY <1>0, <1>1, <1>2, <1>a
  <2>2. \A i \in 1..n : i \in 1..k
    BY <1>0, <1>a
  <2>3. SameUpTo(n, s, t)
    BY <2>2, <1>1, <1>2 DEF SameUpTo
  <2> QED BY <1>3, <1>4, <2>1, <2>3, RunsAgree
<1>6. G[k] = Sums[<<G[n], t[k]>>] /\ G[n] \in Nat
  BY <1>0, <1>2, <1>4, <1>a DEF Run
<1>7. seq[k] \in Nat /\ t[k] = seq[k]
  BY <1>0, <1>2, ElementOfSeq
<1>8. G[k] = G[n] + PacketSize(seq[k])
  BY <1>6, <1>7 DEF Sums
<1> QED BY <1>a, <1>b, <1>c, <1>3, <1>4, <1>5, <1>8

LEMMA StreamSizeType ==
  ASSUME NEW seq \in Seq(Nat)
  PROVE  StreamSize(seq) \in Nat /\ (Len(seq) = 0 => StreamSize(seq) = 0)
<1>1. PICK F : Run(F, Nat, 0, Sums, seq) /\ F[Len(seq)] = StreamSize(seq)
  BY StreamSizeRuns DEF RunsTo
<1>2. Len(seq) \in Nat
  BY LenProperties
<1> QED BY <1>1, <1>2 DEF Run

Packets == incoming \in Seq(Nat)

LEMMA StartFacts ==
  ASSUME Packets
  PROVE  /\ Len(incoming) \in Nat /\ DOMAIN incoming = 1..Len(incoming)
         /\ Start(1) = 0
         /\ \A k \in 0..Len(incoming) : Start(k + 1) = StreamSize(SubSeq(incoming, 1, k)) /\ Start(k + 1) \in Nat
         /\ \A k \in 1..Len(incoming) : Start(k + 1) = Start(k) + PacketSize(incoming[k]) /\ Start(k) \in Nat
                                       /\ incoming[k] \in Nat
         /\ Total = Start(Len(incoming) + 1)
<1>1. incoming \in Seq(Nat) /\ Len(incoming) \in Nat /\ DOMAIN incoming = 1..Len(incoming)
  BY LenProperties DEF Packets
<1>2. ASSUME NEW k \in 0..Len(incoming)
      PROVE  Start(k + 1) = StreamSize(SubSeq(incoming, 1, k)) /\ Start(k + 1) \in Nat /\ (k = 0 => Start(k + 1) = 0)
  <2>1. (k + 1) - 1 = k
    OBVIOUS
  <2>2. Start(k + 1) = StreamSize(SubSeq(incoming, 1, k))
    BY <2>1 DEF Start
  <2>3. SubSeq(incoming, 1, k) \in Seq(Nat) /\ Len(SubSeq(incoming, 1, k)) = k
    BY <1>1, Initial
  <2> QED BY <2>2, <2>3, StreamSizeType
<1>3. ASSUME NEW k \in 1..Len(incoming)
      PROVE  Start(k + 1) = Start(k) + PacketSize(incoming[k]) /\ Start(k) \in Nat /\ incoming[k] \in Nat
  <2>1. k \in 0..Len(incoming) /\ k - 1 \in 0..Len(incoming) /\ (k - 1) + 1 = k /\ incoming[k] \in Nat
    BY <1>1, ElementOfSeq
  <2>2. Start(k + 1) = StreamSize(SubSeq(incoming, 1, k)) /\ Start((k - 1) + 1) = StreamSize(SubSeq(incoming, 1, k - 1))
        /\ Start((k - 1) + 1) \in Nat
    BY <1>2, <2>1
  <2>3. StreamSize(SubSeq(incoming, 1, k)) = StreamSize(SubSeq(incoming, 1, k - 1)) + PacketSize(incoming[k])
    BY <1>1, StreamSizeGrows
  <2> QED BY <2>1, <2>2, <2>3
<1>4. Start(1) = 0
  <2>1. PICK zero \in 0..Len(incoming) : zero = 0
    BY <1>1
  <2>2. zero + 1 = 1
    BY <2>1
  <2> QED BY <2>1, <2>2, <1>2
<1>5. Total = Start(Len(incoming) + 1)
  <2>1. Len(incoming) \in 0..Len(incoming) /\ SubSeq(incoming, 1, Len(incoming)) = incoming
    BY <1>1, SubSeqFull
  <2> QED BY <2>1, <1>2 DEF Total
<1> QED BY <1>1, <1>2, <1>3, <1>4, <1>5

LEMMA StartsRise ==
  ASSUME Packets, NEW j \in 1..Len(incoming) + 1, NEW k \in 1..Len(incoming) + 1, j <= k
  PROVE  Start(j) <= Start(k) /\ Start(j) \in Nat /\ Start(k) \in Nat
<1>0. Len(incoming) \in Nat
  BY StartFacts
<1>t. \A i \in 1..Len(incoming) + 1 : Start(i) \in Nat
  <2> TAKE i \in 1..Len(incoming) + 1
  <2>1. i - 1 \in 0..Len(incoming) /\ (i - 1) + 1 = i
    BY <1>0
  <2>2. Start((i - 1) + 1) \in Nat
    BY <2>1, StartFacts
  <2> QED BY <2>1, <2>2
<1> DEFINE A == {d \in Nat : j + d <= Len(incoming) + 1 => Start(j) <= Start(j + d)}
<1>1. 0 \in A
  BY <1>t, <1>0
<1>2. \A d \in Nat : d \in A => d + 1 \in A
  <2> TAKE d \in Nat
  <2> HAVE d \in A
  <2> SUFFICES ASSUME j + (d + 1) <= Len(incoming) + 1 PROVE Start(j) <= Start(j + (d + 1))
    OBVIOUS
  <2>1. j + d \in 1..Len(incoming) /\ j + (d + 1) = (j + d) + 1
    BY <1>0
  <2>2. Start((j + d) + 1) = Start(j + d) + PacketSize(incoming[j + d]) /\ Start(j + d) \in Nat
        /\ incoming[j + d] \in Nat
    BY <2>1, StartFacts
  <2>3. PacketSize(incoming[j + d]) \in Nat
    BY <2>2, SizeType
  <2>4. Start(j) <= Start(j + d) /\ Start(j) \in Nat
    BY <2>1, <1>t, <1>0
  <2> QED BY <2>1, <2>2, <2>3, <2>4
<1>3. Nat \subseteq A
  <2> HIDE DEF A
  <2> QED BY <1>1, <1>2, SetInduction
<1>4. k - j \in Nat /\ j + (k - j) = k
  BY <1>0
<1>5. Start(j) <= Start(j + (k - j))
  BY <1>3, <1>4, <1>0
<1> QED BY <1>4, <1>5, <1>t

\* A place of the stream is in one packet only.
LEMMA InPacket ==
  ASSUME Packets, NEW k \in 1..Len(incoming), NEW p \in Nat, Start(k) <= p, p < Start(k + 1)
  PROVE  PacketAt(p) = k
<1>0. Len(incoming) \in Nat /\ DOMAIN incoming = 1..Len(incoming)
  BY StartFacts
<1>1. ASSUME NEW j \in DOMAIN incoming, Start(j) <= p, p < Start(j + 1) PROVE j = k
  <2>0. j \in 1..Len(incoming) + 1 /\ j + 1 \in 1..Len(incoming) + 1 
        /\ k \in 1..Len(incoming) + 1 /\ k + 1 \in 1..Len(incoming) + 1
    BY <1>0
  <2>1. CASE j + 1 <= k
    <3>1. Start(j + 1) <= Start(k) /\ Start(j + 1) \in Nat /\ Start(k) \in Nat
      BY <2>0, <2>1, StartsRise
    <3> QED BY <3>1, <1>1
  <2>2. CASE k + 1 <= j
    <3>1. Start(k + 1) <= Start(j) /\ Start(k + 1) \in Nat /\ Start(j) \in Nat
      BY <2>0, <2>2, StartsRise
    <3> QED BY <3>1, <1>1
  <2> QED BY <2>1, <2>2, <1>0
<1>2. k \in DOMAIN incoming
  BY <1>0
<1> QED BY <1>1, <1>2 DEF PacketAt

\* Of the length n the client has read count digits, which make value.
DigitsRead(count, value, n) ==
  \E w, rest \in Nat :
    /\ count \in 0..3 /\ w = Multiplier[count + 1]
    /\ n = value + w * rest /\ value \in 0..w - 1
    /\ Digits[n] = count + Digits[rest]

Skips(r) == r = At("skip", r.count, r.value)

\* The client has returned k packets, h, and stands at place p where r says.
InOrder(k, h, r, p) ==
  /\ h = SubSeq(incoming, 1, k)
  /\ r.at \in {"idle", "closed", "length", "sized", "skip"}
  /\ r.at \in {"idle", "closed"} => p = Start(k + 1)
  /\ r.at \in {"length", "sized", "skip"} => k < Len(incoming)
  /\ r.at = "length" => /\ p = Start(k + 1) + 1 + r.count
                        /\ DigitsRead(r.count, r.value, incoming[k + 1])
  /\ r.at = "sized" => /\ p = Start(k + 1) + 1 + Digits[incoming[k + 1]]
                       /\ r.value = incoming[k + 1]
  /\ r.at = "skip" => /\ r.count \in Nat /\ p + r.count = Start(k + 2) /\ p \in Int
                      /\ r.value = incoming[k + 1] /\ Skips(r)
ReadInOrder(h, r, p) == \E k \in 0..Len(incoming) : InOrder(k, h, r, p)

StreamInv ==
  /\ incoming \in Seq(Lengths) /\ arrived \in Nat /\ pos \in Int
  /\ late \in BOOLEAN /\ arrived <= Total
  /\ ~late => pos <= arrived /\ ReadInOrder(handed, rx, pos)

LEMMA LengthsAreNat == Seq(Lengths) \subseteq Seq(Nat)
<1>1. Lengths \subseteq Nat
  BY RadixFacts
<1> QED BY <1>1, SeqMonotonic

LEMMA Multipliers ==
  /\ Multiplier[1] = 1 /\ \A c \in 0..2 : Multiplier[c + 2] = Multiplier[c + 1] * Radix
  /\ \A c \in 0..3 : Multiplier[c + 1] \in Nat \ {0}
  /\ Multiplier[4] * Radix = MaxLength + 1
<1>1. PICK r \in Nat : r = Radix /\ r > 1
  BY RadixFacts
<1>2. Multiplier = <<1, r, r * r, r * r * r>>
  BY <1>1 DEF Multiplier
<1>3. r * r \in Nat /\ r * r > 0
  BY <1>1
<1>4. PICK s \in Nat : s = r * r /\ s > 0
  BY <1>3
<1>5. s * r \in Nat /\ s * r > 0
  BY <1>1, <1>4
<1>6. Multiplier[1] = 1 /\ Multiplier[2] = r /\ Multiplier[3] = s /\ Multiplier[4] = s * r
  BY <1>2, <1>4
<1>7. \A c \in 0..2 : Multiplier[c + 2] = Multiplier[c + 1] * Radix
  <2> TAKE c \in 0..2
  <2>1. CASE c = 0
    BY <2>1, <1>1, <1>6
  <2>2. CASE c = 1
    BY <2>2, <1>1, <1>4, <1>6
  <2>3. CASE c = 2
    BY <2>3, <1>1, <1>6
  <2> QED BY <2>1, <2>2, <2>3
<1>8. \A c \in 0..3 : Multiplier[c + 1] \in Nat \ {0}
  <2> TAKE c \in 0..3
  <2>1. CASE c = 0
    BY <2>1, <1>6
  <2>2. CASE c = 1
    BY <2>2, <1>1, <1>6
  <2>3. CASE c = 2
    BY <2>3, <1>4, <1>6
  <2>4. CASE c = 3
    BY <2>4, <1>5, <1>6
  <2> QED BY <2>1, <2>2, <2>3, <2>4
<1>9. Multiplier[4] * Radix = MaxLength + 1
  <2>1. MaxLength = r * r * r * r - 1
    BY <1>1 DEF MaxLength
  <2>2. s * r * r \in Int /\ MaxLength = s * r * r - 1
    BY <2>1, <1>4, <1>5
  <2> QED BY <1>1, <1>6, <2>2
<1> QED BY <1>6, <1>7, <1>8, <1>9

\* One more digit.
LEMMA DigitTaken ==
  ASSUME NEW n \in Lengths, NEW count, NEW value, DigitsRead(count, value, n),
         NEW v, v = value + ((n \div Multiplier[count + 1]) % Radix) * Multiplier[count + 1]
  PROVE  /\ count + 1 = Digits[n] => v = n
         /\ count + 1 # Digits[n] => count < 3 /\ DigitsRead(count + 1, v, n)
         /\ count \in 0..3 /\ count < Digits[n] /\ n \in Nat
<1>0. n \in Nat /\ n <= MaxLength /\ Radix \in Nat /\ Radix > 1 /\ MaxLength \in Int
  <2>1. n \in 0..MaxLength
    BY StreamAssumption
  <2>2. MaxLength \in Int
    BY StreamAssumption DEF MaxLength
  <2> QED BY <2>1, <2>2, RadixFacts
<1>1. PICK w, rest \in Nat : /\ count \in 0..3 /\ w = Multiplier[count + 1]
                            /\ n = value + w * rest /\ value \in 0..w - 1
                            /\ Digits[n] = count + Digits[rest]
  BY DEF DigitsRead
<1>2. w # 0 /\ w \in Nat \ {0}
  BY <1>1, Multipliers
<1>3. n \div w = rest
  <2>1. n = w * rest + value /\ 0 <= value /\ value < w /\ value \in Int /\ n \in Int
    BY <1>0, <1>1, <1>2
  <2> QED BY <2>1, <1>2, DivisionIs
<1>4. PICK d, q \in Nat : d = rest % Radix /\ q = rest \div Radix /\ d < Radix /\ rest = Radix * q + d
                         /\ (rest < Radix <=> q = 0)
  <2>1. rest % Radix \in 0..Radix - 1 /\ rest \div Radix \in Nat
    BY <1>0, Quotient
  <2>2. rest = Radix * (rest \div Radix) + (rest % Radix) /\ (rest < Radix <=> rest \div Radix = 0)
    BY <1>0, Quotient
  <2> QED BY <2>1, <2>2, <1>0
<1>5. v = value + d * w
  BY <1>1, <1>3, <1>4
<1>6. Digits[rest] = (IF rest < Radix THEN 1 ELSE 1 + Digits[q]) /\ Digits[q] >= 1 /\ Digits[q] \in Nat
      /\ Digits[rest] \in Nat /\ Digits[rest] >= 1
  BY <1>4, DigitsAre
<1>7. count + 1 = Digits[n] <=> rest < Radix
  BY <1>1, <1>6, <1>0
<1>8. ASSUME rest < Radix PROVE v = n
  <2>1. q = 0
    BY <1>4, <1>8
  <2>2. Radix * q = 0
    BY <2>1, <1>0
  <2>3. d = rest
    BY <2>2, <1>4
  <2> QED BY <2>3, <1>1, <1>5
<1>9. ASSUME ~(rest < Radix) PROVE count < 3
  <2> SUFFICES ASSUME count = 3 PROVE FALSE
    BY <1>1
  <2>1. w * Radix = MaxLength + 1
    BY <1>1, Multipliers
  <2>2. w * rest >= w * Radix
    BY <1>0, <1>2, <1>9, Times
  <2> QED BY <2>1, <2>2, <1>0, <1>1
<1>10. ASSUME ~(rest < Radix) PROVE DigitsRead(count + 1, v, n)
  <2>1. count + 1 \in 0..3 /\ count \in 0..2
    BY <1>1, <1>9, <1>10
  <2>2. PICK u \in Nat : u = w * Radix
    BY <1>0
  <2>3. u = Multiplier[(count + 1) + 1]
    <3>1. Multiplier[count + 2] = Multiplier[count + 1] * Radix
      BY <2>1, Multipliers
    <3>2. (count + 1) + 1 = count + 2
      BY <2>1
    <3> QED BY <3>1, <3>2, <2>2, <1>1
  <2>4. n = v + u * q
    <3>1. w * rest = w * (Radix * q + d)
      BY <1>4
    <3>2. w * (Radix * q + d) = w * Radix * q + w * d
      BY <1>0
    <3>3. w * rest = u * q + d * w
      BY <3>1, <3>2, <2>2
    <3> QED BY <3>3, <1>1, <1>5
  <2>5. v \in 0..u - 1
    <3>1. d * w <= (Radix - 1) * w
      BY <1>0, <1>4, <1>2
    <3>2. (Radix - 1) * w = u - w
      BY <1>0, <2>2
    <3>3. d * w >= 0 /\ d * w \in Int
      BY <1>4
    <3> QED BY <3>1, <3>2, <3>3, <1>1, <1>5
  <2>6. Digits[n] = (count + 1) + Digits[q]
    BY <1>1, <1>6, <1>10
  <2> QED BY <2>1, <2>3, <2>4, <2>5, <2>6 DEF DigitsRead
<1> QED BY <1>0, <1>1, <1>6, <1>7, <1>8, <1>9, <1>10

LEMMA StreamInvInit == StreamInit => StreamInv
<1> SUFFICES ASSUME StreamInit PROVE StreamInv
  OBVIOUS
<1>1. PICK n \in 1..MaxPackets : incoming \in [1..n -> Lengths]
  BY DEF StreamInit
<1>2. n \in Nat
  BY StreamAssumption
<1>3. incoming \in Seq(Lengths)
  BY <1>1, <1>2
<1>4. Packets
  BY <1>3, LengthsAreNat DEF Packets
<1>5. PICK zero \in 0..Len(incoming) : zero = 0
  BY <1>4, StartFacts
<1>6. Start(zero + 1) = 0 /\ Total \in Nat
  <2>1. zero + 1 = 1 /\ Len(incoming) \in 0..Len(incoming)
    BY <1>5, <1>4, StartFacts
  <2>2. Start(1) = 0 /\ Start(Len(incoming) + 1) \in Nat /\ Total = Start(Len(incoming) + 1)
    BY <2>1, <1>4, StartFacts
  <2> QED BY <2>1, <2>2
<1>7. SubSeq(incoming, 1, zero) = <<>>
  BY <1>5, SubSeqEmpty
<1>8. handed = <<>> /\ rx.at = "idle" /\ pos = 0 /\ arrived = 0 /\ late = FALSE
  BY DEF StreamInit, NoRead, At
<1>9. InOrder(zero, handed, rx, pos)
  BY <1>6, <1>7, <1>8 DEF InOrder
<1>10. ReadInOrder(handed, rx, pos)
  BY <1>5, <1>9 DEF ReadInOrder
<1>11. arrived \in Nat /\ pos \in Int /\ arrived <= Total /\ pos <= arrived
  BY <1>6, <1>8
<1>12. late \in BOOLEAN
  BY <1>8
<1> QED BY <1>3, <1>10, <1>11, <1>12 DEF StreamInv

\* What the client reads does not depend on what has arrived.
LEMMA SamePackets ==
  ASSUME incoming' = incoming
  PROVE  /\ Total' = Total
         /\ ReadInOrder(handed, rx, pos)' <=> ReadInOrder(handed', rx', pos')
<1>1. \A k : Start(k)' = Start(k)
  BY DEF Start
<1> QED BY <1>1 DEF Total, ReadInOrder, InOrder

LEMMA ReadingGoesOn ==
  ASSUME StreamInv, incoming' = incoming, arrived' \in Nat, arrived' <= Total, pos' \in Int,
         late' \in BOOLEAN, ~late' => pos' <= arrived' /\ ReadInOrder(handed', rx', pos')
  PROVE  StreamInv'
BY SamePackets DEF StreamInv

\* Where a call of do_read that brought all of n bytes leaves the place.
LEMMA FirstByteKeeps == ASSUME StreamInv, ~late, ReadFirstByte PROVE StreamInv'
<1>1. PICK k \in 0..Len(incoming) : InOrder(k, handed, rx, pos)
  BY DEF StreamInv, ReadInOrder
<1>2. Packets /\ arrived \in Nat /\ pos \in Int /\ pos <= arrived /\ arrived <= Total
  BY LengthsAreNat DEF StreamInv, Packets
<1>3. pos = Start(k + 1) /\ Start(k + 1) \in Nat /\ Len(incoming) \in Nat
  BY <1>1, <1>2, StartFacts DEF InOrder, ReadFirstByte, NoRead, At
<1>4. incoming' = incoming /\ arrived' = arrived /\ handed' = handed /\ late' = late
  BY DEF ReadFirstByte
<1>5. CASE Got(1) /\ rx' = At("length", 0, 0)
  <2>1. pos' = pos + 1 /\ pos' <= arrived /\ pos' \in Int
    BY <1>5, <1>2 DEF Got
  <2>2. k < Len(incoming)
    <3> SUFFICES ASSUME k = Len(incoming) PROVE FALSE
      BY <1>3
    <3>1. Total = pos
      BY <1>2, <1>3, StartFacts
    <3> QED BY <3>1, <1>2, <1>5 DEF Got
  <2>3. k + 1 \in 1..Len(incoming)
    BY <2>2, <1>3
  <2>4. incoming[k + 1] \in Nat
    BY <2>3, <1>2, StartFacts
  <2>5. PICK n \in Nat : n = incoming[k + 1]
    BY <2>4
  <2>6. DigitsRead(0, 0, n)
    <3>1. Multiplier[0 + 1] = 1
      BY Multipliers
    <3>2. n = 0 + 1 * n /\ Digits[n] = 0 + Digits[n] /\ 0 \in 0..1 - 1 /\ 0 \in 0..3
      BY DigitsAre
    <3> QED BY <3>1, <3>2 DEF DigitsRead
  <2>7. rx'.at = "length" /\ rx'.count = 0 /\ rx'.value = 0
    BY <1>5 DEF At
  <2>8. pos' = Start(k + 1) + 1 + 0
    BY <2>1, <1>3
  <2>9. InOrder(k, handed', rx', pos')
    BY <2>2, <2>5, <2>6, <2>7, <2>8, <1>1, <1>4 DEF InOrder
  <2>10. ReadInOrder(handed', rx', pos')
    BY <2>9 DEF ReadInOrder
  <2> QED BY <2>1, <2>10, <1>2, <1>4, ReadingGoesOn DEF StreamInv
<1>6. CASE Short(1) /\ rx' = NoPacket
  <2>1. pos' = pos /\ pos' <= arrived /\ pos' \in Int
    BY <1>6, <1>2 DEF Short
  <2>2. rx'.at \in {"idle", "closed"}
    BY <1>6 DEF NoPacket, NoRead, At
  <2>3. InOrder(k, handed', rx', pos')
    BY <2>1, <2>2, <1>1, <1>3, <1>4 DEF InOrder
  <2>10. ReadInOrder(handed', rx', pos')
    BY <2>3 DEF ReadInOrder
  <2> QED BY <2>1, <2>10, <1>2, <1>4, ReadingGoesOn DEF StreamInv
<1> QED BY <1>5, <1>6 DEF ReadFirstByte

\* What is known while packet k + 1 is being read.
Inside(k) ==
  /\ InOrder(k, handed, rx, pos) /\ Packets /\ Len(incoming) \in Nat /\ k + 1 \in 1..Len(incoming)
  /\ incoming[k + 1] \in Lengths /\ incoming[k + 1] \in Nat
  /\ Start(k + 1) \in Nat /\ Start(k + 2) = Start(k + 1) + 1 + Digits[incoming[k + 1]] + incoming[k + 1]
  /\ Digits[incoming[k + 1]] \in Nat
  /\ arrived \in Nat /\ pos \in Int /\ pos <= arrived /\ arrived <= Total

LEMMA InsidePacket ==
  ASSUME StreamInv, ~late, rx.at \in {"length", "sized", "skip"}
  PROVE  \E k \in 0..Len(incoming) - 1 : Inside(k)
<1>1. PICK k \in 0..Len(incoming) : InOrder(k, handed, rx, pos)
  BY DEF StreamInv, ReadInOrder
<1>2. Packets /\ arrived \in Nat /\ pos \in Int /\ pos <= arrived /\ arrived <= Total /\ incoming \in Seq(Lengths)
  BY LengthsAreNat DEF StreamInv, Packets
<1>3. Len(incoming) \in Nat /\ k < Len(incoming)
  BY <1>1, <1>2, StartFacts DEF InOrder
<1>4. k \in 0..Len(incoming) - 1 /\ k + 1 \in 1..Len(incoming) /\ (k + 1) + 1 = k + 2
  BY <1>3
<1>5. incoming[k + 1] \in Lengths
  BY <1>2, <1>4, ElementOfSeq
<1>6. Start((k + 1) + 1) = Start(k + 1) + PacketSize(incoming[k + 1]) /\ Start(k + 1) \in Nat /\ incoming[k + 1] \in Nat
  BY <1>2, <1>4, StartFacts
<1>7. PacketSize(incoming[k + 1]) = 1 + Digits[incoming[k + 1]] + incoming[k + 1] /\ Digits[incoming[k + 1]] \in Nat
  BY <1>6, SizeType, DigitsAre
<1>8. Start(k + 2) = Start(k + 1) + 1 + Digits[incoming[k + 1]] + incoming[k + 1]
  <2>1. PICK n, d, s \in Nat : n = incoming[k + 1] /\ d = Digits[incoming[k + 1]] /\ s = Start(k + 1)
    BY <1>6, <1>7
  <2>2. Start(k + 2) = s + (1 + d + n)
    BY <1>4, <1>6, <1>7, <2>1
  <2>3. \A x, y, z \in Nat : x + (1 + y + z) = x + 1 + y + z
    OBVIOUS
  <2>4. Start(k + 2) = s + 1 + d + n
    BY ONLY <2>1, <2>2, <2>3, Zenon
  <2> QED BY ONLY <2>1, <2>4
<1> QED BY <1>1, <1>2, <1>3, <1>4, <1>5, <1>6, <1>7, <1>8 DEF Inside

LEMMA LateKeeps ==
  ASSUME StreamInv, incoming' = incoming, arrived' = arrived, late' = TRUE, pos' \in Int
  PROVE  StreamInv'
BY ReadingGoesOn DEF StreamInv

LEMMA LengthKeeps == ASSUME StreamInv, ~late, ReadLength PROVE StreamInv'
<1>0. rx.at = "length"
  BY DEF ReadLength
<1>1. PICK k \in 0..Len(incoming) - 1 :
           /\ InOrder(k, handed, rx, pos) /\ Packets /\ Len(incoming) \in Nat /\ k + 1 \in 1..Len(incoming)
           /\ incoming[k + 1] \in Lengths /\ incoming[k + 1] \in Nat
           /\ Start(k + 1) \in Nat /\ Start(k + 2) = Start(k + 1) + 1 + Digits[incoming[k + 1]] + incoming[k + 1]
           /\ Digits[incoming[k + 1]] \in Nat
           /\ arrived \in Nat /\ pos \in Int /\ pos <= arrived /\ arrived <= Total
  BY <1>0, InsidePacket DEF Inside
<1>2. PICK n \in Lengths : n = incoming[k + 1]
  BY <1>1
<1>a. PICK s, d \in Nat : s = Start(k + 1) /\ d = Digits[n]
  BY <1>1, <1>2
<1>3. pos = s + 1 + rx.count /\ DigitsRead(rx.count, rx.value, n) /\ handed = SubSeq(incoming, 1, k)
  BY <1>0, <1>1, <1>2, <1>a DEF InOrder
<1>4. PICK v : v = rx.value + ((n \div Multiplier[rx.count + 1]) % Radix) * Multiplier[rx.count + 1]
  OBVIOUS
<1>5. /\ rx.count + 1 = d => v = n
      /\ rx.count + 1 # d => rx.count < 3 /\ DigitsRead(rx.count + 1, v, n)
      /\ rx.count \in 0..3 /\ rx.count < d /\ n \in Nat
  BY <1>a, <1>3, <1>4, DigitTaken, SMTT(20)
<1>6. PacketAt(pos) = k + 1
  <2>a. PICK c \in 0..3 : c = rx.count
    BY <1>5
  <2>b. pos = s + 1 + c /\ c < d /\ n \in Nat
    BY <2>a, <1>3, <1>5
  <2>c. \A i, x, y, z \in Nat : i < y => s + 1 + i \in Nat /\ s <= s + 1 + i /\ s + 1 + i < s + 1 + y + z
    BY <1>a
  <2>d. c \in Nat
    BY <2>a
  <2>1. pos \in Nat /\ s <= pos /\ pos < s + 1 + d + n
    BY <2>b, <2>c, <2>d, <1>a
  <2>2. Start((k + 1) + 1) = s + 1 + d + n
    BY <1>1, <1>2, <1>a
  <2> QED BY <2>1, <2>2, <1>1, <1>a, InPacket
<1>7. incoming' = incoming /\ arrived' = arrived /\ handed' = handed
  BY DEF ReadLength
<1>8. rx.value + Digit(k + 1, rx.count) * Multiplier[rx.count + 1] = v
  BY <1>2, <1>4 DEF Digit
<1>9. CASE Got(1) /\ late' = late
           /\ rx' = IF rx.count + 1 = d \/ rx.count = 3 THEN At("sized", 0, v) ELSE At("length", rx.count + 1, v)
  <2>1. pos' = pos + 1 /\ pos' <= arrived /\ pos' \in Int
    BY <1>9, <1>1 DEF Got
  <2>2. ASSUME rx.count + 1 = d PROVE ReadInOrder(handed', rx', pos')
    <3>1. rx' = At("sized", 0, v) /\ v = n
      BY <2>2, <1>5, <1>9
    <3>2. rx'.at = "sized" /\ rx'.value = n
      BY <3>1 DEF At
    <3>3. pos' = s + 1 + d
      <4>1. PICK c \in 0..3 : c = rx.count
        BY <1>5
      <4>2. pos' = pos + 1 /\ pos = s + 1 + c /\ c + 1 = d
        BY <4>1, <2>1, <2>2, <1>3
      <4> QED BY <4>1, <4>2, <1>a
    <3>4. InOrder(k, handed', rx', pos')
      BY <3>2, <3>3, <1>a, <1>1, <1>2, <1>3, <1>7 DEF InOrder
    <3> QED BY <3>4, <1>1 DEF ReadInOrder
  <2>3. ASSUME rx.count + 1 # d PROVE ReadInOrder(handed', rx', pos')
    <3>1. rx' = At("length", rx.count + 1, v) /\ DigitsRead(rx.count + 1, v, n)
      BY <2>3, <1>5, <1>9
    <3>2. rx'.at = "length" /\ rx'.value = v /\ rx'.count = rx.count + 1
      BY <3>1 DEF At
    <3>3. pos' = s + 1 + (rx.count + 1)
      <4>1. PICK c \in 0..3 : c = rx.count
        BY <1>5
      <4>2. pos' = pos + 1 /\ pos = s + 1 + c
        BY <4>1, <2>1, <1>3
      <4> QED BY <4>1, <4>2, <1>a
    <3>4. InOrder(k, handed', rx', pos')
      <4>1. handed' = SubSeq(incoming, 1, k) /\ k < Len(incoming)
        BY <1>1, <1>3, <1>7
      <4>2. pos' = Start(k + 1) + 1 + rx'.count /\ DigitsRead(rx'.count, rx'.value, incoming[k + 1])
        BY <3>1, <3>2, <3>3, <1>a, <1>2
      <4> QED BY <4>1, <4>2, <3>2 DEF InOrder
    <3> QED BY <3>4, <1>1 DEF ReadInOrder
  <2>4. ReadInOrder(handed', rx', pos')
    BY <2>2, <2>3
  <2> QED BY <2>1, <2>4, <1>1, <1>7, <1>9, ReadingGoesOn DEF StreamInv
<1>10. CASE Short(1) /\ late' = TRUE
  <2>1. pos' \in Int
    BY <1>1, <1>10 DEF Short
  <2> QED BY <2>1, <1>7, <1>10, LateKeeps
<1> QED BY <1>2, <1>a, <1>6, <1>8, <1>9, <1>10 DEF ReadLength

\* A packet is returned at its end.
LEMMA Returned ==
  ASSUME NEW k \in 0..Len(incoming) - 1, Inside(k), Return(incoming[k + 1]), pos' = Start(k + 2)
  PROVE  ReadInOrder(handed', rx', pos')
<1>1. k + 1 \in 0..Len(incoming) /\ (k + 1) + 1 = k + 2
  BY DEF Inside
<1>2. handed = SubSeq(incoming, 1, k)
  BY DEF Inside, InOrder
<1>3. Append(SubSeq(incoming, 1, k), incoming[k + 1]) = SubSeq(incoming, 1, k + 1)
  BY InitialNext DEF Inside, Packets
<1>4. handed' = SubSeq(incoming, 1, k + 1) /\ rx'.at = "idle"
  BY <1>2, <1>3 DEF Return, NoRead, At
<1>5. InOrder(k + 1, handed', rx', pos')
  BY <1>1, <1>4 DEF InOrder
<1> QED BY <1>1, <1>5 DEF ReadInOrder

LEMMA BodyKeeps == ASSUME StreamInv, ~late, ReadBody PROVE StreamInv'
<1>0. rx.at = "sized"
  BY DEF ReadBody
<1>1. PICK k \in 0..Len(incoming) - 1 : Inside(k)
  BY <1>0, InsidePacket
<1>2. PICK n, s, d \in Nat : n = incoming[k + 1] /\ s = Start(k + 1) /\ d = Digits[n] 
  BY <1>1 DEF Inside
<1>3. rx.value = n /\ pos = s + 1 + d /\ Start(k + 2) = s + 1 + d + n
  BY <1>0, <1>1, <1>2 DEF Inside, InOrder
<1>4. incoming' = incoming /\ arrived' = arrived /\ arrived \in Nat
  BY <1>1 DEF ReadBody, Inside
<1>5. CASE Got(n) /\ Return(n) /\ late' = late
  <2>1. pos' = pos + n /\ pos' <= arrived
    BY <1>5, <1>2, <1>3, <1>4 DEF Got
  <2>2. pos' = s + 1 + d + n /\ pos' \in Int
    BY <2>1, <1>2, <1>3
  <2>3. ReadInOrder(handed', rx', pos')
    BY <2>2, <1>1, <1>2, <1>3, <1>5, Returned
  <2> QED BY <2>1, <2>2, <2>3, <1>4, <1>5, ReadingGoesOn DEF StreamInv
<1>6. CASE Short(n) /\ late' = TRUE
  BY <1>4, <1>6, LateKeeps DEF Short
<1> QED BY <1>3, <1>5, <1>6 DEF ReadBody

LEMMA BufferKeeps == ASSUME StreamInv, ~late, FillBuffer PROVE StreamInv'
<1>0. rx.at = "sized" /\ Oversized(rx.value)
  BY DEF FillBuffer
<1>1. PICK k \in 0..Len(incoming) - 1 : Inside(k)
  BY <1>0, InsidePacket
<1>2. PICK n, s, d \in Nat : n = incoming[k + 1] /\ s = Start(k + 1) /\ d = Digits[n] 
  BY <1>1 DEF Inside
<1>3. rx.value = n /\ pos = s + 1 + d /\ Start(k + 2) = s + 1 + d + n
  BY <1>0, <1>1, <1>2 DEF Inside, InOrder
<1>4. incoming' = incoming /\ arrived' = arrived /\ handed' = handed /\ arrived \in Nat
  BY <1>1 DEF FillBuffer, Inside
<1>5. PICK room \in Int : room = Room(n) /\ room < n
  BY <1>0, <1>2, <1>3, StreamAssumption, SMTT(20) DEF Room, Oversized
<1>6. CASE Got(room) /\ rx' = At("skip", n - room, n) /\ late' = late
  <2>1. pos' = pos + room /\ pos' <= arrived
    BY <1>6, <1>2, <1>3, <1>4 DEF Got
  <2>a. PICK q \in Int : q = s + 1 + d /\ pos = q
    BY <1>2, <1>3, SMTT(20)
  <2>x. \A x, y, z \in Int : x + y \in Int /\ (x + y) + (z - y) = x + z /\ (y < z => z - y \in Nat)
    OBVIOUS
  <2>y. pos' = q + room /\ q \in Int /\ n \in Int /\ room \in Int /\ room < n
    BY <2>1, <2>a, <1>2, <1>5
  <2>b. n - room \in Nat /\ pos' \in Int /\ pos' + (n - room) = q + n
    BY ONLY <2>x, <2>y
  <2>2. n - room \in Nat /\ pos' \in Int /\ pos' + (n - room) = s + 1 + d + n
    BY <2>a, <2>b
  <2>3. rx'.at = "skip" /\ rx'.count = n - room /\ rx'.value = n /\ Skips(rx')
    BY <1>6 DEF At, Skips
  <2>4. InOrder(k, handed', rx', pos')
    BY <2>2, <2>3, <1>1, <1>2, <1>3, <1>4 DEF InOrder, Inside
  <2>5. ReadInOrder(handed', rx', pos')
    BY <2>4, <1>1 DEF ReadInOrder, Inside
  <2> QED BY <2>1, <2>2, <2>5, <1>4, <1>6, ReadingGoesOn DEF StreamInv
<1>7. CASE Short(room) /\ late' = TRUE
  BY <1>4, <1>7, LateKeeps DEF Short
<1> QED BY <1>3, <1>5, <1>6, <1>7 DEF FillBuffer

LEMMA SkipKeeps == ASSUME StreamInv, ~late, SkipRest PROVE StreamInv'
<1>0. rx.at = "skip"
  BY DEF SkipRest
<1>1. PICK k \in 0..Len(incoming) - 1 : Inside(k)
  BY <1>0, InsidePacket
<1>2. PICK n, end \in Int : n = incoming[k + 1] /\ end = Start(k + 2)
  BY <1>1 DEF Inside
<1>3. PICK c \in Nat : rx.count = c /\ rx.value = n /\ pos + c = end /\ pos \in Int /\ rx = At("skip", c, n)
  BY <1>0, <1>1, <1>2 DEF Inside, InOrder, Skips
<1>4. incoming' = incoming /\ arrived' = arrived /\ arrived \in Nat
  BY <1>1 DEF SkipRest, Inside
<1>5. PICK piece \in Nat : piece = Piece(c) /\ piece <= c
  BY StreamAssumption DEF Piece
<1>6. ASSUME Got(piece) PROVE pos' = pos + piece /\ pos' \in Int /\ pos' <= arrived
  BY <1>6, <1>3, <1>4 DEF Got
<1>7. CASE Got(piece) /\ c - (pos' - pos) <= 0 /\ Return(n) /\ late' = late
  <2>1. pos' = end /\ pos' \in Int /\ pos' <= arrived
    <3>1. pos' = pos + piece
      BY <1>6, <1>7
    <3>2. piece = c
      BY <3>1, <1>3, <1>5, <1>7
    <3> QED BY <3>1, <3>2, <1>3, <1>6, <1>7
  <2>2. ReadInOrder(handed', rx', pos')
    BY <2>1, <1>1, <1>2, <1>7, Returned
  <2> QED BY <2>1, <2>2, <1>4, <1>7, ReadingGoesOn DEF StreamInv
<1>8. CASE Got(piece) /\ c - (pos' - pos) > 0 /\ rx' = [rx EXCEPT !.count = c - (pos' - pos)]
           /\ late' = late /\ handed' = handed
  <2>1. pos' = pos + piece /\ pos' \in Int /\ pos' <= arrived
    BY <1>6, <1>8
  <2>2. PICK left \in Nat : left = c - (pos' - pos) /\ pos' + left = end
    BY <2>1, <1>3, <1>8
  <2>c. rx' = At("skip", left, n)
    BY <2>2, <1>3, <1>8 DEF At
  <2>3. rx'.at = "skip" /\ rx'.count = left /\ rx'.value = n /\ Skips(rx')
    BY <2>c DEF At, Skips
  <2>4. InOrder(k, handed', rx', pos')
    BY <2>1, <2>2, <2>3, <1>1, <1>2, <1>8 DEF InOrder, Inside
  <2>5. ReadInOrder(handed', rx', pos')
    BY <2>4, <1>1 DEF ReadInOrder, Inside
  <2> QED BY <2>1, <2>5, <1>4, <1>8, ReadingGoesOn DEF StreamInv
<1>9. CASE late' = TRUE /\ (Got(piece) \/ Short(piece))
  <2>1. pos' \in Int
    BY <1>4, <1>6, <1>9 DEF Short
  <2> QED BY <2>1, <1>4, <1>9, LateKeeps
<1> QED BY <1>3, <1>5, <1>7, <1>8, <1>9 DEF SkipRest

LEMMA StreamInvNext == StreamInv /\ [StreamNext]_streamVars => StreamInv'
<1> SUFFICES ASSUME StreamInv, [StreamNext]_streamVars PROVE StreamInv'
  OBVIOUS
<1>1. ASSUME BytesArrive PROVE StreamInv'
  <2>1. incoming' = incoming /\ pos' = pos /\ late' = late /\ rx' = rx /\ handed' = handed
    BY <1>1 DEF BytesArrive
  <2>2. Packets
    BY LengthsAreNat DEF StreamInv, Packets
  <2>3. Total \in Nat
    <3>1. Len(incoming) \in 0..Len(incoming) /\ Total = Start(Len(incoming) + 1)
      BY <2>2, StartFacts
    <3> QED BY <3>1, <2>2, StartFacts
  <2>4. arrived \in Nat /\ pos \in Int
    BY DEF StreamInv
  <2>5. arrived' \in Nat /\ arrived' <= Total /\ arrived' > arrived
    BY <1>1, <2>3, <2>4 DEF BytesArrive
  <2>6. ~late' => pos' <= arrived' /\ ReadInOrder(handed', rx', pos')
    BY <2>1, <2>4, <2>5 DEF StreamInv
  <2> QED BY <2>1, <2>5, <2>6, ReadingGoesOn DEF StreamInv
<1>2. ASSUME incoming' = incoming, pos' = pos, late' = late, rx' = rx, handed' = handed, arrived' = arrived
      PROVE  StreamInv'
  BY <1>2, ReadingGoesOn DEF StreamInv
<1>3. CASE PeerCloses
  BY <1>2, <1>3 DEF PeerCloses
<1>4. CASE UNCHANGED streamVars
  BY <1>2, <1>4 DEF streamVars
<1>5. CASE ~late /\ (ReadFirstByte \/ ReadLength \/ ReadBody \/ FillBuffer \/ SkipRest)
  BY <1>5, FirstByteKeeps, LengthKeeps, BodyKeeps, BufferKeeps, SkipKeeps
<1> QED BY <1>1, <1>3, <1>4, <1>5 DEF StreamNext

LEMMA InOrderIsPrefix == StreamInv => PacketsInOrder
<1> SUFFICES ASSUME StreamInv, ~late
             PROVE  IsPrefix(handed, incoming) /\ (rx.at \in {"idle", "closed"} => pos = StreamSize(handed))
  BY DEF PacketsInOrder
<1>1. PICK k \in 0..Len(incoming) : InOrder(k, handed, rx, pos)
  BY DEF StreamInv, ReadInOrder
<1>2. Packets
  BY LengthsAreNat DEF StreamInv, Packets
<1>3. handed = SubSeq(incoming, 1, k) /\ incoming \in Seq(Nat) /\ Len(incoming) \in Nat
  BY <1>1, <1>2, StartFacts DEF InOrder, Packets
<1>4. handed \in Seq(Nat) /\ Len(handed) = k
  BY <1>3, Initial
<1>5. SubSeq(handed, 1, Len(handed)) = handed
  BY <1>4, SubSeqFull
<1>6. IsPrefix(handed, incoming)
  BY <1>3, <1>4, <1>5 DEF IsPrefix
<1>7. Start(k + 1) = StreamSize(handed)
  BY <1>2, <1>3, StartFacts
<1> QED BY <1>1, <1>6, <1>7 DEF InOrder

StreamSpec == StreamInit /\ [][StreamNext]_streamVars

\* readPacket returns the peer's packets, each once and in order, and stands between two of
\* them when it returns, as long as no time-out falls inside one: for packets and buffers of
\* every size, and bytes that arrive in any pieces.
THEOREM PacketsAreInOrder == StreamSpec => []PacketsInOrder
<1>1. StreamSpec => []StreamInv
  BY StreamInvInit, StreamInvNext, PTL DEF StreamSpec
<1> QED BY <1>1, InOrderIsPrefix, PTL

-----------------------------------------------------------------------------
(* Datagrams.  What waits is the rest of a datagram, and one that the buffer *)
(* has room for is whole.                                                    *)

PlacedByte == Nat \X Nat
ByteOf(d, k) == <<d, k>>

\* size bytes of datagram d from behind the first from bytes.
Slice(d, from, size) == [k \in 1..size |-> <<d, from + k>>]

SliceOf(d, from, size) ==
  /\ d \in 1..Len(sizes) /\ from \in Nat /\ size \in Nat /\ from + size <= sizes[d]
  /\ sizes[d] < ReadRoom - 1 => from = 0 /\ size = sizes[d]

WaitsOk(bytes) == \E d, from, size \in Nat : SliceOf(d, from, size) /\ bytes = Slice(d, from, size)
MessageOk(m) ==
  \E d, from, size \in Nat :
    /\ SliceOf(d, from, size) /\ size > 0
    /\ m.bytes = Slice(d, from, size)
    /\ sizes[d] < ReadRoom - 1 => m.string = m.bytes

DatagramInv ==
  /\ carrier \in {"udp", "linux udp", "dtls", "linux dtls"}
  /\ sizes \in Seq(Nat)
  /\ waiting \in Seq(Seq(PlacedByte))
  /\ \A w \in 1..Len(waiting) : WaitsOk(waiting[w])
  /\ message # NoMessage => MessageOk(message)
  /\ message = [bytes |-> message.bytes, string |-> message.string]

LEMMA WaitingTypes ==
  ASSUME DatagramInv
  PROVE  /\ sizes \in Seq(Nat) /\ Len(sizes) \in Nat
         /\ waiting \in Seq(Seq(PlacedByte)) /\ Len(waiting) \in Nat
         /\ ReadRoom \in Nat \ {0, 1} /\ Sizes \subseteq Nat
<1>1. sizes \in Seq(Nat) /\ waiting \in Seq(Seq(PlacedByte))
  BY DEF DatagramInv
<1> QED BY <1>1, DatagramsAssumption

LEMMA WaitsFacts == ASSUME DatagramInv PROVE \A w \in 1..Len(waiting) : WaitsOk(waiting[w])
BY DEF DatagramInv

LEMMA SliceFacts ==
  ASSUME NEW d \in Nat, NEW from \in Nat, NEW size \in Nat
  PROVE  /\ Slice(d, from, size) \in Seq(PlacedByte) /\ Len(Slice(d, from, size)) = size
         /\ \A k \in 1..size : Slice(d, from, size)[k] = ByteOf(d, from + k)
<1>1. \A k \in 1..size : from + k \in Nat
  OBVIOUS
<1>2. Slice(d, from, size) \in [1..size -> PlacedByte]
  BY <1>1 DEF Slice, PlacedByte
<1>3. \A k \in 1..size : Slice(d, from, size)[k] = ByteOf(d, from + k)
  BY DEF Slice, ByteOf
<1>4. Slice(d, from, size) = [k \in 1..size |-> Slice(d, from, size)[k]]
  BY DEF Slice
<1> QED BY <1>2, <1>3, <1>4

LEMMA SubSeqIs ==
  ASSUME NEW S, NEW s \in Seq(S), NEW t \in Seq(S), NEW i \in Nat \ {0}, NEW j \in Nat,
         j <= Len(s), i + Len(t) = j + 1, \A k \in 1..Len(t) : t[k] = s[i + k - 1]
  PROVE  SubSeq(s, i, j) = t
<1>1. Len(s) \in Nat /\ Len(t) \in Nat
  OBVIOUS
<1>2. \A k \in i..j : s[k] \in S
  BY <1>1
<1> PICK u : u = SubSeq(s, i, j)
  OBVIOUS
<1>3. /\ u \in Seq(S) /\ Len(u) = IF i <= j THEN j - i + 1 ELSE 0
      /\ \A k \in 1 .. j - i + 1 : u[k] = s[i + k - 1]
  BY <1>2, SubSeqProperties
<1>4. Len(u) = Len(t) /\ Len(t) = j - i + 1
  BY <1>1, <1>3
<1>5. \A k \in 1..Len(u) : u[k] = t[k]
  BY <1>3, <1>4
<1> QED BY <1>3, <1>4, <1>5, SeqEqual

\* Parts of slices: the first bytes, and what is behind them.
LEMMA SliceFirst ==
  ASSUME NEW d \in Nat, NEW from \in Nat, NEW size \in Nat, NEW got \in Nat, got <= size
  PROVE  SubSeq(Slice(d, from, size), 1, got) = Slice(d, from, got)
<1>1. /\ Slice(d, from, size) \in Seq(PlacedByte) /\ Len(Slice(d, from, size)) = size
      /\ \A k \in 1..size : Slice(d, from, size)[k] = ByteOf(d, from + k)
  BY SliceFacts
<1>2. /\ Slice(d, from, got) \in Seq(PlacedByte) /\ Len(Slice(d, from, got)) = got
      /\ \A k \in 1..got : Slice(d, from, got)[k] = ByteOf(d, from + k)
  BY SliceFacts
<1> PICK s, t \in Seq(PlacedByte) : s = Slice(d, from, size) /\ t = Slice(d, from, got)
  BY <1>1, <1>2
<1>3. \A k \in 1..Len(t) : k \in 1..size /\ 1 + k - 1 = k /\ t[k] = s[k]
  BY <1>1, <1>2
<1>4. /\ 1 \in Nat \ {0} /\ got <= Len(s) /\ 1 + Len(t) = got + 1
      /\ \A k \in 1..Len(t) : t[k] = s[1 + k - 1]
  BY <1>1, <1>2, <1>3
<1>5. SubSeq(s, 1, got) = t
  BY <1>4, SubSeqIs
<1> QED BY <1>5

SlicedBehind(d, from, size, got, n) ==
  SubSeq(Slice(d, from, size), got + 1, got + n) = Slice(d, from + got, n)
LEMMA SliceBehind ==
  ASSUME NEW d \in Nat, NEW from \in Nat, NEW size \in Nat, NEW got \in Nat, NEW n \in Nat,
         got + n <= size
  PROVE  SlicedBehind(d, from, size, got, n)
<1> PICK start \in Nat : start = from + got
  OBVIOUS
<1>1. /\ Slice(d, from, size) \in Seq(PlacedByte) /\ Len(Slice(d, from, size)) = size
      /\ \A k \in 1..size : Slice(d, from, size)[k] = ByteOf(d, from + k)
  BY SliceFacts
<1>2. ASSUME NEW f \in Nat, NEW m \in Nat
      PROVE  /\ Slice(d, f, m) \in Seq(PlacedByte) /\ Len(Slice(d, f, m)) = m
             /\ \A k \in 1..m : Slice(d, f, m)[k] = ByteOf(d, f + k)
  BY SliceFacts
<1> PICK s, t \in Seq(PlacedByte) : s = Slice(d, from, size) /\ t = Slice(d, start, n)
  BY <1>1, <1>2
<1>3. Len(t) = n /\ \A k \in 1..n : t[k] = ByteOf(d, start + k)
  BY <1>2
<1>4. ASSUME NEW k \in 1..n PROVE t[k] = s[got + 1 + k - 1]
  <2>1. got + 1 + k - 1 \in 1..size /\ from + (got + 1 + k - 1) = start + k
    OBVIOUS
  <2>2. s[got + 1 + k - 1] = ByteOf(d, from + (got + 1 + k - 1))
    BY <1>1, <2>1
  <2> QED BY <1>3, <2>1, <2>2
<1>5. PICK i \in Nat \ {0}, j \in Nat : i = got + 1 /\ j = got + n
  OBVIOUS
<1>6. j <= Len(s) /\ i + Len(t) = j + 1 /\ \A k \in 1..Len(t) : t[k] = s[i + k - 1]
  <2>1. Len(s) = size /\ Len(t) = n /\ i + n = j + 1 /\ j <= size
    BY <1>1, <1>3, <1>5
  <2>2. \A k \in 1..n : t[k] = s[i + k - 1]
    BY <1>4, <1>5, Zenon
  <2> QED BY <2>1, <2>2
<1>7. SubSeq(s, i, j) = t
  BY <1>6, SubSeqIs
<1> QED BY <1>5, <1>7 DEF SlicedBehind

LEMMA WholeIsSlice ==
  ASSUME NEW d \in 1..Len(sizes), sizes \in Seq(Nat)
  PROVE  Whole(d) = Slice(d, 0, sizes[d])
<1>1. sizes[d] \in Nat /\ \A k \in 1..sizes[d] : 0 + k = k
  OBVIOUS
<1> QED BY <1>1 DEF Whole, Slice

LEMMA DatagramInvInit == DatagramInit => DatagramInv
<1> SUFFICES ASSUME DatagramInit PROVE DatagramInv
  OBVIOUS
<1>1. sizes = <<>> /\ waiting = <<>> /\ message = NoMessage
  BY DEF DatagramInit
<1>2. sizes \in Seq(Nat) /\ waiting \in Seq(Seq(PlacedByte)) /\ Len(waiting) = 0
  BY <1>1
<1>3. message = [bytes |-> message.bytes, string |-> message.string]
  BY <1>1 DEF NoMessage
<1>4. \A w \in 1..Len(waiting) : WaitsOk(waiting[w])
  BY <1>2
<1>5. carrier \in {"udp", "linux udp", "dtls", "linux dtls"}
  BY DEF DatagramInit
<1> QED BY <1>1, <1>2, <1>3, <1>4, <1>5, Zenon DEF DatagramInv

\* What is right stays so when datagrams only come.
LEMMA SlicesLater ==
  ASSUME DatagramInv, sizes' \in Seq(Nat), Len(sizes) <= Len(sizes'),
         \A d \in 1..Len(sizes) : sizes'[d] = sizes[d]
  PROVE  /\ \A bytes : WaitsOk(bytes) => WaitsOk(bytes)'
         /\ \A m : MessageOk(m) => MessageOk(m)'
<1>1. Len(sizes) \in Nat /\ Len(sizes') \in Nat
  BY WaitingTypes
<1>2. \A d, from, size \in Nat : SliceOf(d, from, size) => SliceOf(d, from, size)' /\ sizes'[d] = sizes[d]
  BY <1>1 DEF SliceOf
<1>3. \A bytes : WaitsOk(bytes) => WaitsOk(bytes)'
  BY <1>2 DEF WaitsOk
<1>4. \A m : MessageOk(m) => MessageOk(m)'
  BY <1>2 DEF MessageOk
<1> QED BY <1>3, <1>4

LEMMA ArrivesKeeps == ASSUME DatagramInv, NEW n \in Sizes, DatagramArrives(n) PROVE DatagramInv'
<1>1. /\ sizes' = Append(sizes, n) /\ UNCHANGED <<carrier, message>>
      /\ waiting' = Append(waiting, [k \in 1..n |-> <<Len(sizes) + 1, k>>])
  BY DEF DatagramArrives
<1>2. sizes \in Seq(Nat) /\ waiting \in Seq(Seq(PlacedByte)) /\ n \in Nat
  BY DatagramsAssumption DEF DatagramInv
<1>3. PICK d \in Nat \ {0} : d = Len(sizes) + 1
  BY <1>2
<1>4. /\ sizes' \in Seq(Nat) /\ Len(sizes') = d /\ sizes'[d] = n
      /\ \A e \in 1..Len(sizes) : sizes'[e] = sizes[e]
  BY <1>1, <1>2, <1>3
<1>5. PICK bytes \in Seq(PlacedByte) : bytes = Slice(d, 0, n)
  BY <1>2, SliceFacts
<1>6. bytes = [k \in 1..n |-> <<Len(sizes) + 1, k>>]
  <2>1. \A k \in 1..n : 0 + k = k
    BY <1>2
  <2> QED BY <1>3, <1>5, <2>1 DEF Slice
<1>7. /\ waiting' \in Seq(Seq(PlacedByte)) /\ Len(waiting') = Len(waiting) + 1
      /\ waiting'[Len(waiting) + 1] = bytes
      /\ \A w \in 1..Len(waiting) : waiting'[w] = waiting[w]
  BY <1>1, <1>2, <1>6
<1>8. WaitsOk(bytes)'
  <2>1. SliceOf(d, 0, n)'
    BY <1>2, <1>3, <1>4 DEF SliceOf
  <2> QED BY <1>2, <1>3, <1>5, <2>1 DEF WaitsOk
<1>9. Len(sizes) <= Len(sizes') /\ Len(waiting) \in Nat
  BY <1>2, <1>3, <1>4
<1>10. /\ \A b : WaitsOk(b) => WaitsOk(b)'
       /\ \A m : MessageOk(m) => MessageOk(m)'
  BY <1>4, <1>9, SlicesLater
<1>11. (\A w \in 1..Len(waiting) : WaitsOk(waiting[w]))'
  <2> SUFFICES ASSUME NEW w \in 1..Len(waiting') PROVE WaitsOk(waiting[w])'
    OBVIOUS
  <2>1. CASE w = Len(waiting) + 1
    BY <1>7, <1>8, <2>1
  <2>2. CASE w # Len(waiting) + 1
    <3>1. w \in 1..Len(waiting)
      BY <1>7, <1>9, <2>2
    <3>2. WaitsOk(waiting[w])
      BY <3>1 DEF DatagramInv
    <3> QED BY <1>7, <1>10, <3>1, <3>2
  <2> QED BY <2>1, <2>2
<1>12. message' # NoMessage => MessageOk(message)'
  <2>1. message # NoMessage => MessageOk(message)
    BY DEF DatagramInv
  <2> PICK m : m = message
    OBVIOUS
  <2>2. MessageOk(m) => MessageOk(m)'
    BY <1>10
  <2> QED BY <1>1, <2>1, <2>2
<1> QED BY <1>1, <1>4, <1>7, <1>11, <1>12 DEF DatagramInv

\* What a read brings, and what it leaves.
LEMMA ReadFacts ==
  ASSUME DatagramInv, waiting # <<>>
  PROVE  \E d, from, size, got \in Nat :
           /\ SliceOf(d, from, size) /\ got <= size /\ got <= ReadRoom
           /\ Read.bytes = Slice(d, from, got)
           /\ size <= ReadRoom => got = size
           /\ Read.rest \in Seq(Seq(PlacedByte))
           /\ \A w \in 1..Len(Read.rest) : WaitsOk(Read.rest[w])
<1>1. waiting \in Seq(Seq(PlacedByte)) /\ Len(waiting) \in Nat \ {0} /\ ReadRoom \in Nat \ {0, 1}
  BY WaitingTypes
<1>2. PICK d, from, size \in Nat : SliceOf(d, from, size) /\ waiting[1] = Slice(d, from, size)
  BY <1>1, WaitsFacts DEF WaitsOk
<1>3. PICK first : first = Slice(d, from, size) /\ Head(waiting) = first
  BY <1>1, <1>2
<1>4. Len(first) = size
  BY <1>3, SliceFacts
<1>5. PICK got \in Nat : got = IF size < ReadRoom THEN size ELSE ReadRoom
  BY <1>1
<1>6. got <= size /\ got <= ReadRoom /\ (size <= ReadRoom => got = size)
  BY <1>1, <1>5
<1>7. FirstBytes(first) = Slice(d, from, got)
  <2>1. FirstBytes(first) = SubSeq(first, 1, got)
    BY <1>4, <1>5 DEF FirstBytes
  <2>2. d \in Nat /\ from \in Nat /\ size \in Nat /\ got \in Nat /\ got <= size
    BY <1>2, <1>5, <1>6
  <2>3. SubSeq(Slice(d, from, size), 1, got) = Slice(d, from, got)
    BY <2>2, SliceFirst, Zenon
  <2> QED BY <1>3, <2>1, <2>3
<1>8. PICK others : others = Tail(waiting)
  OBVIOUS
<1>9. /\ others \in Seq(Seq(PlacedByte)) /\ Len(others) \in Nat
      /\ \A w \in 1..Len(others) : WaitsOk(others[w])
  <2>1. /\ others \in Seq(Seq(PlacedByte)) /\ Len(others) = Len(waiting) - 1
        /\ \A w \in 1..Len(others) : others[w] = waiting[w + 1]
    BY <1>1, <1>8, HeadTailProperties
  <2>2. \A w \in 1..Len(others) : w + 1 \in 1..Len(waiting)
    BY <1>1, <2>1
  <2>3. Len(others) \in Nat
    BY <2>1
  <2>4. \A w \in 1..Len(others) : WaitsOk(others[w])
    BY <2>1, <2>2, WaitsFacts
  <2> QED BY <2>1, <2>3, <2>4
<1>10. PICK left : left = SubSeq(first, ReadRoom + 1, Len(first))
  OBVIOUS
<1>11. left # <<>> => left \in Seq(PlacedByte) /\ WaitsOk(left)
  <2>1. CASE size <= ReadRoom
    <3>1. left = <<>>
      BY <1>1, <1>4, <1>10, <2>1, SubSeqEmpty
    <3> QED BY <3>1
  <2>2. CASE size > ReadRoom
    <3>1. PICK start, n \in Nat : start = from + ReadRoom /\ size = ReadRoom + n
      <4>1. from + ReadRoom \in Nat /\ size - ReadRoom \in Nat /\ size = ReadRoom + (size - ReadRoom)
        BY <1>1, <1>2, <2>2
      <4> QED BY <4>1
    <3>2. ReadRoom \in Nat /\ ReadRoom + n <= size
      BY <1>1, <1>2, <3>1
    <3>3. left = Slice(d, start, n)
      <4>1. SubSeq(Slice(d, from, size), ReadRoom + 1, ReadRoom + n) = Slice(d, start, n)
        <5>1. d \in Nat /\ from \in Nat /\ size \in Nat /\ n \in Nat
          BY <1>2, <3>1
        <5>2. SlicedBehind(d, from, size, ReadRoom, n)
          BY <3>2, <5>1, SliceBehind
        <5> QED BY <3>1, <5>2 DEF SlicedBehind
      <4> QED BY <1>3, <1>4, <1>10, <3>1, <4>1
    <3>4. SliceOf(d, start, n)
      <4>1. d \in 1..Len(sizes) /\ from + size <= sizes[d] /\ sizes[d] \in Nat
        BY <1>2, WaitingTypes DEF SliceOf
      <4>2. start + n = from + size /\ ~(sizes[d] < ReadRoom - 1)
        BY <1>1, <2>2, <3>1, <4>1
      <4> QED BY <4>1, <4>2 DEF SliceOf
    <3> QED BY <3>3, <3>4, SliceFacts DEF WaitsOk
  <2> QED BY <1>1, <2>1, <2>2
<1>12. CASE carrier \in {"udp", "linux udp"}
  <2>1. Read = [bytes |-> FirstBytes(first), rest |-> others]
    BY <1>3, <1>8, <1>12 DEF Read, UdpRead, LinuxUdpRead, OneRead
  <2>2. Read.bytes = Slice(d, from, got) /\ Read.rest = others
    BY <1>7, <2>1
  <2> QED BY <1>2, <1>6, <1>9, <2>2
<1>13. CASE carrier \in {"dtls", "linux dtls"}
  <2>1. Read = [bytes |-> FirstBytes(first),
                rest |-> (IF left = <<>> THEN <<>> ELSE <<left>>) \o others]
    BY <1>3, <1>8, <1>10, <1>13 DEF Read, LinuxDtlsRead, DtlsRead
  <2> PICK rest : rest = (IF left = <<>> THEN <<>> ELSE <<left>>) \o others
    OBVIOUS
  <2>2. Read.bytes = Slice(d, from, got) /\ Read.rest = rest
    BY <1>7, <2>1
  <2>3. rest \in Seq(Seq(PlacedByte)) /\ \A w \in 1..Len(rest) : WaitsOk(rest[w])
    <3>1. CASE left = <<>>
      <4>1. rest = others
        BY <1>9, <3>1, ConcatEmptySeq
      <4> QED BY <1>9, <4>1
    <3>2. CASE left # <<>>
      <4>1. PICK one : one = <<left>>
        OBVIOUS
      <4>2. one \in Seq(Seq(PlacedByte)) /\ Len(one) = 1 /\ one[1] = left /\ rest = one \o others
        BY <1>11, <3>2, <4>1
      <4>3. /\ rest \in Seq(Seq(PlacedByte)) /\ Len(rest) = 1 + Len(others)
            /\ \A w \in 1..(1 + Len(others)) : rest[w] = IF w <= 1 THEN one[w] ELSE others[w - 1]
        <5>1. /\ one \o others \in Seq(Seq(PlacedByte)) /\ Len(one \o others) = Len(one) + Len(others)
              /\ \A w \in 1 .. Len(one) + Len(others) :
                   (one \o others)[w] = IF w <= Len(one) THEN one[w] ELSE others[w - Len(one)]
          BY <1>9, <4>2, ConcatProperties
        <5> QED BY <4>2, <5>1
      <4>4. ASSUME NEW w \in 1..Len(rest) PROVE WaitsOk(rest[w])
        <5>1. CASE w = 1
          BY <1>11, <3>2, <4>2, <4>3, <5>1
        <5>2. CASE w # 1
          <6>1. w - 1 \in 1..Len(others) /\ rest[w] = others[w - 1]
            BY <1>9, <4>3, <5>2
          <6> QED BY <1>9, <6>1
        <5> QED BY <5>1, <5>2
      <4> QED BY <4>3, <4>4
    <3> QED BY <3>1, <3>2
  <2> QED BY <1>2, <1>6, <2>2, <2>3
<1> QED BY <1>12, <1>13 DEF DatagramInv

\* A string ends where the read put its NUL.
LEMMA TextEnds ==
  ASSUME NEW d \in Nat \ {0}, NEW n \in Nat, n < ReadRoom - 1, DatagramInv
  PROVE  AsString(Filled(Slice(d, 0, n))) = Slice(d, 0, n)
<1>1. ReadRoom \in Nat \ {0, 1} /\ d # 0 /\ 0 \in Nat /\ d \in Nat
  BY DatagramsAssumption
<1>a. /\ Slice(d, 0, n) \in Seq(PlacedByte) /\ Len(Slice(d, 0, n)) = n
      /\ \A k \in 1..n : Slice(d, 0, n)[k] = ByteOf(d, 0 + k)
  BY <1>1, SliceFacts
<1>2. PICK bytes \in Seq(PlacedByte) : /\ bytes = Slice(d, 0, n) /\ Len(bytes) = n
                                  /\ \A k \in 1..n : bytes[k] = ByteOf(d, 0 + k)
  BY <1>a
<1>3. PICK buffer : buffer = Filled(bytes)
  OBVIOUS
<1>4. /\ \A k \in 1..n : k \in 1..ReadRoom /\ buffer[k] = bytes[k]
      /\ n + 1 \in 1..ReadRoom /\ buffer[n + 1] = Nul
  BY <1>1, <1>2, <1>3 DEF Filled
<1>5. \A k \in 1..n : buffer[k] # Nul
  BY <1>1, <1>2, <1>4 DEF Nul, ByteOf
<1> DEFINE ends == {k \in 1..ReadRoom : buffer[k] = Nul}
<1>6. n + 1 \in ends /\ \A e \in ends : n + 1 <= e
  BY <1>4, <1>5
<1>0. PICK m : m = CHOOSE k \in ends : \A e \in ends : k <= e
  OBVIOUS
<1>7. m = n + 1
  <2>1. \A k \in ends : (\A e \in ends : k <= e) => k = n + 1
    BY <1>6
  <2> HIDE DEF ends
  <2> QED BY <1>0, <1>6, <2>1
<1>8. AsString(buffer) = SubSeq(buffer, 1, n)
  <2>1. ends # {}
    BY <1>6
  <2>2. AsString(buffer) = SubSeq(buffer, 1, m - 1)
    BY <1>0, <2>1 DEF AsString
  <2>3. n + 1 - 1 = n
    OBVIOUS
  <2> QED BY <1>7, <2>2, <2>3
<1>9. SubSeq(buffer, 1, n) = bytes
  <2>1. \A k \in 1..n : buffer[k] \in PlacedByte
    BY <1>2, <1>4
  <2>2. /\ SubSeq(buffer, 1, n) \in Seq(PlacedByte)
        /\ Len(SubSeq(buffer, 1, n)) = n
        /\ \A k \in 1..n : SubSeq(buffer, 1, n)[k] = buffer[k]
    <3> PICK t : t = SubSeq(buffer, 1, n)
      OBVIOUS
    <3>1. /\ t \in Seq(PlacedByte)
          /\ Len(t) = IF 1 <= n THEN n - 1 + 1 ELSE 0
          /\ \A i \in 1 .. n - 1 + 1 : t[i] = buffer[1 + i - 1]
      BY <2>1, SubSeqProperties
    <3>2. Len(t) = n
      BY <3>1
    <3>3. \A k \in 1..n : t[k] = buffer[k]
      <4> TAKE k \in 1..n
      <4>1. k \in 1 .. n - 1 + 1 /\ 1 + k - 1 = k
        OBVIOUS
      <4> QED BY <3>1, <4>1
    <3> QED BY <3>1, <3>2, <3>3
  <2> PICK t : t = SubSeq(buffer, 1, n)
    OBVIOUS
  <2>3. t \in Seq(PlacedByte) /\ Len(t) = Len(bytes) /\ \A k \in 1..Len(t) : t[k] = bytes[k]
    BY <1>2, <1>4, <2>2
  <2> QED BY <2>3, SeqEqual
<1> QED BY <1>2, <1>3, <1>8, <1>9

LEMMA ReadSomeKeeps == DatagramInv /\ ReadSome => DatagramInv'
<1> SUFFICES ASSUME DatagramInv, ReadSome PROVE DatagramInv'
  OBVIOUS
<1>1. /\ waiting # <<>> /\ waiting' = Read.rest /\ UNCHANGED <<carrier, sizes>>
      /\ IF Read.bytes = <<>> THEN message' = message
         ELSE message' = [bytes |-> Read.bytes, string |-> AsString(Filled(Read.bytes))]
  BY DEF ReadSome
<1>2. PICK d, from, size, got \in Nat :
        /\ SliceOf(d, from, size) /\ got <= size /\ got <= ReadRoom
        /\ Read.bytes = Slice(d, from, got)
        /\ size <= ReadRoom => got = size
        /\ Read.rest \in Seq(Seq(PlacedByte))
        /\ \A w \in 1..Len(Read.rest) : WaitsOk(Read.rest[w])
  BY <1>1, ReadFacts
<1>3. \A x : WaitsOk(x) <=> WaitsOk(x)'
  BY <1>1 DEF WaitsOk, SliceOf
<1>4. waiting' \in Seq(Seq(PlacedByte)) /\ (\A w \in 1..Len(waiting) : WaitsOk(waiting[w]))'
  <2> PICK rest : rest = Read.rest
    OBVIOUS
  <2>1. rest \in Seq(Seq(PlacedByte)) /\ \A w \in 1..Len(rest) : WaitsOk(rest[w])'
    BY <1>2, <1>3
  <2> QED BY <1>1, <2>1
<1>5. \A m : MessageOk(m) <=> MessageOk(m)'
  BY <1>1 DEF MessageOk, SliceOf
<1>6. CASE Read.bytes = <<>>
  <2> PICK m : m = message
    OBVIOUS
  <2>1. m # NoMessage => MessageOk(m)'
    BY <1>5 DEF DatagramInv
  <2> QED BY <1>1, <1>4, <1>6, <2>1 DEF DatagramInv
<1>7. CASE Read.bytes # <<>>
  <2>1. PICK bytes, text : bytes = Slice(d, from, got) /\ text = AsString(Filled(bytes))
    OBVIOUS
  <2>2. PICK m : m = [bytes |-> bytes, string |-> text] /\ message' = m
    BY <1>1, <1>2, <1>7, <2>1
  <2>3. got > 0
    <3>1. Len(bytes) = got /\ bytes \in Seq(PlacedByte)
      BY <2>1, SliceFacts
    <3>2. bytes # <<>>
      BY <1>2, <1>7, <2>1
    <3> QED BY <3>1, <3>2
  <2>4. /\ d \in 1..Len(sizes) /\ from + size <= sizes[d] /\ sizes[d] \in Nat
        /\ sizes[d] < ReadRoom - 1 => from = 0 /\ size = sizes[d]
    BY <1>2, WaitingTypes DEF SliceOf
  <2>5. SliceOf(d, from, got)
    BY <1>2, <2>4, DatagramsAssumption DEF SliceOf
  <2>6. sizes[d] < ReadRoom - 1 => text = bytes
    <3> SUFFICES ASSUME sizes[d] < ReadRoom - 1 PROVE text = bytes
      OBVIOUS
    <3>1. from = 0 /\ got = sizes[d] /\ got < ReadRoom - 1 /\ d \in Nat \ {0}
      BY <1>2, <2>4, DatagramsAssumption
    <3> QED BY <2>1, <3>1, TextEnds
  <2>7. m.bytes = Slice(d, from, got) /\ (sizes[d] < ReadRoom - 1 => m.string = m.bytes)
    BY <2>1, <2>2, <2>6
  <2>8. MessageOk(m)
    BY <2>3, <2>5, <2>7 DEF MessageOk
  <2>9. MessageOk(m)' /\ m = [bytes |-> m.bytes, string |-> m.string]
    BY <1>5, <2>2, <2>8
  <2> QED BY <1>1, <1>4, <2>2, <2>9 DEF DatagramInv
<1> QED BY <1>6, <1>7

LEMMA DatagramInvNext == DatagramInv /\ [DatagramNext]_datagramVars => DatagramInv'
<1> SUFFICES ASSUME DatagramInv, [DatagramNext]_datagramVars PROVE DatagramInv'
  OBVIOUS
<1>1. CASE CoapYield \/ TimeIsOver \/ UNCHANGED datagramVars
  <2>1. UNCHANGED <<carrier, sizes, waiting, message>>
    BY <1>1 DEF CoapYield, TimeIsOver, datagramVars
  <2>2. (\A w \in 1..Len(waiting) : WaitsOk(waiting[w]))'
    BY <2>1, WaitsFacts DEF WaitsOk, SliceOf
  <2>3. (message # NoMessage => MessageOk(message))'
    BY <2>1 DEF DatagramInv, MessageOk, SliceOf
  <2> QED BY <2>1, <2>2, <2>3 DEF DatagramInv
<1> QED BY <1>1, ArrivesKeeps, ReadSomeKeeps DEF DatagramNext

LEMMA MessageIsOne == DatagramInv => OneDatagram
<1> SUFFICES ASSUME DatagramInv, message # NoMessage
             PROVE  LET d == message.bytes[1][1] IN
                    IF sizes[d] < ReadRoom - 1 THEN message = [bytes |-> Whole(d), string |-> Whole(d)]
                    ELSE \E i, j \in 1..sizes[d] : message.bytes = SubSeq(Whole(d), i, j)
  BY DEF OneDatagram
<1>1. PICK d, from, size \in Nat :
        /\ SliceOf(d, from, size) /\ size > 0
        /\ message.bytes = Slice(d, from, size)
        /\ sizes[d] < ReadRoom - 1 => message.string = message.bytes
  BY DEF DatagramInv, MessageOk
<1>2. /\ d \in 1..Len(sizes) /\ from + size <= sizes[d] /\ sizes[d] \in Nat /\ sizes \in Seq(Nat)
      /\ sizes[d] < ReadRoom - 1 => from = 0 /\ size = sizes[d]
  BY <1>1, WaitingTypes DEF SliceOf
<1>3. message.bytes[1][1] = d
  <2>1. 1 \in 1..size /\ \A k \in 1..size : Slice(d, from, size)[k] = ByteOf(d, from + k)
    <3>1. \A k \in 1..size : Slice(d, from, size)[k] = ByteOf(d, from + k)
      BY <1>1, SliceFacts
    <3> QED BY <1>1, <3>1
  <2>2. message.bytes[1] = ByteOf(d, from + 1)
    BY <1>1, <2>1
  <2> QED BY <2>2 DEF ByteOf
<1>4. Whole(d) = Slice(d, 0, sizes[d])
  BY <1>2, WholeIsSlice
<1>5. ASSUME sizes[d] < ReadRoom - 1
      PROVE  message = [bytes |-> Whole(d), string |-> Whole(d)]
  <2>1. message.bytes = Whole(d) /\ message.string = Whole(d)
    BY <1>1, <1>2, <1>4, <1>5
  <2>2. message = [bytes |-> message.bytes, string |-> message.string]
    BY DEF DatagramInv
  <2> QED BY <2>1, <2>2
<1>6. \E i, j \in 1..sizes[d] : message.bytes = SubSeq(Whole(d), i, j)
  <2>1. from + 1 \in 1..sizes[d] /\ from + size \in 1..sizes[d] /\ 0 \in Nat /\ from = 0 + from
    BY <1>1, <1>2
  <2>2. SubSeq(Slice(d, 0, sizes[d]), from + 1, from + size) = Slice(d, from, size)
    <3>1. d \in Nat /\ from \in Nat /\ size \in Nat /\ sizes[d] \in Nat /\ from + size <= sizes[d]
          /\ 0 \in Nat /\ 0 + from = from
      BY <1>1, <1>2
    <3>2. SlicedBehind(d, 0, sizes[d], from, size)
      BY <3>1, SliceBehind
    <3> QED BY <3>1, <3>2 DEF SlicedBehind
  <2>3. message.bytes = SubSeq(Whole(d), from + 1, from + size)
    BY <1>1, <1>4, <2>2
  <2> QED BY <2>1, <2>3
<1> QED BY <1>3, <1>5, <1>6

DatagramSpec == DatagramInit /\ [][DatagramNext]_datagramVars

\* tc_iot_coap_deserialize is only ever given one whole datagram and its text, over either
\* port and for any datagrams in any buffer, but for the sizes the buffer has no room for.
THEOREM MessagesAreDatagrams == DatagramSpec => []OneDatagram
<1>1. DatagramSpec => []DatagramInv
  BY DatagramInvInit, DatagramInvNext, PTL DEF DatagramSpec
<1> QED BY <1>1, MessageIsOne, PTL

-----------------------------------------------------------------------------
(* Timers *)

LEMMA Quotients ==
  ASSUME NEW b \in Nat \ {0}, NEW x \in Int, NEW y \in Int, x <= y
  PROVE  x \div b <= y \div b
<1> PICK q, r, q2, r2 \in Int : q = x \div b /\ r = x % b /\ q2 = y \div b /\ r2 = y % b
  BY DivisionFacts
<1>1. x = b * q + r /\ y = b * q2 + r2 /\ 0 <= r /\ r2 < b
  BY DivisionFacts
<1>2. b * q < b * q2 + b
  BY <1>1
<1>3. b * q < b * (q2 + 1)
  BY <1>2
<1>4. q < q2 + 1
  BY <1>3, Times
<1> QED BY <1>4

\* The milliseconds that the timers show at a tick.
MsAt(t) ==
  IF rate = Thousand THEN t % ClockWord
  ELSE (Dividend(t) % ClockWord) \div rate
Scale == Thousand \div rate

LEMMA Scaled ==
  ASSUME rate \in TickRates
  PROVE  /\ rate \in Nat \ {0} /\ Scale \in Nat \ {0} /\ Thousand = rate * Scale
         /\ Thousand \in Nat \ {0} /\ ClockWord \in Nat \ {0}
         /\ rate = Thousand => Scale = 1
<1>1. rate \in Nat \ {0} /\ Thousand \in Nat \ {0} /\ ClockWord \in Nat \ {0} /\ Thousand % rate = 0
  BY TicksDivide
<1>2. PICK s \in Int : s = Scale /\ Thousand = rate * s + 0
  BY <1>1, DivisionFacts DEF Scale
<1>3. s >= 1
  BY <1>1, <1>2
<1>4. rate = Thousand => s = 1
  BY <1>1, <1>2
<1> QED BY <1>1, <1>2, <1>3, <1>4

\* TicksOf rounds up.
LEMMA TicksFacts ==
  ASSUME rate \in TickRates, NEW ms \in Nat
  PROVE  /\ TicksOf(ms) \in Nat
         /\ ms <= Scale * TicksOf(ms) /\ Scale * (TicksOf(ms) - 1) < ms
<1> PICK c \in Nat \ {0} : c = Scale
  BY Scaled
<1>1. rate \in Nat \ {0} /\ Thousand \in Nat \ {0} /\ Thousand = rate * c
  BY Scaled
<1> DEFINE sum == ms * rate + Thousand - 1
<1>2. sum \in Int
  BY <1>1
<1>3. PICK k, r \in Int : k = sum \div Thousand /\ sum = Thousand * k + r /\ 0 <= r /\ r < Thousand
  BY <1>1, <1>2, DivisionFacts
<1>4. rate * (c * k - ms) = Thousand - 1 - r
  <2>1. Thousand * k = rate * (c * k)
    BY <1>1
  <2>2. rate * (c * k - ms) = rate * (c * k) - ms * rate
    BY <1>1
  <2> QED BY <1>1, <1>3, <2>1, <2>2
<1>5. 0 <= rate * (c * k - ms) /\ rate * (c * k - ms) < rate * c
  BY <1>1, <1>3, <1>4
<1>6. c * k - ms \in Int /\ c \in Int /\ 0 \in Int /\ rate * 0 = 0
  BY <1>1
<1>7. 0 <= c * k - ms /\ c * k - ms < c
  BY <1>1, <1>5, <1>6, Times
<1>8. c * (k - 1) = c * k - c
  OBVIOUS
<1>9. k >= 0
  BY <1>7
<1> QED BY <1>3, <1>7, <1>8, <1>9 DEF TicksOf

LEMMA TicksAre ==
  ASSUME rate \in TickRates, NEW ms \in Nat, NEW k \in Int,
         ms <= Scale * k, Scale * (k - 1) < ms
  PROVE  TicksOf(ms) = k
<1> PICK c \in Nat \ {0} : c = Scale
  BY Scaled
<1> PICK j \in Nat : j = TicksOf(ms) /\ ms <= c * j /\ c * (j - 1) < ms
  BY TicksFacts
<1>1. c * (k - 1) < c * j /\ c * (j - 1) < c * k
  OBVIOUS
<1>2. k - 1 < j /\ j - 1 < k
  BY <1>1, Times
<1> QED BY <1>2

\* Between two ticks that no wrap of the clock separates, milliseconds go by evenly.
LEMMA MsRange ==
  ASSUME rate \in TickRates, NEW t \in Nat
  PROVE  MsAt(t) \in Nat /\ MsAt(t) < ClockWord
<1>1. rate \in Nat \ {0} /\ Thousand \in Nat \ {0} /\ ClockWord \in Nat \ {0}
  BY Scaled
<1>2. CASE rate = Thousand
  BY <1>1, <1>2, DivisionFacts DEF MsAt
<1>3. CASE rate # Thousand
  <2>1. Dividend(t) \in Int
    BY <1>1 DEF Dividend
  <2>2. PICK s \in Nat : s = Dividend(t) % ClockWord /\ s < ClockWord
    BY <1>1, <2>1, DivisionFacts
  <2>3. PICK q, r \in Int : /\ q = s \div rate
                            /\ s = rate * q + r /\ 0 <= r /\ r < rate
    BY <1>1, DivisionFacts
  <2>4. q >= 0
    <3>1. rate * (q + 1) > 0
      BY <1>1, <2>3
    <3>2. rate * 0 = 0 /\ q + 1 \in Int
      BY <1>1
    <3>3. 0 < q + 1
      BY <1>1, <3>1, <3>2, Times
    <3> QED BY <3>3
  <2>5. q <= s
    <3>1. rate * q < rate * (s + 1)
      <4>1. rate * (s + 1) = rate * s + rate /\ rate * s >= s
        BY <1>1
      <4> QED BY <1>1, <2>3, <4>1
    <3>2. q < s + 1
      BY <1>1, <3>1, Times
    <3> QED BY <3>2
  <2>6. MsAt(t) = q
    BY <1>3, <2>2, <2>3 DEF MsAt
  <2> QED BY <1>1, <2>2, <2>4, <2>5, <2>6
<1> QED BY <1>2, <1>3

LEMMA Evenly ==
  ASSUME rate \in TickRates, NEW a \in Nat, NEW b \in Nat, ~Wrapped(a, b)
  PROVE  MsAt(b) = MsAt(a) + Scale * (b - a)
<1>1. rate \in Nat \ {0} /\ Thousand \in Nat \ {0} /\ ClockWord \in Nat \ {0}
  BY Scaled
<1> PICK c \in Nat \ {0} : c = Scale /\ Thousand = rate * c /\ (rate = Thousand => c = 1)
  BY Scaled
<1>2. CASE rate = Thousand
  <2>1. a \div ClockWord = b \div ClockWord
    BY <1>2 DEF Wrapped, Turn
  <2>2. PICK q, r, s \in Int : /\ r = a % ClockWord /\ s = b % ClockWord
                               /\ a = ClockWord * q + r /\ b = ClockWord * q + s
    <3> PICK w \in Nat \ {0} : w = ClockWord
      BY <1>1
    <3>1. PICK q, r \in Int : Divided(a, w, q, r)
      BY Division
    <3>2. PICK p, s \in Int : Divided(b, w, p, s)
      BY Division
    <3> QED BY <2>1, <3>1, <3>2 DEF Divided
  <2>3. s = r + (b - a)
    BY <1>1, <2>2
  <2> QED BY <1>2, <2>2, <2>3 DEF MsAt
<1>3. CASE rate # Thousand
  <2>1. Dividend(a) \div ClockWord = Dividend(b) \div ClockWord
    BY <1>3 DEF Wrapped, Turn
  <2>2. Dividend(a) \in Int /\ Dividend(b) \in Int
    BY <1>1 DEF Dividend
  <2>3. PICK q, r, s \in Int :
          /\ r = Dividend(a) % ClockWord /\ s = Dividend(b) % ClockWord
          /\ Dividend(a) = ClockWord * q + r /\ Dividend(b) = ClockWord * q + s
    <3> PICK x, y \in Int : x = Dividend(a) /\ y = Dividend(b)
      BY <2>2
    <3> PICK w \in Nat \ {0} : w = ClockWord
      BY <1>1
    <3>1. PICK q, r \in Int : Divided(x, w, q, r)
      BY Division
    <3>2. PICK p, s \in Int : Divided(y, w, p, s)
      BY Division
    <3>3. x \div w = y \div w
      BY <2>1
    <3>4. x = w * q + r /\ y = w * q + s /\ r = x % w /\ s = y % w
      BY <3>1, <3>2, <3>3 DEF Divided
    <3> QED BY <3>4
  <2>4. s = r + rate * (c * (b - a))
    <3>1. s - r = b * Thousand - a * Thousand
      BY <1>1, <2>3 DEF Dividend
    <3>2. b * Thousand - a * Thousand = rate * (c * (b - a))
      BY <1>1
    <3> QED BY <1>1, <3>1, <3>2
  <2>5. PICK u, v \in Int : /\ u = r \div rate
                            /\ r = rate * u + v /\ 0 <= v /\ v < rate
    BY <1>1, DivisionFacts
  <2>6. PICK w \in Int : w = u + c * (b - a)
    OBVIOUS
  <2>7. s = rate * w + v /\ s \in Int
    <3>1. rate * w = rate * u + rate * (c * (b - a))
      BY <1>1, <2>6
    <3> QED BY <1>1, <2>4, <2>5, <3>1
  <2>8. s \div rate = w
    BY <1>1, <2>5, <2>7, DivisionIs
  <2> QED BY <1>3, <2>3, <2>5, <2>6, <2>8 DEF MsAt
<1> QED BY <1>2, <1>3

LEMMA WrappedLater ==
  ASSUME rate \in TickRates, NEW a \in Nat, NEW b \in Nat, NEW c \in Nat, a <= b, b <= c,
         ~Wrapped(a, c)
  PROVE  ~Wrapped(a, b)
<1>1. rate \in Nat \ {0} /\ Thousand \in Nat \ {0} /\ ClockWord \in Nat \ {0}
  BY Scaled
<1>2. PICK x, y, z \in Int : /\ x = (IF rate = Thousand THEN a ELSE Dividend(a))
                             /\ y = (IF rate = Thousand THEN b ELSE Dividend(b))
                             /\ z = (IF rate = Thousand THEN c ELSE Dividend(c))
  <2>1. Dividend(a) \in Int /\ Dividend(b) \in Int /\ Dividend(c) \in Int
    BY <1>1 DEF Dividend
  <2> QED BY <2>1
<1>3. x <= y /\ y <= z
  <2>1. CASE rate = Thousand
    BY <1>2, <2>1
  <2>2. CASE rate # Thousand
    <3>1. a * Thousand <= b * Thousand /\ b * Thousand <= c * Thousand
      BY <1>1, Times
    <3>2. /\ a * Thousand \in Int /\ b * Thousand \in Int /\ c * Thousand \in Int
          /\ x = a * Thousand + rate - 1 /\ y = b * Thousand + rate - 1 /\ z = c * Thousand + rate - 1
      BY <1>1, <1>2, <2>2 DEF Dividend
    <3> QED BY <1>1, <3>1, <3>2
  <2> QED BY <2>1, <2>2
<1>4. Turn(a) = x \div ClockWord /\ Turn(b) = y \div ClockWord /\ Turn(c) = z \div ClockWord
  BY <1>2 DEF Turn
<1>5. x \div ClockWord <= y \div ClockWord /\ y \div ClockWord <= z \div ClockWord
  BY <1>1, <1>3, Quotients
<1>6. x \div ClockWord \in Int /\ y \div ClockWord \in Int
  BY <1>1, DivisionFacts
<1> QED BY <1>4, <1>5, <1>6 DEF Wrapped

\* The deadline that the timer holds is due's, and a select asked for what was left.
TimerInv ==
  /\ rate \in TickRates /\ tick \in Nat /\ started \in Nat /\ started <= tick
  /\ step \in {"idle", "ask", "select", "check"}
  /\ step # "idle" =>
       \E ms \in Timeouts : /\ ts = (MsAt(started) + ms) % ClockWord
                            /\ due = started + TicksOf(ms)
  /\ step = "select" =>
       \E asked \in Nat : /\ started <= asked /\ asked <= tick
                          /\ wakes = asked + TicksOf((ts - MsAt(asked)) % ClockWord)

LEMMA TimerInvInit == TimerInit => TimerInv
<1> SUFFICES ASSUME TimerInit PROVE TimerInv
  OBVIOUS
<1>1. tick \in Nat
  BY TicksDivide DEF TimerInit
<1> QED BY <1>1 DEF TimerInit, TimerInv

LEMMA TimerInvNext == TimerInv /\ [TimerNext]_timerVars => TimerInv'
<1> SUFFICES ASSUME TimerInv, [TimerNext]_timerVars PROVE TimerInv'
  OBVIOUS
<1> USE DEF TimerInv
<1>1. ASSUME NEW ms \in Timeouts, Countdown(ms) PROVE TimerInv'
  <2>1. /\ ts' = (MsAt(tick) + ms) % ClockWord
        /\ started' = tick /\ due' = tick + TicksOf(ms) /\ step' = "ask" /\ UNCHANGED <<rate, tick>>
    BY <1>1 DEF Countdown, GetMs, MsAt
  <2> QED BY <2>1 DEF MsAt, TicksOf, Dividend
<1>2. CASE Select
  <2>1. /\ wakes' = tick + TicksOf((ts - MsAt(tick)) % ClockWord)
        /\ step' = "select" /\ step = "ask" /\ UNCHANGED <<rate, tick, ts, started, due>>
    BY <1>2 DEF Select, LeftMs, GetMs, MsAt
  <2> QED BY <2>1 DEF MsAt, TicksOf, Dividend
<1>3. CASE DataArrives \/ NothingRead \/ CheckExpired
  <2>1. /\ step' \in {"check", "idle", "ask"} /\ step # "idle"
        /\ UNCHANGED <<rate, tick, ts, started, due>>
    BY <1>3 DEF DataArrives, NothingRead, CheckExpired
  <2> QED BY <2>1 DEF MsAt, TicksOf, Dividend
<1>4. CASE Tick
  <2>1. tick' = tick + 1 /\ UNCHANGED <<rate, ts, started, due, step, wakes>>
    BY <1>4 DEF Tick
  <2>2. tick' \in Nat /\ started <= tick' /\ \A asked \in Nat : asked <= tick => asked <= tick'
    BY <2>1
  <2> QED BY <2>1, <2>2 DEF MsAt, TicksOf, Dividend
<1>5. CASE UNCHANGED timerVars
  BY <1>5 DEF timerVars, MsAt, TicksOf, Dividend
<1> QED BY <1>1, <1>2, <1>3, <1>4, <1>5 DEF TimerNext

\* A deadline that the clock reaches without a wrap is in the timer as it is.
LEMMA Deadline ==
  ASSUME rate \in TickRates, NEW a \in Nat, NEW ms \in Nat, ~Wrapped(a, a + TicksOf(ms))
  PROVE  (MsAt(a) + ms) % ClockWord = MsAt(a) + ms /\ MsAt(a) + ms < ClockWord
<1> PICK c, k \in Nat : c = Scale /\ k = TicksOf(ms) /\ ms <= c * k
  BY Scaled, TicksFacts
<1>1. a + k \in Nat /\ a + k - a = k
  OBVIOUS
<1>2. MsAt(a + k) = MsAt(a) + c * k
  BY <1>1, Evenly
<1>3. MsAt(a) \in Nat /\ MsAt(a + k) < ClockWord /\ MsAt(a + k) \in Nat /\ ClockWord \in Nat \ {0}
  BY <1>1, MsRange, Scaled
<1> PICK m \in Nat : m = MsAt(a)
  BY <1>3
<1>4. m + ms < ClockWord
  BY <1>2, <1>3
<1>5. m + ms = ClockWord * 0 + (m + ms) /\ 0 <= m + ms
  BY <1>3
<1>6. (m + ms) % ClockWord = m + ms
  BY <1>3, <1>4, <1>5, DivisionIs
<1> QED BY <1>4, <1>6

LEMMA CheckIsRight ==
  ASSUME TimerInv, step = "check", ~Wrapped(started, tick), ~Wrapped(started, due)
  PROVE  IsExpired <=> tick >= due
<1>1. rate \in TickRates /\ tick \in Nat /\ started \in Nat
  BY DEF TimerInv
<1>2. PICK ms \in Timeouts : ts = (MsAt(started) + ms) % ClockWord /\ due = started + TicksOf(ms)
  BY DEF TimerInv
<1>3. ms \in Nat
  BY <1>2, TicksDivide
<1> PICK c \in Nat \ {0}, k \in Nat :
      c = Scale /\ k = TicksOf(ms) /\ ms <= c * k /\ c * (k - 1) < ms
  BY <1>1, <1>3, Scaled, TicksFacts
<1>4. ts = MsAt(started) + ms
  BY <1>1, <1>2, <1>3, Deadline
<1>5. MsAt(tick) = MsAt(started) + c * (tick - started)
  BY <1>1, Evenly
<1>6. IsExpired <=> ts <= MsAt(tick)
  BY DEF IsExpired, GetMs, MsAt
<1> PICK m \in Nat : m = MsAt(started)
  BY <1>1, MsRange
<1> PICK past \in Int : past = tick - started
  BY <1>1
<1>7. IsExpired <=> ms <= c * past
  <2>1. c * past \in Int
    OBVIOUS
  <2> QED BY <1>3, <1>4, <1>5, <1>6, <2>1
<1>8. ms <= c * past <=> k <= past
  <2>1. k <= past => c * k <= c * past
    BY Times
  <2>2. past <= k - 1 => c * past <= c * (k - 1)
    BY Times
  <2>3. c * past \in Int /\ c * k \in Int /\ c * (k - 1) \in Int
    OBVIOUS
  <2>4. k <= past \/ past <= k - 1
    OBVIOUS
  <2> QED BY <1>3, <2>1, <2>2, <2>3, <2>4
<1>9. tick >= due <=> k <= past
  BY <1>1, <1>2
<1> QED BY <1>7, <1>8, <1>9

\* Left over a wrap, in a clock that counts milliseconds.
LEMMA LeftInTicks ==
  ASSUME rate \in TickRates, rate = Thousand, NEW a \in Nat, NEW b \in Nat, NEW ms \in Nat,
         b <= a + ms
  PROVE  /\ (((MsAt(a) + ms) % ClockWord) - MsAt(b)) % ClockWord \in Nat
         /\ (((MsAt(a) + ms) % ClockWord) - MsAt(b)) % ClockWord <= a + ms - b
<1>1. ClockWord \in Nat \ {0}
  BY Scaled
<1> PICK w \in Nat \ {0} : w = ClockWord
  BY <1>1
<1>2. MsAt(a) = a % w /\ MsAt(b) = b % w
  BY DEF MsAt
<1> PICK p, m \in Int : Divided(a, w, p, m)
  BY Division
<1> PICK q, n \in Int : Divided(b, w, q, n)
  BY Division
<1>a. m + ms \in Int
  OBVIOUS
<1> PICK v, u \in Int : Divided(m + ms, w, v, u)
  BY <1>a, Division
<1>b. u - n \in Int
  OBVIOUS
<1> PICK y, x \in Int : Divided(u - n, w, y, x)
  BY <1>b, Division
<1>c. /\ a = w * p + m /\ b = w * q + n /\ m + ms = w * v + u /\ u - n = w * y + x
      /\ 0 <= x /\ x < w
  BY DEF Divided
<1>d. x = ((((a % w) + ms) % w) - (b % w)) % w
  BY DEF Divided
<1>3. a + ms - b = w * (p + v + y - q) + x
  <2>1. w * (p + v + y - q) = w * p + w * v + w * y - w * q
    OBVIOUS
  <2> QED BY <1>c, <2>1
<1>4. p + v + y - q >= 0
  <2>1. w * (p + v + y - q + 1) > 0
    <3>1. w * (p + v + y - q + 1) = w * (p + v + y - q) + w
      OBVIOUS
    <3> QED BY <1>3, <1>c, <3>1
  <2>2. w * 0 = 0 /\ p + v + y - q + 1 \in Int
    OBVIOUS
  <2>3. 0 < p + v + y - q + 1
    BY <2>1, <2>2, Times
  <2> QED BY <2>3
<1>5. w * (p + v + y - q) >= 0
  BY <1>4
<1>6. x \in Nat /\ x <= a + ms - b
  BY <1>3, <1>5, <1>c
<1> QED BY <1>2, <1>6, <1>d

LEMMA SelectEndsInTime ==
  ASSUME TimerInv, step = "select", wakes > due
  PROVE  tick > due \/ (rate # Thousand /\ (tick = due \/ Wrapped(started, due)))
<1>1. rate \in TickRates /\ tick \in Nat /\ started \in Nat /\ started <= tick
  BY DEF TimerInv
<1>2. PICK ms \in Timeouts : ts = (MsAt(started) + ms) % ClockWord /\ due = started + TicksOf(ms)
  BY DEF TimerInv
<1>3. ms \in Nat
  BY <1>2, TicksDivide
<1>4. PICK asked \in Nat : /\ started <= asked /\ asked <= tick
                           /\ wakes = asked + TicksOf((ts - MsAt(asked)) % ClockWord)
  BY DEF TimerInv
<1> PICK c \in Nat \ {0}, k \in Nat :
      c = Scale /\ k = TicksOf(ms) /\ ms <= c * k /\ c * (k - 1) < ms /\ (rate = Thousand => c = 1)
  BY <1>1, <1>3, Scaled, TicksFacts
<1>5. ASSUME rate = Thousand, tick <= due PROVE FALSE
  <2>1. k = ms
    BY <1>1, <1>3, <1>5
  <2>2. asked <= started + ms
    BY <1>1, <1>2, <1>3, <1>4, <1>5, <2>1
  <2>3. PICK left \in Nat : left = (ts - MsAt(asked)) % ClockWord /\ left <= started + ms - asked
    BY <1>1, <1>2, <1>3, <1>4, <1>5, <2>2, LeftInTicks
  <2>4. TicksOf(left) = left
    <3>1. c = 1 /\ left <= c * left /\ c * (left - 1) < left
      BY <1>5
    <3> QED BY <1>1, <3>1, TicksAre
  <2> QED BY <1>1, <1>2, <1>3, <1>4, <2>1, <2>3, <2>4
<1>6. ASSUME rate # Thousand, tick < due, ~Wrapped(started, due) PROVE FALSE
  <2>1. due \in Nat /\ asked <= due /\ asked < due
    BY <1>1, <1>2, <1>4, <1>6
  <2>2. ~Wrapped(started, asked)
    BY <1>1, <1>4, <1>6, <2>1, WrappedLater
  <2>3. ts = MsAt(started) + ms /\ MsAt(started) + ms < ClockWord
    BY <1>1, <1>2, <1>3, <1>6, Deadline
  <2> PICK past \in Nat : past = asked - started
    BY <1>1, <1>4
  <2>4. MsAt(asked) = MsAt(started) + c * past
    BY <1>1, <1>4, <2>2, Evenly
  <2> PICK m \in Nat : m = MsAt(started)
    BY <1>1, MsRange
  <2>5. past <= k - 1 /\ k - 1 \in Int
    BY <1>1, <1>2, <1>4, <2>1
  <2>6. c * past \in Nat /\ c * past <= c * (k - 1)
    BY <2>5, Times
  <2>7. PICK left \in Nat : left = ms - c * past /\ left = ts - MsAt(asked) /\ left < ClockWord
    <3>1. PICK gone \in Nat : gone = c * past
      BY <2>6
    <3>2. PICK last \in Int : last = c * (k - 1)
      BY <2>5
    <3>3. gone < ms /\ ms - gone \in Nat
      BY <1>3, <2>6, <3>1, <3>2
    <3>4. ts - MsAt(asked) = ms - gone
      BY <1>3, <2>3, <2>4, <3>1
    <3>5. ClockWord \in Nat /\ ms - gone < ClockWord
      BY <1>1, <1>3, <2>3, <3>3, Scaled
    <3> QED BY <3>1, <3>3, <3>4, <3>5
  <2>8. left % ClockWord = left
    <3>1. left = ClockWord * 0 + left /\ 0 <= left /\ ClockWord \in Nat \ {0}
      BY <1>1, Scaled
    <3> QED BY <2>7, <3>1, DivisionIs
  <2>9. TicksOf(left) = k - past
    <3>1. c * (k - past) = c * k - c * past /\ c * (k - past - 1) = c * (k - 1) - c * past
      OBVIOUS
    <3>2. left <= c * (k - past) /\ c * (k - past - 1) < left
      BY <1>3, <2>6, <2>7, <3>1
    <3> QED BY <1>1, <3>2, TicksAre
  <2> QED BY <1>1, <1>2, <1>4, <2>7, <2>8, <2>9
<1> QED BY <1>1, <1>2, <1>5, <1>6

TimerSpec == TimerInit /\ [][TimerNext]_timerVars

\* A read of the RT-Thread port ends with its timeout, unless the thread was held up past the
\* deadline or, with another tick rate than 1000, the clock wrapped; and between wraps a timer
\* is found expired from its deadline on and not before.  For every word of the clock, tick
\* rate that divides 1000, and timeout.
THEOREM TimersAreKept == TimerSpec => []TimerKept
<1>1. TimerSpec => []TimerInv
  BY TimerInvInit, TimerInvNext, PTL DEF TimerSpec
<1>2. TimerInv => TimerKept
  BY CheckIsRight, SelectEndsInTime DEF TimerKept
<1> QED BY <1>1, <1>2, PTL

-----------------------------------------------------------------------------
(* The remote calls of the samples.  What a frame or a delete names was taken *)
(* over when its get was answered; what an update's good answer stands for   *)
(* was told.                                                                 *)

CallKinds == {"get", "update", "delete"}
Seen == [Params -> Nat]
RpcFrames ==
  [at : CallKinds \cup {"again"}, session : Nat, bits : SUBSET Params, seen : Seen,
   awaits : Nat, rest : {"waits", "own", "other", "failed"}]

Says(n, value) == value = n \/ (n \in Fractions \cup Ones /\ value = -n)
Told(n) == \E value \in told : Says(n, value)

FrameOk(fr) ==
  /\ fr.awaits <= made
  /\ fr.at \in {"update", "delete"} => \A f \in fr.bits : Executed(fr.seen[f])
  /\ fr.at = "update" =>
       /\ \A r \in requests : r.id = fr.awaits =>
            /\ r.kind = "update" /\ r.bits = fr.bits
            /\ \A f \in fr.bits : Says(fr.seen[f], r.values[f])
       /\ \A a \in answers : a.id = fr.awaits /\ a.ok => \A f \in fr.bits : Told(fr.seen[f])
       /\ fr.rest = "own" => \A f \in fr.bits : Told(fr.seen[f])
  /\ transport = "http" => fr.rest # "other"

RequestOk(r) ==
  /\ r.id \in Nat /\ r.id <= made /\ r.kind \in CallKinds /\ r.bits \subseteq Params
  /\ r.kind = "delete" => \A f \in r.bits : Executed(r.seen[f]) /\ WasTold(r, r.seen[f])
AnswerOk(a) == a.id \in Nat /\ a.id <= made /\ a.desired \in Seen

StackOk(s) ==
  /\ s \in Seq(RpcFrames)
  /\ \A k \in 1..Len(s) : \E fr \in RpcFrames : s[k] = fr /\ FrameOk(fr)

RpcInv ==
  /\ transport \in {"http", "coap"} /\ desired \in Seen /\ commands \in Nat /\ made \in Nat
  /\ StackOk(frames)
  /\ \A r \in requests : RequestOk(r)
  /\ \A a \in answers : AnswerOk(a)

\* What handles a call tells its values.
Honest(a) ==
  \E r \in requests :
    /\ a.id = r.id
    /\ a.ok /\ r.kind = "update" => \A f \in r.bits : r.values[f] \in told'

\* A step in which nothing is forgotten: calls are new, answers are to calls.
Later ==
  /\ transport' = transport /\ executed \subseteq executed' /\ told \subseteq told'
  /\ made' \in Nat /\ made <= made'
  /\ \A r \in requests' : r \in requests \/ (r.id = made + 1)
  /\ \A a \in answers' : a \in answers \/ Honest(a)

LEMMA FrameLater == RpcInv /\ Later => \A fr \in RpcFrames : FrameOk(fr) => FrameOk(fr)'
<1> SUFFICES ASSUME RpcInv, Later, NEW fr \in RpcFrames, FrameOk(fr) PROVE FrameOk(fr)'
  OBVIOUS
<1>1. made \in Nat /\ made' \in Nat /\ made <= made' /\ fr.awaits \in Nat /\ fr.awaits <= made
  BY DEF RpcInv, Later, FrameOk, RpcFrames
<1>2. fr.awaits <= made' /\ fr.awaits # made + 1
  BY <1>1
<1>3. \A n : Executed(n) => Executed(n)'
  BY DEF Executed, Later
<1>4. \A n : Told(n) => Told(n)'
  BY DEF Told, Later
<1>5. ASSUME fr.at = "update", NEW r \in requests', r.id = fr.awaits
      PROVE  /\ r.kind = "update" /\ r.bits = fr.bits
             /\ \A f \in fr.bits : Says(fr.seen[f], r.values[f])
  <2>1. r \in requests
    BY <1>2, <1>5 DEF Later
  <2> QED BY <1>5, <2>1 DEF FrameOk
<1>6. ASSUME fr.at = "update", NEW a \in answers', a.id = fr.awaits, a.ok, NEW f \in fr.bits
      PROVE  Told(fr.seen[f])'
  <2>1. CASE a \in answers
    BY <1>4, <1>6, <2>1 DEF FrameOk
  <2>2. CASE Honest(a)
    <3>1. PICK r \in requests : /\ a.id = r.id
                                /\ r.kind = "update" => \A g \in r.bits : r.values[g] \in told'
      BY <1>6, <2>2 DEF Honest
    <3>2. /\ r.kind = "update" /\ r.bits = fr.bits
          /\ Says(fr.seen[f], r.values[f])
      BY <1>6, <3>1 DEF FrameOk
    <3> QED BY <1>6, <3>1, <3>2 DEF Told
  <2> QED BY <1>6, <2>1, <2>2 DEF Later
<1>7. transport' = "http" => fr.rest # "other"
  BY DEF Later, FrameOk
<1>8. fr.at \in {"update", "delete"} => \A f \in fr.bits : Executed(fr.seen[f])'
  BY <1>3 DEF FrameOk
<1>9. fr.at = "update" /\ fr.rest = "own" => \A f \in fr.bits : Told(fr.seen[f])'
  BY <1>4 DEF FrameOk
<1> QED BY <1>2, <1>5, <1>6, <1>7, <1>8, <1>9 DEF FrameOk

LEMMA RequestLater == RpcInv /\ Later => \A r : RequestOk(r) => RequestOk(r)'
<1> SUFFICES ASSUME RpcInv, Later, NEW r, RequestOk(r) PROVE RequestOk(r)'
  OBVIOUS
<1>1. made \in Nat /\ made' \in Nat /\ made <= made' /\ r.id \in Nat /\ r.id <= made
  BY DEF RpcInv, Later, RequestOk
<1>2. r.id <= made'
  BY <1>1
<1>3. \A n : Executed(n) => Executed(n)'
  BY DEF Executed, Later
<1>4. \A n : WasTold(r, n) => WasTold(r, n)'
  BY DEF WasTold, Later
<1> QED BY <1>1, <1>2, <1>3, <1>4 DEF RequestOk

LEMMA AnswerLater == RpcInv /\ Later => \A a : AnswerOk(a) => AnswerOk(a)'
<1> SUFFICES ASSUME RpcInv, Later, NEW a, AnswerOk(a) PROVE AnswerOk(a)'
  OBVIOUS
<1>1. made \in Nat /\ made' \in Nat /\ made <= made' /\ a.id \in Nat /\ a.id <= made
  BY DEF RpcInv, Later, AnswerOk
<1> QED BY <1>1 DEF AnswerOk

\* The step keeps the invariant if what is new in it is right.
LEMMA RpcStep ==
  ASSUME RpcInv, Later, desired' \in Seen, commands' \in Nat,
         frames' \in Seq(RpcFrames),
         \A k \in 1..Len(frames') :
           \/ \E j \in 1..Len(frames) : frames'[k] = frames[j]
           \/ \E fr \in RpcFrames : frames'[k] = fr /\ FrameOk(fr)',
         \A r \in requests' : r \in requests \/ RequestOk(r)',
         \A a \in answers' : a \in answers \/ AnswerOk(a)'
  PROVE  RpcInv'
<1>1. \A fr \in RpcFrames : FrameOk(fr) => FrameOk(fr)'
  BY FrameLater
<1>2. ASSUME NEW k \in 1..Len(frames')
      PROVE  \E fr \in RpcFrames : frames'[k] = fr /\ FrameOk(fr)'
  <2>1. CASE \E j \in 1..Len(frames) : frames'[k] = frames[j]
    <3>1. PICK j \in 1..Len(frames) : frames'[k] = frames[j]
      BY <2>1
    <3>2. PICK fr \in RpcFrames : frames[j] = fr /\ FrameOk(fr)
      BY DEF RpcInv, StackOk
    <3> QED BY <1>1, <3>1, <3>2
  <2> QED BY <2>1
<1>3. (\A r \in requests : RequestOk(r))'
  BY RequestLater DEF RpcInv
<1>4. (\A a \in answers : AnswerOk(a))'
  BY AnswerLater DEF RpcInv
<1>5. transport' \in {"http", "coap"} /\ made' \in Nat
  BY DEF RpcInv, Later
<1> QED BY <1>2, <1>3, <1>4, <1>5 DEF RpcInv, StackOk

-----------------------------------------------------------------------------
(* Frames *)

StackLater ==
  /\ frames' \in Seq(RpcFrames)
  /\ \A k \in 1..Len(frames') :
       \/ \E j \in 1..Len(frames) : frames'[k] = frames[j]
       \/ \E fr \in RpcFrames : frames'[k] = fr /\ FrameOk(fr)'

LEMMA TopIsOk ==
  ASSUME RpcInv, frames # <<>>
  PROVE  /\ frames \in Seq(RpcFrames) /\ Len(frames) \in Nat \ {0}
         /\ \E t \in RpcFrames : Top = t /\ FrameOk(t)
<1>1. frames \in Seq(RpcFrames)
  BY DEF RpcInv, StackOk
<1>2. Len(frames) \in Nat \ {0} /\ Len(frames) \in 1..Len(frames)
  BY <1>1
<1> QED BY <1>1, <1>2 DEF RpcInv, StackOk, Top

LEMMA StackSame == RpcInv /\ frames' = frames => StackLater
<1> SUFFICES ASSUME RpcInv, frames' = frames PROVE StackLater
  OBVIOUS
<1>1. frames \in Seq(RpcFrames)
  BY DEF RpcInv, StackOk
<1> QED BY <1>1 DEF StackLater

LEMMA Replaced ==
  ASSUME RpcInv, frames # <<>>, NEW g \in RpcFrames, FrameOk(g)', Replace(g)
  PROVE  StackLater
<1>1. frames \in Seq(RpcFrames) /\ Len(frames) \in Nat \ {0}
  BY TopIsOk
<1>2. frames' = [frames EXCEPT ![Len(frames)] = g]
  BY DEF Replace
<1>3. /\ frames' \in Seq(RpcFrames) /\ Len(frames') = Len(frames)
      /\ frames'[Len(frames)] = g
      /\ \A k \in 1..Len(frames) : k # Len(frames) => frames'[k] = frames[k]
  BY <1>1, <1>2
<1>4. ASSUME NEW k \in 1..Len(frames')
      PROVE  \/ \E j \in 1..Len(frames) : frames'[k] = frames[j]
             \/ \E fr \in RpcFrames : frames'[k] = fr /\ FrameOk(fr)'
  BY <1>3
<1> QED BY <1>3, <1>4 DEF StackLater

LEMMA FrontOfSequence ==
  ASSUME NEW S, NEW s \in Seq(S), s # <<>>
  PROVE  /\ SubSeq(s, 1, Len(s) - 1) \in Seq(S)
         /\ Len(SubSeq(s, 1, Len(s) - 1)) = Len(s) - 1
         /\ \A k \in 1..(Len(s) - 1) : SubSeq(s, 1, Len(s) - 1)[k] = s[k]
<1>1. Len(s) \in Nat \ {0} /\ s[Len(s)] \in S
  OBVIOUS
<1> QED BY <1>1, SubSeqProperties

LEMMA PoppedFrames ==
  ASSUME RpcInv, frames # <<>>, frames' = Front(frames)
  PROVE  StackLater
<1>1. frames \in Seq(RpcFrames) /\ Len(frames) \in Nat \ {0}
  BY TopIsOk
<1>2. /\ frames' \in Seq(RpcFrames) /\ Len(frames') = Len(frames) - 1
      /\ \A k \in 1..(Len(frames) - 1) : frames'[k] = frames[k]
  <2>1. frames' = SubSeq(frames, 1, Len(frames) - 1)
    BY DEF Front
  <2> QED BY <1>1, <2>1, FrontOfSequence
<1>3. \A k \in 1..Len(frames') : k \in 1..Len(frames) /\ frames'[k] = frames[k]
  BY <1>1, <1>2
<1> QED BY <1>2, <1>3 DEF StackLater

\* The wait of a frame ends; an update's own good answer means that it was told.
LEMMA RestOk ==
  ASSUME RpcInv, Later, NEW t \in RpcFrames, FrameOk(t), NEW how \in {"own", "other", "failed"},
         how = "own" /\ t.at = "update" => \A f \in t.bits : Told(t.seen[f]),
         transport = "http" => how # "other"
  PROVE  [t EXCEPT !.rest = how] \in RpcFrames /\ FrameOk([t EXCEPT !.rest = how])'
<1> DEFINE g == [t EXCEPT !.rest = how]
<1>1. /\ g \in RpcFrames /\ g.rest = how /\ g.at = t.at /\ g.bits = t.bits
      /\ g.seen = t.seen /\ g.awaits = t.awaits
  BY DEF RpcFrames
<1> HIDE DEF g
<1>2. FrameOk(g)
  BY <1>1 DEF FrameOk
<1>3. FrameOk(g)'
  BY <1>1, <1>2, FrameLater
<1> QED BY <1>1, <1>3 DEF g

\* A new call and the frame that waits for it.
LEMMA AskedFrame ==
  ASSUME RpcInv, NEW stage \in CallKinds \cup {"again"}, NEW session \in Nat,
         NEW bits \in SUBSET Params, NEW seen \in Seen,
         NEW kind, NEW named, NEW values, NEW taken, NEW answered,
         Ask(kind, named, values, taken, answered),
         transport' = transport, answers' \subseteq answers,
         stage \in {"update", "delete"} => \A f \in bits : Executed(seen[f])',
         stage = "update" => /\ kind = "update" /\ named = bits
                          /\ \A f \in bits : Says(seen[f], values[f])
  PROVE  \E g \in RpcFrames : g = Frame(stage, session, bits, seen) /\ FrameOk(g)'
<1> DEFINE call == [id |-> made + 1, kind |-> kind, bits |-> named, values |-> values,
                    seen |-> taken, answered |-> answered]
<1>a. PICK c : c = call
  OBVIOUS
<1>b. /\ made' = made + 1 /\ requests' = requests \cup {c}
      /\ c.id = made + 1 /\ c.kind = kind /\ c.bits = named /\ c.values = values
  BY <1>a DEF Ask
<1> HIDE DEF call
<1>0. PICK g \in RpcFrames : g = Frame(stage, session, bits, seen)
  <2>1. made + 1 \in Nat
    BY DEF RpcInv
  <2>2. Frame(stage, session, bits, seen) \in RpcFrames
    BY <2>1 DEF Frame, RpcFrames
  <2> QED BY <2>2
<1>1. /\ g.at = stage /\ g.bits = bits /\ g.seen = seen /\ g.awaits = made + 1 /\ g.rest = "waits"
      /\ made \in Nat
  BY <1>0 DEF Frame, RpcInv
<1>2. made + 1 <= made'
  BY <1>1, <1>b
<1>3. \A r \in requests' : r.id = made + 1 => r = c
  <2>1. \A r \in requests : r.id \in Nat /\ r.id <= made
    BY DEF RpcInv, RequestOk
  <2> QED BY <1>1, <1>b, <2>1
<1>4. \A a \in answers' : a.id # made + 1
  <2>1. \A a \in answers : a.id \in Nat /\ a.id <= made
    BY DEF RpcInv, AnswerOk
  <2> QED BY <1>1, <2>1
<1>5. FrameOk(g)'
  <2>1. g.awaits <= made' /\ (transport' = "http" => g.rest # "other")
    BY <1>1, <1>2
  <2>2. g.at \in {"update", "delete"} => \A f \in g.bits : Executed(g.seen[f])'
    BY <1>1
  <2>3. g.at = "update" => \A r \in requests' : r.id = g.awaits =>
          /\ r.kind = "update" /\ r.bits = g.bits
          /\ \A f \in g.bits : Says(g.seen[f], r.values[f])
    BY <1>1, <1>3, <1>b
  <2>4. g.at = "update" => \A a \in answers' : ~(a.id = g.awaits)
    BY <1>1, <1>4
  <2>5. g.rest # "own"
    BY <1>1
  <2> QED BY <2>1, <2>2, <2>3, <2>4, <2>5 DEF FrameOk
<1> QED BY <1>0, <1>5

-----------------------------------------------------------------------------
(* Calls *)

LEMMA AskedLater ==
  ASSUME RpcInv, NEW kind, NEW bits, NEW values, NEW seen, NEW answered,
         Ask(kind, bits, values, seen, answered),
         transport' = transport, answers' \subseteq answers,
         executed \subseteq executed', told \subseteq told'
  PROVE  Later
<1>1. made \in Nat /\ made' = made + 1
  BY DEF Ask, RpcInv
<1>2. \A r \in requests' : r \in requests \/ r.id = made + 1
  BY DEF Ask
<1> QED BY <1>1, <1>2 DEF Later

\* A step that makes a call and puts a frame in the place of the innermost one, or above it.
LEMMA AskedKeeps ==
  ASSUME RpcInv, NEW kind \in CallKinds, NEW bits \in SUBSET Params, NEW values, NEW seen \in Seen,
         NEW answered, Ask(kind, bits, values, seen, answered),
         UNCHANGED <<transport, desired, commands>>,
         answers' \subseteq answers, told' = told, executed \subseteq executed', StackLater,
         kind = "delete" => \A f \in bits :
           /\ Executed(seen[f])'
           /\ transport = "http" \/ answered => Told(seen[f])
  PROVE  RpcInv'
<1> DEFINE call == [id |-> made + 1, kind |-> kind, bits |-> bits, values |-> values,
                    seen |-> seen, answered |-> answered]
<1>1. made \in Nat /\ made' = made + 1 /\ requests' = requests \cup {call}
  BY DEF Ask, RpcInv
<1>2. PICK c : c = call
  OBVIOUS
<1>3. /\ c.id = made + 1 /\ c.kind = kind /\ c.bits = bits
      /\ c.values = values /\ c.seen = seen /\ c.answered = answered
  BY <1>2
<1> HIDE DEF call
<1>4. Later
  BY <1>1, <1>2, <1>3 DEF Later
<1>5. \A n : Told(n) => n \in told \/ (n \in Fractions \cup Ones /\ -n \in told)
  BY DEF Told, Says
<1>6. RequestOk(c)'
  <2>1. made + 1 \in Nat /\ c.id <= made'
    BY <1>1, <1>3
  <2>2. kind = "delete" => \A f \in bits : Executed(seen[f])' /\ WasTold(c, seen[f])'
    BY <1>3, <1>5 DEF WasTold
  <2> QED BY <1>1, <1>3, <2>1, <2>2 DEF RequestOk
<1>7. \A r \in requests' : r \in requests \/ RequestOk(r)'
  BY <1>1, <1>2, <1>6
<1> QED BY <1>4, <1>7, RpcStep DEF StackLater, RpcInv

-----------------------------------------------------------------------------
(* Steps *)

LEMMA NothingSeen == Nothing \in Seen
BY DEF Nothing, Seen

LEMMA FewerLater ==
  ASSUME RpcInv, UNCHANGED <<transport, made, executed, told>>,
         requests' \subseteq requests, answers' \subseteq answers
  PROVE  Later
BY DEF Later, RpcInv

LEMMA FewerKeeps ==
  ASSUME RpcInv, UNCHANGED <<transport, made, executed, told>>,
         requests' \subseteq requests, answers' \subseteq answers,
         desired' \in Seen, commands' \in Nat, StackLater
  PROVE  RpcInv'
BY FewerLater, RpcStep DEF StackLater

\* A get, an update or a delete in either dialect.
LEMMA GetAsks == Get => Ask("get", {}, Nothing, Nothing, FALSE)
BY DEF Get, DoRpcGet, DoCoapGet

LEMMA StartRoundKeeps == RpcInv /\ StartRound => RpcInv'
<1> SUFFICES ASSUME RpcInv, StartRound PROVE RpcInv'
  OBVIOUS
<1>1. /\ Ask("get", {}, Nothing, Nothing, FALSE)
      /\ frames' = <<Frame("get", 0, {}, Nothing)>>
      /\ UNCHANGED <<transport, desired, told, executed, commands, answers>>
  BY GetAsks DEF StartRound
<1>2. "get" \in CallKinds /\ "get" \in CallKinds \cup {"again"} /\ {} \in SUBSET Params /\ 0 \in Nat
  BY DEF CallKinds
<1>4. PICK g \in RpcFrames : g = Frame("get", 0, {}, Nothing) /\ FrameOk(g)'
  BY <1>1, <1>2, NothingSeen, AskedFrame
<1>5. StackLater
  <2>1. frames' = <<g>>
    BY <1>1, <1>4
  <2>2. frames' \in Seq(RpcFrames) /\ Len(frames') = 1 /\ frames'[1] = g
    BY <2>1
  <2> QED BY <1>4, <2>2 DEF StackLater
<1> QED BY <1>1, <1>2, <1>5, NothingSeen, AskedKeeps

LEMMA CallFailsKeeps == RpcInv /\ CallFails => RpcInv'
<1> SUFFICES ASSUME RpcInv, CallFails PROVE RpcInv'
  OBVIOUS
<1>1. /\ frames # <<>> /\ Replace([Top EXCEPT !.rest = "failed"])
      /\ UNCHANGED <<transport, desired, told, executed, commands, requests, answers, made>>
  BY DEF CallFails, Rests
<1>2. PICK t \in RpcFrames : Top = t /\ FrameOk(t)
  BY <1>1, TopIsOk
<1>3. Later
  BY <1>1, FewerLater
<1>4. [t EXCEPT !.rest = "failed"] \in RpcFrames /\ FrameOk([t EXCEPT !.rest = "failed"])'
  BY <1>2, <1>3, RestOk
<1>5. StackLater
  BY <1>1, <1>2, <1>4, Replaced
<1> QED BY <1>1, <1>5, FewerKeeps DEF RpcInv

LEMMA ReturnsKeeps == RpcInv /\ Returns => RpcInv'
<1> SUFFICES ASSUME RpcInv, Returns PROVE RpcInv'
  OBVIOUS
<1>1. StackLater
  BY PoppedFrames DEF Returns
<1> QED BY <1>1, FewerKeeps DEF Returns, RpcInv

LEMMA NetworkKeeps ==
  RpcInv /\ (NetworkLoses \/ (\E f \in Params : Console(f)) \/ (\E i \in live : SessionExpires(i))
             \/ UNCHANGED rpcVars) => RpcInv'
<1> SUFFICES ASSUME RpcInv,
                    NetworkLoses \/ (\E f \in Params : Console(f)) \/ (\E i \in live : SessionExpires(i))
                    \/ UNCHANGED rpcVars
             PROVE  RpcInv'
  OBVIOUS
<1>1. StackLater
  BY StackSame DEF NetworkLoses, Console, SessionExpires, rpcVars
<1>2. /\ UNCHANGED <<transport, made, executed, told>>
      /\ requests' \subseteq requests /\ answers' \subseteq answers
  BY DEF NetworkLoses, Console, SessionExpires, rpcVars
<1>3. desired' \in Seen /\ commands' \in Nat
  <2>1. CASE \E f \in Params : Console(f)
    BY <2>1 DEF Console, RpcInv, Seen
  <2>2. CASE ~\E f \in Params : Console(f)
    BY <2>2 DEF NetworkLoses, SessionExpires, rpcVars, RpcInv
  <2> QED BY <2>1, <2>2
<1> QED BY <1>1, <1>2, <1>3, FewerKeeps

LEMMA ServerKeeps ==
  ASSUME RpcInv, NEW r \in requests, ServerHandles(r) \/ ServerRefuses(r)
  PROVE  RpcInv'
<1>1. PICK ok \in BOOLEAN :
        /\ answers' = answers \cup {Reply(r, ok)} /\ requests' = requests \ {r}
        /\ ok /\ r.kind = "update" => told' = told \cup {r.values[f] : f \in r.bits}
        /\ told \subseteq told'
  <2>1. CASE ServerHandles(r)
    BY <2>1 DEF ServerHandles
  <2>2. CASE ServerRefuses(r)
    BY <2>2 DEF ServerRefuses
  <2> QED BY <2>1, <2>2
<1>2. UNCHANGED <<transport, executed, commands, frames, made>>
  BY DEF ServerHandles, ServerRefuses
<1>3. PICK a : a = Reply(r, ok)
  OBVIOUS
<1>4. a.id = r.id /\ a.ok = ok /\ a.desired \in Seen
  <2>1. a.desired = IF r.kind = "get" THEN desired ELSE Nothing
    BY <1>3 DEF Reply
  <2> QED BY <1>3, <2>1, NothingSeen DEF Reply, RpcInv
<1>5. Honest(a)
  BY <1>1, <1>4 DEF Honest
<1>6. Later
  BY <1>1, <1>2, <1>3, <1>5 DEF Later, RpcInv
<1>7. RequestOk(r)
  BY DEF RpcInv
<1>8. AnswerOk(a)'
  BY <1>2, <1>4, <1>7 DEF AnswerOk, RequestOk
<1>9. desired' \in Seen
  <2>1. CASE ServerHandles(r)
    BY <2>1 DEF ServerHandles, RpcInv, Seen
  <2>2. CASE ServerRefuses(r)
    BY <2>2 DEF ServerRefuses, RpcInv
  <2> QED BY <2>1, <2>2
<1>10. StackLater
  BY <1>2, StackSame
<1> QED BY <1>1, <1>2, <1>3, <1>6, <1>8, <1>9, <1>10, RpcStep DEF StackLater, RpcInv

\* What is taken over counts as executed, and an update says it, or its negation where the
\* device took or tells another value.
LEMMA TakeOverExecutes ==
  ASSUME RpcInv, NEW d \in Seen, TakeOver(d), transport' = transport
  PROVE  executed \subseteq executed' /\ \A f \in DesiredBits(d) : Executed(d[f])'
<1>1. ASSUME NEW f \in Fitting(d)
      PROVE  TakenOver(d)[f] = d[f] \/ (transport = "coap" /\ d[f] \in Ones)
  <2>1. f \in Params
    BY DEF Fitting
  <2> QED BY <1>1, <2>1 DEF TakenOver, ProcessDesired, CoapProcessDesired, RpcInv
<1>2. executed' = executed \cup {d[f] : f \in {g \in Fitting(d) : TakenOver(d)[g] = d[g]}}
  BY DEF TakeOver
<1>3. ASSUME NEW f \in Fitting(d) PROVE Executed(d[f])'
  BY <1>1, <1>2 DEF Executed
<1> QED BY <1>2, <1>3 DEF DesiredBits

LEMMA UpdateAsks ==
  ASSUME RpcInv, NEW d \in Seen, Update(DesiredBits(d), TakenOver(d), d)
  PROVE  /\ DesiredBits(d) \in SUBSET Params
         /\ \E values : /\ Ask("update", DesiredBits(d), values, d, FALSE)
                        /\ \A f \in DesiredBits(d) : Says(d[f], values[f])
<1>1. \A f \in DesiredBits(d) : f \in Params /\ f \in Fitting(d)
  BY DEF DesiredBits, Fitting
<1>2. CASE transport = "http"
  <2> DEFINE values == [f \in Params |-> IF TakenOver(d)[f] \in Fractions THEN -TakenOver(d)[f]
                                         ELSE TakenOver(d)[f]]
  <2>1. Ask("update", DesiredBits(d), values, d, FALSE)
    BY <1>2 DEF Update, DoRpcUpdate
  <2>2. ASSUME NEW f \in DesiredBits(d) PROVE Says(d[f], values[f])
    <3>1. TakenOver(d)[f] = d[f]
      BY <1>1, <1>2 DEF TakenOver, ProcessDesired
    <3>2. values[f] = IF d[f] \in Fractions THEN -d[f] ELSE d[f]
      BY <1>1, <3>1
    <3> QED BY <3>2 DEF Says
  <2> HIDE DEF values
  <2> QED BY <1>1, <2>1, <2>2
<1>3. CASE transport # "http"
  <2>1. Ask("update", DesiredBits(d), TakenOver(d), d, FALSE)
    BY <1>3 DEF Update, DoCoapUpdate
  <2>2. ASSUME NEW f \in DesiredBits(d) PROVE Says(d[f], TakenOver(d)[f])
    <3>1. TakenOver(d)[f] = IF d[f] \in Ones THEN -d[f] ELSE d[f]
      BY <1>1, <1>3 DEF TakenOver, CoapProcessDesired
    <3> QED BY <3>1 DEF Says
  <2> QED BY <1>1, <2>1, <2>2
<1> QED BY <1>2, <1>3

LEMMA HttpAnswerKeeps == ASSUME RpcInv, NEW a \in answers, HttpAnswer(a) PROVE RpcInv'
<1>1. /\ frames # <<>> /\ transport = "http" /\ Top.rest = "waits" /\ a.id = Top.awaits
      /\ answers' = answers \ {a} /\ UNCHANGED <<transport, desired, told, commands>>
  BY DEF HttpAnswer, Running
<1>2. PICK t \in RpcFrames : Top = t /\ FrameOk(t)
  BY <1>1, TopIsOk
<1>3. CASE Top.at # "get" \/ ~a.ok \/ DesiredBits(a.desired) = {}
  <2>1. PICK how \in {"own", "failed"} : how = IF a.ok THEN "own" ELSE "failed"
    OBVIOUS
  <2>2. Replace([Top EXCEPT !.rest = how]) /\ UNCHANGED <<executed, requests, made>>
    BY <1>3, <2>1 DEF HttpAnswer, Rests
  <2>3. Later
    BY <1>1, <2>2, FewerLater
  <2>4. how = "own" /\ t.at = "update" => \A f \in t.bits : Told(t.seen[f])
    BY <1>1, <1>2, <2>1 DEF FrameOk
  <2>5. [t EXCEPT !.rest = how] \in RpcFrames /\ FrameOk([t EXCEPT !.rest = how])'
    BY <1>2, <2>3, <2>4, RestOk
  <2>6. StackLater
    BY <1>1, <1>2, <2>2, <2>5, Replaced
  <2>7. answers' \subseteq answers /\ requests' \subseteq requests /\ desired' \in Seen /\ commands' \in Nat
    BY <1>1, <2>2 DEF RpcInv
  <2> QED BY <1>1, <2>2, <2>6, <2>7, FewerKeeps
<1>4. CASE ~(Top.at # "get" \/ ~a.ok \/ DesiredBits(a.desired) = {})
  <2>1. PICK d \in Seen : d = a.desired
    BY DEF RpcInv, AnswerOk
  <2>2. /\ TakeOver(d) /\ Update(DesiredBits(d), TakenOver(d), d)
        /\ Replace(Frame("update", 0, DesiredBits(d), d))
    BY <1>4, <2>1 DEF HttpAnswer
  <2>3. executed \subseteq executed' /\ \A f \in DesiredBits(d) : Executed(d[f])'
    BY <1>1, <2>2, TakeOverExecutes
  <2>4. DesiredBits(d) \in SUBSET Params
    BY <2>2, UpdateAsks
  <2>5. PICK values : /\ Ask("update", DesiredBits(d), values, d, FALSE)
                      /\ \A f \in DesiredBits(d) : Says(d[f], values[f])
    BY <2>2, UpdateAsks
  <2>6. "update" \in CallKinds /\ "update" \in CallKinds \cup {"again"} /\ 0 \in Nat
        /\ answers' \subseteq answers
    BY <1>1 DEF CallKinds
  <2>7. PICK g \in RpcFrames : g = Frame("update", 0, DesiredBits(d), d) /\ FrameOk(g)'
    BY <1>1, <2>3, <2>4, <2>5, <2>6, AskedFrame
  <2>8. StackLater
    BY <1>1, <2>2, <2>7, Replaced
  <2> QED BY <1>1, <2>3, <2>4, <2>5, <2>6, <2>8, AskedKeeps
<1> QED BY <1>3, <1>4

\* The yield of the innermost frame ends with another's message, whose callback goes above it.
LEMMA Nested ==
  ASSUME RpcInv, frames # <<>>, NEW h \in RpcFrames, FrameOk(h)',
         NEW g \in RpcFrames, FrameOk(g)',
         frames' = Append([frames EXCEPT ![Len(frames)] = h], g)
  PROVE  StackLater
<1>1. frames \in Seq(RpcFrames) /\ Len(frames) \in Nat \ {0}
  BY TopIsOk
<1> DEFINE below == [frames EXCEPT ![Len(frames)] = h]
<1>2. /\ below \in Seq(RpcFrames) /\ Len(below) = Len(frames)
      /\ below[Len(frames)] = h
      /\ \A k \in 1..Len(frames) : k # Len(frames) => below[k] = frames[k]
  BY <1>1
<1>3. frames' = Append(below, g)
  OBVIOUS
<1> HIDE DEF below
<1>4. /\ frames' \in Seq(RpcFrames) /\ Len(frames') = Len(frames) + 1 /\ frames'[Len(frames) + 1] = g
      /\ \A k \in 1..Len(frames) : frames'[k] = below[k]
  BY <1>1, <1>2, <1>3
<1>5. ASSUME NEW k \in 1..Len(frames')
      PROVE  \/ \E j \in 1..Len(frames) : frames'[k] = frames[j]
             \/ \E fr \in RpcFrames : frames'[k] = fr /\ FrameOk(fr)'
  BY <1>1, <1>2, <1>4
<1> QED BY <1>4, <1>5 DEF StackLater

LEMMA GetHandlerKeeps ==
  ASSUME RpcInv, NEW a \in answers, CoapMessage(a), GetHandler(a)
  PROVE  RpcInv'
<1>1. /\ frames # <<>> /\ transport = "coap"
      /\ answers' \subseteq answers /\ UNCHANGED <<transport, desired, told, commands>>
  BY DEF CoapMessage, Running
<1>2. PICK t \in RpcFrames : Top = t /\ FrameOk(t)
  BY <1>1, TopIsOk
<1>3. PICK d \in Seen : d = a.desired
  BY DEF RpcInv, AnswerOk
<1>4. PICK id \in Nat : id = a.id
  BY DEF RpcInv, AnswerOk
<1>5. /\ TakeOver(d) /\ Update(DesiredBits(d), TakenOver(d), d)
      /\ frames' = Append([frames EXCEPT ![Len(frames)].rest = "other"],
                          Frame("update", id, DesiredBits(d), d))
  BY <1>3, <1>4 DEF GetHandler
<1>6. executed \subseteq executed' /\ \A f \in DesiredBits(d) : Executed(d[f])'
  BY <1>1, <1>5, TakeOverExecutes
<1>7. DesiredBits(d) \in SUBSET Params
  BY <1>5, UpdateAsks
<1>8. PICK values : /\ Ask("update", DesiredBits(d), values, d, FALSE)
                    /\ \A f \in DesiredBits(d) : Says(d[f], values[f])
  BY <1>5, UpdateAsks
<1>9. "update" \in CallKinds /\ "update" \in CallKinds \cup {"again"} /\ told \subseteq told'
  BY <1>1 DEF CallKinds
<1>10. PICK g \in RpcFrames : g = Frame("update", id, DesiredBits(d), d) /\ FrameOk(g)'
  BY <1>1, <1>6, <1>7, <1>8, <1>9, AskedFrame
<1>11. Later
  BY <1>1, <1>6, <1>8, <1>9, AskedLater
<1>12. PICK h \in RpcFrames : h = [t EXCEPT !.rest = "other"] /\ FrameOk(h)'
  <2>1. [t EXCEPT !.rest = "other"] \in RpcFrames /\ FrameOk([t EXCEPT !.rest = "other"])'
    BY <1>1, <1>2, <1>11, RestOk
  <2> QED BY <2>1
<1>13. StackLater
  <2>1. frames' = Append([frames EXCEPT ![Len(frames)] = h], g)
    BY <1>2, <1>5, <1>10, <1>12 DEF Top
  <2> QED BY <1>1, <1>10, <1>12, <2>1, Nested
<1> QED BY <1>1, <1>6, <1>7, <1>8, <1>9, <1>13, AskedKeeps

LEMMA OtherHandlerKeeps ==
  ASSUME RpcInv, NEW a \in answers, CoapMessage(a), OtherHandler(a)
  PROVE  RpcInv'
<1>1. /\ frames # <<>> /\ transport = "coap" /\ answers' \subseteq answers
      /\ UNCHANGED <<transport, desired, told, commands, executed, requests, made>>
  BY DEF CoapMessage, Running, OtherHandler
<1>2. PICK t \in RpcFrames : Top = t /\ FrameOk(t)
  BY <1>1, TopIsOk
<1>3. PICK how \in {"own", "other"} :
        how = IF a.id = Top.awaits /\ a.ok THEN "own" ELSE "other"
  OBVIOUS
<1>4. Replace([Top EXCEPT !.rest = how])
  BY <1>3 DEF OtherHandler, Rests
<1>5. Later
  BY <1>1, FewerLater
<1>6. how = "own" /\ t.at = "update" => \A f \in t.bits : Told(t.seen[f])
  BY <1>2, <1>3 DEF FrameOk
<1>7. [t EXCEPT !.rest = how] \in RpcFrames /\ FrameOk([t EXCEPT !.rest = how])'
  BY <1>1, <1>2, <1>5, <1>6, RestOk
<1>8. StackLater
  BY <1>1, <1>2, <1>4, <1>7, Replaced
<1>9. requests' \subseteq requests /\ desired' \in Seen /\ commands' \in Nat
  BY <1>1 DEF RpcInv
<1> QED BY <1>1, <1>8, <1>9, FewerKeeps

LEMMA ThenDeleteKeeps == RpcInv /\ ThenDelete => RpcInv'
<1> SUFFICES ASSUME RpcInv, ThenDelete PROVE RpcInv'
  OBVIOUS
<1>1. /\ frames # <<>> /\ Top.at = "update" /\ Top.rest \in {"own", "other"}
      /\ Delete(Top.bits, Top.seen) /\ Replace(Frame("delete", Top.session, Top.bits, Top.seen))
      /\ UNCHANGED <<transport, desired, told, executed, commands, answers>>
  BY DEF ThenDelete, UpdateEnded
<1>2. PICK t \in RpcFrames : Top = t /\ FrameOk(t)
  BY <1>1, TopIsOk
<1>3. /\ t.session \in Nat /\ t.bits \in SUBSET Params /\ t.seen \in Seen
      /\ \A f \in t.bits : Executed(t.seen[f])
  BY <1>1, <1>2 DEF RpcFrames, FrameOk
<1>4. PICK answered \in BOOLEAN :
        /\ Ask("delete", t.bits, Nothing, t.seen, answered)
        /\ transport = "http" \/ answered => t.rest = "own"
  <2>1. CASE transport = "http"
    <3>1. Ask("delete", t.bits, Nothing, t.seen, TRUE)
      BY <1>1, <1>2, <2>1 DEF Delete, DoRpcDelete
    <3>2. t.rest = "own"
      BY <1>1, <1>2, <2>1 DEF FrameOk
    <3> QED BY <3>1, <3>2
  <2>2. CASE transport # "http"
    <3>1. Ask("delete", t.bits, Nothing, t.seen, t.rest = "own")
      BY <1>1, <1>2, <2>2 DEF Delete, DoCoapDelete
    <3> QED BY <2>2, <3>1
  <2> QED BY <2>1, <2>2
<1>5. /\ \A f \in t.bits : Executed(t.seen[f])'
      /\ transport = "http" \/ answered => \A f \in t.bits : Told(t.seen[f])
  BY <1>1, <1>2, <1>3, <1>4 DEF Executed, FrameOk
<1>6. "delete" \in CallKinds /\ "delete" \in CallKinds \cup {"again"} /\ answers' \subseteq answers
  BY <1>1 DEF CallKinds
<1>7. PICK g \in RpcFrames : g = Frame("delete", t.session, t.bits, t.seen) /\ FrameOk(g)'
  BY <1>1, <1>3, <1>4, <1>5, <1>6, AskedFrame
<1>8. StackLater
  BY <1>1, <1>2, <1>7, Replaced
<1> QED BY <1>1, <1>3, <1>4, <1>5, <1>6, <1>8, NothingSeen, AskedKeeps

LEMMA ThenGetAgainKeeps == RpcInv /\ ThenGetAgain => RpcInv'
<1> SUFFICES ASSUME RpcInv, ThenGetAgain PROVE RpcInv'
  OBVIOUS
<1>1. /\ frames # <<>> /\ Ask("get", {}, Nothing, Nothing, FALSE)
      /\ Replace(Frame("again", Top.session, {}, Nothing))
      /\ UNCHANGED <<transport, desired, told, executed, commands, answers>>
  BY GetAsks DEF ThenGetAgain
<1>2. PICK t \in RpcFrames : Top = t /\ FrameOk(t)
  BY <1>1, TopIsOk
<1>3. /\ t.session \in Nat /\ {} \in SUBSET Params /\ answers' \subseteq answers
      /\ "get" \in CallKinds /\ "again" \in CallKinds \cup {"again"}
  BY <1>1 DEF RpcFrames, CallKinds
<1>4. PICK g \in RpcFrames : g = Frame("again", t.session, {}, Nothing) /\ FrameOk(g)'
  BY <1>1, <1>3, NothingSeen, AskedFrame
<1>5. StackLater
  BY <1>1, <1>2, <1>4, Replaced
<1> QED BY <1>1, <1>3, <1>5, NothingSeen, AskedKeeps

LEMMA RpcInvInit == RpcInit => RpcInv
<1> SUFFICES ASSUME RpcInit PROVE RpcInv
  OBVIOUS
<1>1. frames = <<>> /\ frames \in Seq(RpcFrames) /\ Len(frames) = 0
  BY DEF RpcInit
<1>2. StackOk(frames)
  BY <1>1 DEF StackOk
<1>3. desired \in Seen
  BY NothingSeen DEF RpcInit
<1> QED BY <1>2, <1>3 DEF RpcInit, RpcInv

LEMMA RpcInvNext == RpcInv /\ [RpcNext]_rpcVars => RpcInv'
<1> SUFFICES ASSUME RpcInv, [RpcNext]_rpcVars PROVE RpcInv'
  OBVIOUS
<1>1. CASE StartRound
  BY <1>1, StartRoundKeeps
<1>2. CASE CallFails
  BY <1>2, CallFailsKeeps
<1>3. CASE ThenDelete
  BY <1>3, ThenDeleteKeeps
<1>4. CASE ThenGetAgain
  BY <1>4, ThenGetAgainKeeps
<1>5. CASE Returns
  BY <1>5, ReturnsKeeps
<1>6. ASSUME NEW a \in answers, HttpAnswer(a) PROVE RpcInv'
  BY <1>6, HttpAnswerKeeps
<1>7. ASSUME NEW a \in answers, CoapMessage(a) PROVE RpcInv'
  <2>1. GetHandler(a) \/ OtherHandler(a)
    BY <1>7 DEF CoapMessage
  <2> QED BY <1>7, <2>1, GetHandlerKeeps, OtherHandlerKeeps
<1>8. ASSUME NEW r \in requests, ServerHandles(r) \/ ServerRefuses(r) PROVE RpcInv'
  BY <1>8, ServerKeeps
<1>9. CASE NetworkLoses \/ (\E f \in Params : Console(f)) \/ (\E i \in live : SessionExpires(i))
           \/ UNCHANGED rpcVars
  BY <1>9, NetworkKeeps
<1> QED BY <1>1, <1>2, <1>3, <1>4, <1>5, <1>6, <1>7, <1>8, <1>9 DEF RpcNext

\* What a delete clears.
LEMMA ClearsOnlyHandled ==
  ASSUME RpcInv, [RpcNext]_rpcVars, NEW r \in requests, NEW n \in Cleared(r)
  PROVE  Overtaken(r, n) \/ (Executed(n) /\ WasTold(r, n))
<1>1. r \notin requests' /\ \E f \in r.bits : n = desired[f] /\ desired'[f] # desired[f]
  BY DEF Cleared
<1>2. desired' # desired
  BY <1>1
<1>3. PICK q \in requests : ServerHandles(q)
  <2>1. CASE \E f \in Params : Console(f)
    BY <1>1, <2>1 DEF Console
  <2>2. CASE ~\E f \in Params : Console(f)
    <3>1. ~\E a \in answers : HttpAnswer(a) \/ CoapMessage(a)
      BY <1>2 DEF HttpAnswer, CoapMessage
    <3>2. ~(StartRound \/ CallFails \/ ThenDelete \/ ThenGetAgain \/ Returns)
      BY <1>2 DEF StartRound, CallFails, ThenDelete, ThenGetAgain, Returns
    <3>3. ~(NetworkLoses \/ (\E i \in live : SessionExpires(i)) \/ UNCHANGED rpcVars)
      BY <1>2 DEF NetworkLoses, SessionExpires, rpcVars
    <3>4. ~\E q \in requests : ServerRefuses(q)
      BY <1>2 DEF ServerRefuses
    <3> QED BY <2>2, <3>1, <3>2, <3>3, <3>4 DEF RpcNext
  <2> QED BY <2>1, <2>2
<1>4. q = r /\ r.kind = "delete"
  BY <1>1, <1>2, <1>3 DEF ServerHandles
<1>5. \A f \in r.bits : Executed(r.seen[f]) /\ WasTold(r, r.seen[f])
  BY <1>4 DEF RpcInv, RequestOk
<1> QED BY <1>5 DEF Overtaken

RpcSpec == RpcInit /\ [][RpcNext]_rpcVars

\* A command leaves the server's desired state only after the device took it over and an
\* update told it, with any number of fields, commands, calls and nested callbacks: the
\* samples' order of get, update and delete makes it so, whatever is lost, late or repeated.
THEOREM CommandsAreHandled == RpcSpec => ClearedWasHandled
<1>1. RpcInv /\ [RpcNext]_rpcVars
        => [\A r \in requests : \A n \in Cleared(r) :
              Overtaken(r, n) \/ (Executed(n) /\ WasTold(r, n))]_rpcVars
  BY ClearsOnlyHandled
<1> QED BY <1>1, RpcInvInit, RpcInvNext, PTL DEF RpcSpec, ClearedWasHandled

-----------------------------------------------------------------------------
(* Delivery.  The levels of a text are where the slashes end them; matched, which *)
(* goes by characters, agrees with them level by level.                           *)

\* The level x stands in s from i; a slash is between it and the level at j.
Spelled(s, i, x) == \A t \in 1..Len(x) : s[i + t - 1] = x[t] /\ x[t] # "/"
Joined(s, i, x, j) == j = i + Len(x) + 1 /\ s[i + Len(x)] = "/"

\* Where the levels of s[1..k] begin.
Begin(a, ls, s, k) ==
  /\ a \in [1..Len(ls) -> Nat \ {0}] /\ a[1] = 1
  /\ \A m \in 1..Len(ls) - 1 : Joined(s, a[m], ls[m], a[m + 1])
  /\ a[Len(ls)] + Len(ls[Len(ls)]) = k + 1
  /\ \A m \in 1..Len(ls) : Spelled(s, a[m], ls[m])

Texts0 == Seq(STRING)
Splits == Seq(Texts0) \ {<<>>}
Split(ls, c) == IF c = "/" THEN Append(ls, <<>>) ELSE [ls EXCEPT ![Len(ls)] = Append(@, c)]
SplitStep == [z \in Splits \X STRING |-> Split(z[1], z[2])]

LEMMA ElementReplaced ==
  ASSUME NEW S, NEW seq \in Seq(S), NEW i \in 1..Len(seq), NEW e \in S, NEW t, t = [seq EXCEPT ![i] = e]
  PROVE  /\ t \in Seq(S) /\ Len(t) = Len(seq)
         /\ t[i] = e /\ \A j \in 1..Len(seq) : j # i => t[j] = seq[j]
<1>1. DOMAIN seq = 1..Len(seq) /\ seq \in [1..Len(seq) -> S] /\ Len(seq) \in Nat
  BY LenProperties
<1>2. t \in Seq(S) /\ Len(t) = Len(seq)
  BY ExceptSeq
<1>3. t[i] = e /\ \A j \in 1..Len(seq) : j # i => t[j] = seq[j]
  BY <1>1
<1> QED BY <1>2, <1>3

LEMMA SplitType ==
  ASSUME NEW ls \in Splits, NEW c \in STRING
  PROVE  /\ Split(ls, c) \in Splits /\ Len(ls) \in Nat \ {0}
         /\ c = "/" => /\ Len(Split(ls, c)) = Len(ls) + 1 /\ Split(ls, c)[Len(ls) + 1] = <<>>
                       /\ \A m \in 1..Len(ls) : Split(ls, c)[m] = ls[m]
         /\ c # "/" => /\ Len(Split(ls, c)) = Len(ls) /\ Split(ls, c)[Len(ls)] = Append(ls[Len(ls)], c)
                       /\ \A m \in 1..Len(ls) - 1 : Split(ls, c)[m] = ls[m]
<1>1. ls \in Seq(Texts0) /\ Len(ls) \in Nat /\ Len(ls) # 0
  BY EmptySeq, LenProperties DEF Splits
<1>2. Len(ls) \in 1..Len(ls)
  BY <1>1
<1>3. ls[Len(ls)] \in Texts0
  BY <1>1, <1>2, ElementOfSeq
<1>4. CASE c = "/"
  <2>1. <<>> \in Texts0
    BY EmptySeq DEF Texts0
  <2>2. PICK e \in Texts0 : e = <<>>
    BY <2>1
  <2>3. PICK t : t = Append(ls, e)
    OBVIOUS
  <2>4. t \in Seq(Texts0) /\ t # <<>> /\ Len(t) = Len(ls) + 1 /\ (\A i \in 1..Len(ls) : t[i] = ls[i]) /\ t[Len(ls) + 1] = e
    BY <1>1, <2>2, <2>3, AppendProperties
  <2>5. Split(ls, c) = t
    BY <1>4, <2>2, <2>3 DEF Split
  <2> QED BY <2>2, <2>4, <2>5, <1>1, <1>4 DEF Splits
<1>5. CASE c # "/"
  <2>0. PICK i \in 1..Len(ls) : i = Len(ls)
    BY <1>2
  <2>1. PICK e \in Texts0 : e = Append(ls[Len(ls)], c)
    BY <1>3, AppendProperties DEF Texts0
  <2>2. PICK t : t = [ls EXCEPT ![i] = e]
    OBVIOUS
  <2>3. /\ t \in Seq(Texts0) /\ Len(t) = Len(ls)
        /\ t[i] = e /\ \A j \in 1..Len(ls) : j # i => t[j] = ls[j]
    <3>1. ls \in Seq(Texts0) /\ i \in 1..Len(ls) /\ e \in Texts0 /\ t = [ls EXCEPT ![i] = e]
      BY ONLY <1>1, <2>0, <2>1, <2>2
    <3> QED BY ONLY <3>1, ElementReplaced
  <2>4. Split(ls, c) = t
    BY <1>5, <2>0, <2>1, <2>2 DEF Split
  <2>5. t # <<>>
    BY <2>3, <1>1, EmptySeq
  <2>6. t[Len(ls)] = e /\ \A m \in 1..Len(ls) - 1 : t[m] = ls[m]
    BY <2>0, <2>3, <1>1
  <2> QED BY <2>1, <2>3, <2>4, <2>5, <2>6, <1>1, <1>5 DEF Splits
<1> QED BY <1>4, <1>5

LEMMA OneLevel == <<(<<>>)>> \in Splits /\ Len(<<(<<>>)>>) = 1 /\ <<(<<>>)>>[1] = <<>> /\ Len(<<>>) = 0
<1>1. <<>> \in Texts0
  BY EmptySeq DEF Texts0
<1> QED BY <1>1 DEF Splits

LEMMA LevelsRun ==
  ASSUME NEW seq \in Seq(STRING)
  PROVE  RunsTo(Levels(seq), Splits, <<(<<>>)>>, SplitStep, seq)
<1> DEFINE D == SUBSET (DOMAIN seq)
           base == <<(<<>>)>>
<1>0. PICK n \in Nat : n = Len(seq) /\ DOMAIN seq = 1..n
  BY LenProperties
<1>1. SplitStep \in [Splits \X STRING -> Splits]
  BY SplitType DEF SplitStep
<1>2. PICK g : FoldsSets(g, Splits, base, SplitStep, seq)
  <2> HIDE DEF base
  <2>1. base \in Splits
    BY OneLevel DEF base
  <2> QED BY <1>1, <2>1, FoldExists
<1>3. \A s \in D : s # {} => Max(s) \in s /\ seq[Max(s)] \in STRING /\ s \ {Max(s)} \in D
  <2> TAKE s \in D
  <2> HAVE s # {}
  <2>1. s \in SUBSET (1..n)
    BY <1>0
  <2>2. Max(s) \in s
    BY <2>1, MaxOfInitial
  <2> QED BY <2>2, <1>0, ElementOfSeq
<1> DEFINE iter == CHOOSE f : f = [s \in D |-> IF s = {} THEN base ELSE Split(f[s \ {Max(s)}], seq[Max(s)])]
<1>4. g = [s \in D |-> IF s = {} THEN base ELSE Split(g[s \ {Max(s)}], seq[Max(s)])]
  <2> HIDE DEF base
  <2>1. ASSUME NEW s \in D, s # {} PROVE g[s] = Split(g[s \ {Max(s)}], seq[Max(s)])
    BY <2>1, <1>2, <1>3 DEF FoldsSets, SplitStep
  <2>2. g[{}] = base
    BY <1>2 DEF FoldsSets
  <2>3. g = [s \in D |-> g[s]]
    BY <1>2 DEF FoldsSets
  <2> QED BY <2>1, <2>2, <2>3
<1>5. iter = [s \in D |-> IF s = {} THEN base ELSE Split(iter[s \ {Max(s)}], seq[Max(s)])]
  <2> HIDE DEF base
  <2> QED BY <1>4
<1>6. Levels(seq) = iter[DOMAIN seq]
  BY DEF Levels, FoldLeft, MapThenFoldSet, Split
<1> HIDE DEF iter, base
<1> DEFINE V == Splits \cup {iter[s] : s \in D}
           succ == [z \in V \X STRING |-> Split(z[1], z[2])]
<1>7. iter = [s \in D |-> IF s = {} THEN base ELSE succ[<<iter[s \ {Max(s)}], seq[Max(s)]>>]]
  <2>1. ASSUME NEW s \in D, s # {} PROVE iter[s] = succ[<<iter[s \ {Max(s)}], seq[Max(s)]>>]
    BY <2>1, <1>3, <1>5
  <2>2. iter[{}] = base /\ iter = [s \in D |-> iter[s]]
    BY <1>5
  <2> QED BY <2>1, <2>2
<1>8. ASSUME NEW x \in Splits, NEW t \in STRING PROVE succ[<<x, t>>] = Split(x, t) /\ succ[<<x, t>>] \in Splits
  <2>1. x \in V
    OBVIOUS
  <2>2. succ[<<x, t>>] = Split(x, t)
    <3> HIDE DEF V
    <3> QED BY <2>1
  <2> HIDE DEF succ
  <2> QED BY <2>2, SplitType
<1>9. RunsTo(iter[DOMAIN seq], Splits, base, succ, seq)
  <2> HIDE DEF succ
  <2>1. base \in Splits
    BY OneLevel DEF base
  <2> QED BY <1>7, <1>8, <2>1, FoldRuns
<1>10. Agree(succ, SplitStep, Splits, STRING)
  BY <1>8 DEF SplitStep, Agree
<1> HIDE DEF succ
<1>11. RunsTo(iter[DOMAIN seq], Splits, base, SplitStep, seq)
  <2>1. base \in Splits
    BY OneLevel DEF base
  <2> QED BY <1>9, <1>10, <2>1, RunsByOther
<1> QED BY <1>6, <1>11 DEF base

LEMMA BeginNext ==
  ASSUME NEW s \in Seq(STRING), NEW k \in Nat, k + 1 <= Len(s), NEW ls \in Splits, NEW a, Begin(a, ls, s, k)
  PROVE  \E b : Begin(b, Split(ls, s[k + 1]), s, k + 1)
<1>0. Len(s) \in Nat /\ k + 1 \in 1..Len(s)
  BY LenProperties
<1>1. PICK c \in STRING : c = s[k + 1]
  BY <1>0, ElementOfSeq
<1>2. PICK p \in Nat \ {0} : p = Len(ls)
  BY <1>1, SplitType
<1>3. ls \in Seq(Texts0) /\ \A m \in 1..p : ls[m] \in Texts0 /\ Len(ls[m]) \in Nat
  BY <1>2, ElementOfSeq, LenProperties DEF Splits, Texts0
<1>4. /\ a \in [1..p -> Nat \ {0}] /\ a[1] = 1
      /\ \A m \in 1..p - 1 : Joined(s, a[m], ls[m], a[m + 1])
      /\ a[p] + Len(ls[p]) = k + 1
      /\ \A m \in 1..p : Spelled(s, a[m], ls[m])
  BY <1>2 DEF Begin
<1>5. PICK new : new = Split(ls, c)
  OBVIOUS
<1>6. CASE c = "/"
  <2>1. /\ Len(new) = p + 1 /\ new[p + 1] = <<>> /\ \A m \in 1..p : new[m] = ls[m]
    BY <1>2, <1>5, <1>6, SplitType
  <2> DEFINE b == [m \in 1..p + 1 |-> IF m = p + 1 THEN k + 2 ELSE a[m]]
  <2>2. b \in [1..p + 1 -> Nat \ {0}] /\ b[p + 1] = k + 2 /\ \A m \in 1..p : b[m] = a[m]
    BY <1>4
  <2> HIDE DEF b
  <2>3. b[1] = 1
    BY <2>2, <1>4
  <2>4. ASSUME NEW m \in 1..p PROVE Joined(s, b[m], new[m], b[m + 1])
    <3>0. b[m] = a[m] /\ new[m] = ls[m] /\ a[m] \in Nat /\ Len(ls[m]) \in Nat
      BY <2>1, <2>2, <1>3, <1>4
    <3>1. CASE m = p
      <4>1. a[m] + Len(ls[m]) = k + 1 /\ b[m + 1] = k + 2
        BY <3>1, <2>2, <1>4
      <4>2. b[m + 1] = a[m] + Len(ls[m]) + 1
        BY <4>1
      <4> QED BY <4>1, <4>2, <3>0, <1>1, <1>6 DEF Joined
    <3>2. CASE m # p
      <4>1. m \in 1..p - 1 /\ m + 1 \in 1..p
        BY <3>2
      <4> QED BY <3>0, <4>1, <2>2, <1>4
    <3> QED BY <3>1, <3>2
  <2>5. b[p + 1] + Len(new[p + 1]) = k + 1 + 1
    BY <2>1, <2>2, OneLevel
  <2>6. ASSUME NEW m \in 1..p + 1 PROVE Spelled(s, b[m], new[m])
    <3>1. CASE m = p + 1
      <4>1. 1..Len(new[m]) = {}
        BY <3>1, <2>1, OneLevel
      <4> QED BY <4>1 DEF Spelled
    <3>2. CASE m # p + 1
      <4>1. m \in 1..p
        BY <3>2
      <4> QED BY <4>1, <2>1, <2>2, <1>4
    <3> QED BY <3>1, <3>2
  <2>7. p + 1 - 1 = p
    OBVIOUS
  <2>8. Begin(b, new, s, k + 1)
    BY <2>1, <2>2, <2>3, <2>4, <2>5, <2>6, <2>7 DEF Begin
  <2> QED BY <2>8, <1>1, <1>5
<1>7. CASE c # "/"
  <2>1. /\ Len(new) = p /\ new[p] = Append(ls[p], c) /\ \A m \in 1..p - 1 : new[m] = ls[m]
    BY <1>2, <1>5, <1>7, SplitType
  <2>2. PICK x \in Texts0 : x = ls[p]
    BY <1>3
  <2>3. PICK y : y = Append(x, c)
    OBVIOUS
  <2>a. x \in Seq(STRING)
    BY DEF Texts0
  <2>4. Len(x) \in Nat /\ Len(y) = Len(x) + 1 /\ y[Len(x) + 1] = c /\ \A t \in 1..Len(x) : y[t] = x[t]
    BY <2>a, <2>3, <1>1, AppendProperties, LenProperties
  <2>5. new[p] = y
    BY <2>1, <2>2, <2>3
  <2>6. \A m \in 1..p - 1 : Joined(s, a[m], new[m], a[m + 1])
    BY <2>1, <1>4
  <2>7. a[p] + Len(new[p]) = k + 1 + 1
    <3>1. p \in 1..p /\ a[p] \in Nat
      BY <1>4
    <3> QED BY <3>1, <2>2, <2>4, <2>5, <1>4
  <2>8. ASSUME NEW m \in 1..p PROVE Spelled(s, a[m], new[m])
    <3>1. CASE m # p
      <4>1. m \in 1..p - 1
        BY <3>1
      <4> QED BY <4>1, <2>1, <1>4
    <3>2. CASE m = p
      <4>1. p \in 1..p /\ a[p] \in Nat /\ Spelled(s, a[p], x)
        BY <2>2, <1>4
      <4>2. ASSUME NEW t \in 1..Len(y) PROVE s[a[p] + t - 1] = y[t] /\ y[t] # "/"
        <5>1. CASE t = Len(x) + 1
          <6>1. a[p] + t - 1 = k + 1
            BY <5>1, <4>1, <2>2, <2>4, <1>4
          <6> QED BY <5>1, <6>1, <2>4, <1>1, <1>7
        <5>2. CASE t # Len(x) + 1
          <6>1. t \in 1..Len(x)
            BY <5>2, <2>4
          <6> QED BY <6>1, <4>1, <2>4 DEF Spelled
        <5> QED BY <5>1, <5>2
      <4>3. Spelled(s, a[p], y)
        BY <4>2 DEF Spelled
      <4> QED BY <4>3, <3>2, <2>5
    <3> QED BY <3>1, <3>2
  <2>9. Begin(a, new, s, k + 1)
    BY <2>1, <2>6, <2>7, <2>8, <1>4 DEF Begin
  <2> QED BY <2>9, <1>1, <1>5
<1> QED BY <1>6, <1>7

LEMMA LevelsBegin ==
  ASSUME NEW s \in Seq(STRING)
  PROVE  Levels(s) \in Splits /\ \E a : Begin(a, Levels(s), s, Len(s))
<1>0. PICK n \in Nat : n = Len(s)
  BY LenProperties
<1>1. PICK F : Run(F, Splits, <<(<<>>)>>, SplitStep, s) /\ F[n] = Levels(s)
  BY <1>0, LevelsRun DEF RunsTo
<1>2. /\ F \in [0..n -> Splits] /\ F[0] = <<(<<>>)>>
      /\ \A k \in 1..n : F[k] = SplitStep[<<F[k - 1], s[k]>>]
  BY <1>0, <1>1 DEF Run
<1> DEFINE A == {k \in Nat : k <= n => \E a : Begin(a, F[k], s, k)}
<1>3. 0 \in A
  <2> DEFINE a == [m \in 1..1 |-> 1]
  <2>1. a \in [1..1 -> Nat \ {0}] /\ a[1] = 1
    OBVIOUS
  <2>2. PICK ls : ls = <<(<<>>)>>
    OBVIOUS
  <2>3. Len(ls) = 1 /\ ls[1] = <<>> /\ Len(ls[1]) = 0
    BY <2>2, OneLevel
  <2> HIDE DEF a
  <2>4. 1..1 - 1 = {} /\ \A m \in 1..1 : m = 1
    OBVIOUS
  <2>5. 1..Len(ls[1]) = {}
    BY <2>3
  <2>6. Begin(a, ls, s, 0)
    BY <2>1, <2>3, <2>4, <2>5 DEF Begin, Spelled
  <2> QED BY <2>6, <2>2, <1>2
<1>4. \A k \in Nat : k \in A => k + 1 \in A
  <2> TAKE k \in Nat
  <2> HAVE k \in A
  <2> SUFFICES ASSUME k + 1 <= n PROVE \E a : Begin(a, F[k + 1], s, k + 1)
    OBVIOUS
  <2>1. k + 1 \in 1..n /\ k \in 0..n /\ k + 1 - 1 = k
    OBVIOUS
  <2>2. PICK a : Begin(a, F[k], s, k)
    BY <2>1
  <2>3. F[k] \in Splits /\ s[k + 1] \in STRING
    BY <2>1, <1>0, <1>2, ElementOfSeq
  <2>4. F[k + 1] = Split(F[k], s[k + 1])
    <3>1. F[k + 1] = SplitStep[<<F[k], s[k + 1]>>]
      <4>1. PICK i : i = k + 1
        OBVIOUS
      <4>2. i \in 1..n /\ i - 1 = k
        BY <2>1, <4>1
      <4>3. F[i] = SplitStep[<<F[i - 1], s[i]>>]
        BY <4>2, <1>2, Zenon
      <4> QED BY <4>1, <4>2, <4>3, Zenon
    <3> QED BY <2>3, <3>1 DEF SplitStep
  <2>5. \E b : Begin(b, Split(F[k], s[k + 1]), s, k + 1)
    BY <2>1, <2>2, <2>3, <1>0, BeginNext
  <2> QED BY <2>4, <2>5
<1>5. Nat \subseteq A
  <2> HIDE DEF A
  <2> QED BY <1>3, <1>4, SetInduction
<1>6. \E a : Begin(a, F[n], s, n)
  BY <1>5
<1> QED BY <1>0, <1>1, <1>2, <1>6

LEMMA LevelEndIs ==
  ASSUME NEW n, Len(n) \in Nat, NEW j \in 1..Len(n), NEW k \in j..Len(n),
         \A l \in j + 1..k : n[l] # "/", k = Len(n) \/ n[k + 1] = "/"
  PROVE  LevelEnd(n, j) = k
<1> DEFINE Ends(e) == (\A l \in j + 1..e : n[l] # "/") /\ (e = Len(n) \/ n[e + 1] = "/")
<1>1. ASSUME NEW e \in j..Len(n), Ends(e) PROVE e = k
  <2>1. CASE e < k
    <3>1. e + 1 \in j + 1..k /\ e # Len(n)
      BY <2>1
    <3> QED BY <3>1, <1>1
  <2>2. CASE k < e
    <3>1. k + 1 \in j + 1..e /\ k # Len(n)
      BY <2>2
    <3> QED BY <3>1, <1>1
  <2> QED BY <2>1, <2>2
<1>2. Ends(k)
  OBVIOUS
<1>3. LevelEnd(n, j) = CHOOSE e \in j..Len(n) : Ends(e)
  BY DEF LevelEnd
<1> HIDE DEF Ends
<1> QED BY <1>1, <1>2, <1>3

LEMMA LevelEndIn ==
  ASSUME NEW n, Len(n) \in Nat, NEW j \in 1..Len(n)
  PROVE  LevelEnd(n, j) \in j..Len(n)
<1> DEFINE Ends(i, e) == (\A l \in i + 1..e : n[l] # "/") /\ (e = Len(n) \/ n[e + 1] = "/")
           A == {d \in Nat : \A i \in 1..Len(n) : i + d = Len(n) => \E e \in i..Len(n) : Ends(i, e)}
<1>1. 0 \in A
  <2> SUFFICES ASSUME NEW i \in 1..Len(n), i + 0 = Len(n) PROVE \E e \in i..Len(n) : Ends(i, e)
    OBVIOUS
  <2>1. i \in i..Len(n) /\ Ends(i, i)
    OBVIOUS
  <2> QED BY <2>1
<1>2. \A d \in Nat : d \in A => d + 1 \in A
  <2> TAKE d \in Nat
  <2> HAVE d \in A
  <2> SUFFICES ASSUME NEW i \in 1..Len(n), i + (d + 1) = Len(n) PROVE \E e \in i..Len(n) : Ends(i, e)
    OBVIOUS
  <2>1. CASE n[i + 1] = "/"
    <3>1. i \in i..Len(n) /\ Ends(i, i)
      BY <2>1
    <3> HIDE DEF Ends
    <3> QED BY <3>1
  <2>2. CASE n[i + 1] # "/"
    <3>1. i + 1 \in 1..Len(n) /\ (i + 1) + d = Len(n)
      OBVIOUS
    <3>2. PICK e \in i + 1..Len(n) : Ends(i + 1, e)
      BY <3>1
    <3>3. \A l \in i + 1..e : l = i + 1 \/ l \in i + 1 + 1..e
      OBVIOUS
    <3>a. e \in i..Len(n)
      BY <3>2
    <3>b. \A l \in i + 1..e : n[l] # "/"
      BY <3>2, <3>3, <2>2
    <3>4. e \in i..Len(n) /\ Ends(i, e)
      BY <3>a, <3>b, <3>2
    <3> QED BY <3>4
  <2> QED BY <2>1, <2>2
<1>3. Nat \subseteq A
  <2> HIDE DEF A, Ends
  <2> QED BY ONLY <1>1, <1>2, SetInduction, Zenon
<1>4. Len(n) - j \in Nat /\ j + (Len(n) - j) = Len(n)
  <2>1. PICK l \in Nat : l = Len(n)
    BY LenProperties
  <2>2. j \in Nat /\ j <= l
    BY <2>1
  <2>3. l - j \in Nat /\ j + (l - j) = l
    BY ONLY <2>2, l \in Nat
  <2> QED BY <2>1, <2>3
<1>5. PICK e \in j..Len(n) : Ends(j, e)
  BY <1>3, <1>4
<1>6. LevelEnd(n, j) = e
  BY <1>5, LevelEndIs
<1> QED BY <1>6

\* isTopicMatched from the character i of the filter and the character j of the name on.
Characters(f, n) == (1..Len(f) + 1) \X (1..Len(n) + 1)
Body(m, f, n, i, j) ==
  IF i > Len(f) \/ j > Len(n) THEN i > Len(f) /\ j > Len(n)
  ELSE /\ n[j] = "/" => f[i] = "/"
       /\ CASE f[i] = "+" -> m[<<i + 1, LevelEnd(n, j) + 1>>]
            [] f[i] = "#" -> m[<<i + 1, Len(n) + 1>>]
            [] OTHER -> f[i] = n[j] /\ m[<<i + 1, j + 1>>]
Matching(m, f, n) ==
  /\ m \in [Characters(f, n) -> BOOLEAN]
  /\ \A i \in 1..Len(f) + 1 : \A j \in 1..Len(n) + 1 : m[<<i, j>>] = Body(m, f, n, i, j)

LEMMA BodyNarrows ==
  ASSUME NEW f \in Seq(STRING), NEW n \in Seq(STRING),
         NEW m \in [Characters(f, n) -> BOOLEAN], NEW i \in 1..Len(f) + 1, NEW j \in 1..Len(n) + 1
  PROVE  /\ Body(m, f, n, i, j) \in BOOLEAN
         /\ \A g \in [Characters(f, n) -> BOOLEAN] :
              (\A k \in i + 1..Len(f) + 1 : \A l \in 1..Len(n) + 1 : g[<<k, l>>] = m[<<k, l>>])
              => Body(g, f, n, i, j) = Body(m, f, n, i, j)
<1>0. Len(f) \in Nat /\ Len(n) \in Nat
  BY LenProperties
<1>1. CASE i > Len(f) \/ j > Len(n)
  BY <1>1 DEF Body
<1>2. CASE i <= Len(f) /\ j <= Len(n)
  <2>1. j \in 1..Len(n)
    BY <1>2, <1>0
  <2>2. PICK e \in j..Len(n) : e = LevelEnd(n, j)
    BY <1>0, <2>1, LevelEndIn
  <2>3. /\ i + 1 \in i + 1..Len(f) + 1 /\ i + 1 \in 1..Len(f) + 1 /\ e + 1 \in 1..Len(n) + 1
        /\ j + 1 \in 1..Len(n) + 1 /\ Len(n) + 1 \in 1..Len(n) + 1
    BY <1>0, <1>2, <2>1
  <2>6. Body(m, f, n, i, j) \in BOOLEAN
    BY <1>0, <1>2 DEF Body
  <2>7. ASSUME NEW g \in [Characters(f, n) -> BOOLEAN],
               \A k \in i + 1..Len(f) + 1 : \A l \in 1..Len(n) + 1 : g[<<k, l>>] = m[<<k, l>>]
        PROVE  Body(g, f, n, i, j) = Body(m, f, n, i, j)
    <3>1. /\ g[<<i + 1, e + 1>>] = m[<<i + 1, e + 1>>] /\ g[<<i + 1, Len(n) + 1>>] = m[<<i + 1, Len(n) + 1>>]
          /\ g[<<i + 1, j + 1>>] = m[<<i + 1, j + 1>>]
      BY <2>3, <2>7
    <3> QED BY <3>1, <1>0, <1>2, <2>2 DEF Body
  <2> QED BY <2>6, <2>7
<1> QED BY <1>0, <1>1, <1>2

LEMMA MatchingExists ==
  ASSUME NEW f \in Seq(STRING), NEW n \in Seq(STRING)
  PROVE  \E m : Matching(m, f, n) /\ IsTopicMatched(f, n) = m[<<1, 1>>]
<1>0. Len(f) \in Nat /\ Len(n) \in Nat
  BY LenProperties
<1> DEFINE P == Characters(f, n)
           G == [P -> BOOLEAN]
           size == [pl \in P |-> Len(f) + 1 - pl[1]]
           by == [z \in G \X P |-> Body(z[1], f, n, z[2][1], z[2][2])]
<1>1. \A pl \in P : pl = <<pl[1], pl[2]>> /\ pl[1] \in 1..Len(f) + 1 /\ pl[2] \in 1..Len(n) + 1
  BY DEF Characters
<1>2. size \in [P -> Nat]
  BY <1>0, <1>1
<1>3. ASSUME NEW m \in G, NEW pl \in P
      PROVE  by[<<m, pl>>] = Body(m, f, n, pl[1], pl[2]) /\ by[<<m, pl>>] \in BOOLEAN
  <2>1. by[<<m, pl>>] = Body(m, f, n, pl[1], pl[2])
    <3> HIDE DEF P, G
    <3> QED OBVIOUS
  <2>2. Body(m, f, n, pl[1], pl[2]) \in BOOLEAN
    BY <1>1, BodyNarrows
  <2> QED BY <2>1, <2>2
<1>4. by \in [G \X P -> BOOLEAN]
  <2>1. \A z \in G \X P : z = <<z[1], z[2]>> /\ z[1] \in G /\ z[2] \in P
    <3> HIDE DEF P, G
    <3> QED OBVIOUS
  <2>2. by = [z \in G \X P |-> by[z]]
    <3> HIDE DEF P, G
    <3> QED OBVIOUS
  <2> HIDE DEF by, G, P
  <2> QED BY <1>3, <2>1, <2>2
<1>5. ASSUME NEW m \in G, NEW g \in G, NEW pl \in P, \A y \in P : size[y] < size[pl] => m[y] = g[y]
      PROVE  by[<<m, pl>>] = by[<<g, pl>>]
  <2>1. ASSUME NEW k \in pl[1] + 1..Len(f) + 1, NEW l \in 1..Len(n) + 1 PROVE g[<<k, l>>] = m[<<k, l>>]
    <3>1. <<k, l>> \in P /\ size[<<k, l>>] = Len(f) + 1 - k
      BY <1>1 DEF Characters
    <3>2. size[pl] = Len(f) + 1 - pl[1] /\ pl[1] \in 1..Len(f) + 1
      BY <1>1
    <3> QED BY <3>1, <3>2, <1>0, <1>5
  <2>2. Body(g, f, n, pl[1], pl[2]) = Body(m, f, n, pl[1], pl[2])
    BY <1>1, <2>1, BodyNarrows
  <2> QED BY <2>2, <1>3
<1>6. Narrows(by, P, BOOLEAN, size)
  <2> HIDE DEF P, size, by
  <2> QED BY <1>2, <1>4, <1>5 DEF Narrows
<1>7. PICK g : Solves(g, P, BOOLEAN, by)
  <2> HIDE DEF P, size, by
  <2> QED BY <1>6, Recursion
<1>8. g = [pl \in P |-> Body(g, f, n, pl[1], pl[2])]
  <2>1. g \in G /\ \A pl \in P : g[pl] = by[<<g, pl>>]
    BY <1>7 DEF Solves
  <2>2. \A pl \in P : g[pl] = Body(g, f, n, pl[1], pl[2])
    <3> HIDE DEF by, G, P
    <3> QED BY <2>1, <1>3
  <2>3. g = [pl \in P |-> g[pl]]
    BY <2>1
  <2> HIDE DEF P
  <2> QED BY <2>2, <2>3
<1> DEFINE M == CHOOSE m : m = [pl \in P |-> Body(m, f, n, pl[1], pl[2])]
<1>9. IsTopicMatched(f, n) = M[<<1, 1>>]
  BY DEF IsTopicMatched, Body, Characters
<1>10. M = [pl \in P |-> Body(M, f, n, pl[1], pl[2])]
  BY <1>8
<1> HIDE DEF M
<1>11. ASSUME NEW i \in 1..Len(f) + 1, NEW j \in 1..Len(n) + 1 PROVE M[<<i, j>>] = Body(M, f, n, i, j)
  <2>1. <<i, j>> \in P
    BY DEF Characters
  <2> QED BY <2>1, <1>10
<1>12. M \in [P -> BOOLEAN]
  <2>1. \A pl \in P : Body(M, f, n, pl[1], pl[2]) \in BOOLEAN
    BY DEF Body
  <2> HIDE DEF P
  <2> QED BY <2>1, <1>10
<1>13. Matching(M, f, n)
  BY <1>11, <1>12 DEF Matching
<1> QED BY <1>9, <1>13

\* x is the level of s that begins at i.
LevelAt(s, i, x) ==
  /\ i \in 1..Len(s) + 1 /\ x \in Seq(STRING) /\ Spelled(s, i, x) /\ i + Len(x) <= Len(s) + 1
  /\ i > 1 => s[i - 1] = "/"
  /\ i + Len(x) <= Len(s) => s[i + Len(x)] = "/"

LEMMA BehindLevel ==
  ASSUME NEW s, Len(s) \in Nat, NEW i, NEW x, LevelAt(s, i, x)
  PROVE  /\ i \in Nat /\ Len(x) \in Nat /\ i + Len(x) \in 1..Len(s) + 1
         /\ i + Len(x) <= Len(s) => i + Len(x) \in 1..Len(s) /\ s[i + Len(x)] = "/"
<1>1. i \in 1..Len(s) + 1 /\ x \in Seq(STRING) /\ i + Len(x) <= Len(s) + 1
  BY DEF LevelAt
<1>2. PICK v \in Nat : v = Len(x)
  BY <1>1, LenProperties
<1>3. PICK n \in Nat : n = Len(s)
  OBVIOUS
<1>4. i \in Nat /\ i # 0 /\ i + v <= n + 1
  BY <1>1, <1>2, <1>3
<1>5. i + v \in 1..n + 1 /\ (i + v <= n => i + v \in 1..n)
  BY ONLY <1>4, v \in Nat, n \in Nat
<1>6. i + Len(x) <= Len(s) => s[i + Len(x)] = "/"
  BY DEF LevelAt
<1> QED BY <1>2, <1>3, <1>4, <1>5, <1>6

LEMMA OneElement ==
  ASSUME NEW S, NEW c \in S
  PROVE  <<c>> \in Seq(S)
OBVIOUS

LEMMA OneCharacterIs ==
  ASSUME NEW S, NEW x \in Seq(S), Len(x) = 1, NEW c \in S, x[1] = c
  PROVE  x = <<c>>
<1>1. PICK y : y = <<c>>
  OBVIOUS
<1>2. y \in Seq(S)
  BY <1>1, OneElement
<1>3. Len(y) = 1 /\ y[1] = c
  BY <1>1
<1>4. \A k \in 1..Len(x) : x[k] = y[k]
  <2> TAKE k \in 1..Len(x)
  <2>1. k = 1
    OBVIOUS
  <2> QED BY <2>1, <1>3
<1>5. x = y
  BY <1>2, <1>3, <1>4, SeqEqual
<1> QED BY <1>1, <1>5

LEMMA WildLevels ==
  ASSUME NEW f \in Seq(STRING), Valid(f), NEW i, NEW x, LevelAt(f, i, x)
  PROVE  /\ x \notin {<<"+">>, <<"#">>} => \A t \in 1..Len(x) : x[t] \notin {"+", "#"}
         /\ x = <<"#">> => i = Len(f)
<1>0. Len(f) \in Nat /\ Len(x) \in Nat /\ DOMAIN f = 1..Len(f) /\ i \in 1..Len(f) + 1
  BY LenProperties DEF LevelAt
<1>1. \A t \in 1..Len(x) : i + t - 1 \in DOMAIN f /\ f[i + t - 1] = x[t] /\ x[t] # "/" /\ x[t] \in STRING
  BY <1>0, ElementOfSeq DEF LevelAt, Spelled
<1>2. ASSUME NEW t \in 1..Len(x), x[t] \in {"+", "#"} PROVE x \in {<<"+">>, <<"#">>}
  <2>1. PICK k \in DOMAIN f : k = i + t - 1 /\ f[k] = x[t]
    BY <1>1
  <2>2. k > 1 => f[k - 1] = "/"
    BY <2>1, <1>2 DEF Valid
  <2>3. k < Len(f) => f[k + 1] = "/"
    BY <2>1, <1>2 DEF Valid
  <2>4. t = 1
    <3> SUFFICES ASSUME t # 1 PROVE FALSE
      OBVIOUS
    <3>1. t - 1 \in 1..Len(x) /\ k > 1 /\ k - 1 = i + (t - 1) - 1
      BY <2>1, <1>0
    <3> QED BY <3>1, <2>2, <1>1
  <2>5. Len(x) = 1
    <3>1. ASSUME Len(x) > 1 PROVE FALSE
      <4>1. 2 \in 1..Len(x) /\ k + 1 = i + 2 - 1
        BY <2>1, <2>4, <1>0, <3>1
      <4>2. f[k + 1] = x[2] /\ x[2] # "/" /\ k + 1 \in DOMAIN f
        BY <4>1, <1>1
      <4> QED BY <4>2, <2>3, <1>0
    <3>2. PICK p \in Nat : p = Len(x)
      BY <1>0
    <3>3. t \in 1..p /\ ~(p > 1)
      BY <3>1, <3>2
    <3> QED BY <3>2, <3>3, <2>4
  <2>6. PICK c \in STRING : c = x[1] /\ c \in {"+", "#"}
    BY <1>1, <1>2, <2>4
  <2>7. x = <<c>>
    BY <2>5, <2>6, OneCharacterIs DEF LevelAt
  <2> QED BY <2>6, <2>7
<1>3. ASSUME x = <<"#">> PROVE i = Len(f)
  <2>1. Len(x) = 1 /\ x[1] = "#"
    BY <1>3
  <2>2. i \in DOMAIN f /\ f[i] = "#"
    <3>1. 1 \in 1..Len(x) /\ i + 1 - 1 = i
      BY <1>0, <2>1
    <3> QED BY <3>1, <1>1, <2>1
  <2>3. ~(i < Len(f))
    BY <2>2 DEF Valid
  <2> QED BY <1>0, <2>2, <2>3
<1> QED BY <1>2, <1>3

LEMMA PlainLevel ==
  ASSUME NEW f \in Seq(STRING), NEW n \in Seq(STRING), NEW m, Matching(m, f, n),
         NEW i, NEW x, LevelAt(f, i, x), \A t \in 1..Len(x) : x[t] \notin {"+", "#"},
         NEW j, NEW y, LevelAt(n, j, y), y # <<>>
  PROVE  m[<<i, j>>] <=> x = y /\ m[<<i + Len(x), j + Len(y)>>]
<1>0. /\ Len(f) \in Nat /\ Len(x) \in Nat /\ i \in 1..Len(f) + 1 /\ i + Len(x) <= Len(f) + 1
      /\ Len(n) \in Nat /\ Len(y) \in Nat \ {0} /\ j \in 1..Len(n) + 1 /\ j + Len(y) <= Len(n) + 1
  BY LenProperties, EmptySeq DEF LevelAt
<1>1. \A t \in 1..Len(x) : f[i + t - 1] = x[t] /\ x[t] \notin {"+", "#", "/"}
  BY DEF LevelAt, Spelled
<1>2. \A t \in 1..Len(y) : n[j + t - 1] = y[t] /\ y[t] # "/"
  BY DEF LevelAt, Spelled
<1>3. \A k \in 1..Len(f) + 1 : \A l \in 1..Len(n) + 1 : m[<<k, l>>] = Body(m, f, n, k, l)
  BY DEF Matching
<1>p. PICK p \in Nat : p = Len(x)
  BY <1>0
<1>q. PICK q \in Nat : q = Len(y) /\ q # 0
  BY <1>0
<1> DEFINE Same(t) == \A u \in 1..t : x[u] = y[u]
           Upto(t) == m[<<i, j>>] <=> Same(t) /\ m[<<i + t, j + t>>]
           A == {t \in Nat : t <= p /\ t <= q => Upto(t)}
<1>4. 0 \in A
  <2>1. Same(0) /\ i + 0 = i /\ j + 0 = j
    BY <1>0
  <2>2. Upto(0)
    <3> HIDE DEF Same
    <3> QED BY <2>1
  <2> HIDE DEF Upto
  <2> QED BY <2>2
<1>5. \A t \in Nat : t \in A => t + 1 \in A
  <2>0. ASSUME NEW t \in Nat, Upto(t), t + 1 <= p, t + 1 <= q PROVE Upto(t + 1)
    <3>1. m[<<i, j>>] <=> Same(t) /\ m[<<i + t, j + t>>]
      BY <2>0
    <3>2. t + 1 \in 1..Len(x) /\ t + 1 \in 1..Len(y)
      BY <2>0, <1>p, <1>q
    <3>3. PICK k \in 1..Len(f) : k = i + t
      BY <1>0, <1>p, <2>0
    <3>4. PICK l \in 1..Len(n) : l = j + t
      BY <1>0, <1>q, <2>0
    <3>5. f[k] = x[t + 1] /\ n[l] = y[t + 1] /\ f[k] \notin {"+", "#", "/"} /\ n[l] # "/"
      <4>1. k = i + (t + 1) - 1 /\ l = j + (t + 1) - 1
        BY <3>3, <3>4, <1>0
      <4> QED BY <4>1, <3>2, <1>1, <1>2
    <3>6. Body(m, f, n, k, l) <=> x[t + 1] = y[t + 1] /\ m[<<k + 1, l + 1>>]
      <4>1. ~(k > Len(f) \/ l > Len(n))
        BY <1>0
      <4> QED BY <3>5, <4>1 DEF Body
    <3>7. m[<<k, l>>] = Body(m, f, n, k, l)
      BY <1>0, <1>3
    <3>8. Same(t + 1) <=> Same(t) /\ x[t + 1] = y[t + 1]
      <4>1. \A u \in 1..t + 1 : u \in 1..t \/ u = t + 1
        OBVIOUS
      <4>2. \A u \in 1..t : u \in 1..t + 1
        OBVIOUS
      <4>3. t + 1 \in 1..t + 1
        OBVIOUS
      <4> QED BY ONLY <4>1, <4>2, <4>3 DEF Same
    <3>9. k + 1 = i + (t + 1) /\ l + 1 = j + (t + 1)
      BY <3>3, <3>4, <1>0
    <3>10. m[<<k + 1, l + 1>>] = m[<<i + (t + 1), j + (t + 1)>>] /\ m[<<k, l>>] = m[<<i + t, j + t>>]
      BY <3>3, <3>4, <3>9
    <3> HIDE DEF Same
    <3> QED BY ONLY <3>1, <3>6, <3>7, <3>8, <3>10
  <2> HIDE DEF Upto
  <2> QED BY <2>0
<1>6. Nat \subseteq A
  <2> HIDE DEF A
  <2> QED BY <1>4, <1>5, SetInduction
<1>u. ASSUME NEW t \in Nat, t <= p, t <= q PROVE m[<<i, j>>] <=> Same(t) /\ m[<<i + t, j + t>>]
  <2>1. Upto(t)
    <3> HIDE DEF Upto
    <3> QED BY <1>6, <1>u
  <2> QED BY <2>1
<1> HIDE DEF A, Upto
<1>7. CASE p = q
  <2>1. m[<<i, j>>] <=> Same(p) /\ m[<<i + p, j + p>>]
    <3>1. p <= p /\ p <= q
      BY <1>7
    <3> HIDE DEF Same
    <3> QED BY <3>1, <1>u
  <2>2. Same(p) <=> x = y
    <3>1. x \in Seq(STRING) /\ y \in Seq(STRING)
      BY DEF LevelAt
    <3> QED BY <3>1, <1>7, <1>p, <1>q, SeqEqual
  <2> HIDE DEF Same
  <2> QED BY <2>1, <2>2, <1>7, <1>p, <1>q
<1>8. ASSUME p < q PROVE ~m[<<i, j>>]
  <2>1. PICK k \in 1..Len(f) + 1 : k = i + p
    BY <1>0, <1>p
  <2>2. PICK l \in 1..Len(n) : l = j + p
    BY <1>0, <1>q, <1>8
  <2>3. m[<<i, j>>] => m[<<k, l>>]
    <3> HIDE DEF Same
    <3> QED BY <1>u, <1>8, <2>1, <2>2
  <2>4. n[l] # "/"
    <3>1. p + 1 \in 1..Len(y) /\ l = j + (p + 1) - 1
      BY <1>0, <1>8, <1>q, <2>2
    <3> QED BY <3>1, <1>2
  <2>5. k <= Len(f) => f[k] = "/"
    BY <2>1, <1>p DEF LevelAt
  <2>6. ~Body(m, f, n, k, l)
    <3>1. CASE k > Len(f)
      BY <3>1, <1>0 DEF Body
    <3>2. CASE k <= Len(f)
      <4>1. ~(k > Len(f) \/ l > Len(n))
        BY <3>2, <1>0
      <4>2. f[k] = "/" /\ f[k] # n[l]
        BY <3>2, <2>4, <2>5
      <4>3. f[k] # "+" /\ f[k] # "#"
        BY <4>2
      <4> QED BY ONLY <4>1, <4>2, <4>3 DEF Body
    <3> QED BY <3>1, <3>2, <1>0
  <2>7. m[<<k, l>>] = Body(m, f, n, k, l)
    BY <1>0, <1>3
  <2> QED BY <2>3, <2>6, <2>7
<1>9. ASSUME p > q PROVE ~m[<<i, j>>]
  <2>1. PICK k \in 1..Len(f) : k = i + q
    BY <1>0, <1>p, <1>9
  <2>2. PICK l \in 1..Len(n) + 1 : l = j + q
    BY <1>0, <1>q
  <2>3. m[<<i, j>>] => m[<<k, l>>]
    <3> HIDE DEF Same
    <3> QED BY <1>u, <1>9, <2>1, <2>2
  <2>4. f[k] # "/"
    <3>1. q + 1 \in 1..Len(x) /\ k = i + (q + 1) - 1
      BY <1>0, <1>9, <1>p, <2>1
    <3> QED BY <3>1, <1>1
  <2>5. l <= Len(n) => n[l] = "/"
    BY <2>2, <1>q DEF LevelAt
  <2>6. ~Body(m, f, n, k, l)
    <3>1. CASE l > Len(n)
      BY <3>1, <1>0 DEF Body
    <3>2. CASE l <= Len(n)
      <4>1. ~(k > Len(f) \/ l > Len(n))
        BY <3>2, <1>0
      <4>2. n[l] = "/" /\ f[k] # "/"
        BY <3>2, <2>4, <2>5
      <4> QED BY ONLY <4>1, <4>2 DEF Body
    <3> QED BY <3>1, <3>2, <1>0
  <2>7. m[<<k, l>>] = Body(m, f, n, k, l)
    BY <1>0, <1>3
  <2> QED BY <2>3, <2>6, <2>7
<1>10. CASE p # q
  <2>1. x # y
    BY <1>10, <1>p, <1>q
  <2> QED BY <1>8, <1>9, <1>10, <2>1
<1> QED BY <1>7, <1>10

LEMMA LevelMatch ==
  ASSUME NEW f \in Seq(STRING), Valid(f), NEW n \in Seq(STRING), NEW m, Matching(m, f, n),
         NEW i, NEW x, LevelAt(f, i, x), NEW j, NEW y, LevelAt(n, j, y), y # <<>>
  PROVE  /\ x # <<"#">> => (m[<<i, j>>] <=> (x = <<"+">> \/ x = y) /\ m[<<i + Len(x), j + Len(y)>>])
         /\ x = <<"#">> => m[<<i, j>>]
<1>0. /\ Len(f) \in Nat /\ Len(x) \in Nat /\ i \in 1..Len(f) + 1 /\ i + Len(x) <= Len(f) + 1
      /\ Len(n) \in Nat /\ Len(y) \in Nat \ {0} /\ j \in 1..Len(n) + 1 /\ j + Len(y) <= Len(n) + 1
  BY LenProperties, EmptySeq DEF LevelAt
<1>1. ASSUME NEW k \in 1..Len(f) + 1, NEW l \in 1..Len(n) + 1 PROVE m[<<k, l>>] = Body(m, f, n, k, l)
  BY DEF Matching
<1>2. j \in 1..Len(n) /\ n[j] # "/"
  <2>1. 1 \in 1..Len(y) /\ j = j + 1 - 1
    BY <1>0
  <2> QED BY <2>1, <1>0 DEF LevelAt, Spelled
<1>3. CASE x = <<"+">>
  <2>1. Len(x) = 1 /\ x[1] = "+"
    BY <1>3
  <2>2. i \in 1..Len(f) /\ f[i] = "+"
    <3>1. 1 \in 1..Len(x) /\ i = i + 1 - 1
      BY <1>0, <2>1
    <3> QED BY <3>1, <1>0, <2>1 DEF LevelAt, Spelled
  <2>3. LevelEnd(n, j) = j + Len(y) - 1
    <3>0. PICK q \in Nat : q = Len(y) /\ q # 0
      BY <1>0
    <3>a. PICK N \in Nat : N = Len(n)
      BY <1>0
    <3>b. j + q - 1 \in j..N
      BY <1>0, <3>0, <3>a
    <3>1. PICK e \in j..Len(n) : e = j + q - 1
      BY <3>a, <3>b
    <3>2. \A l \in j + 1..e : n[l] # "/"
      <4> TAKE l \in j + 1..e
      <4>1. l - j + 1 \in 1..Len(y) /\ j + (l - j + 1) - 1 = l
        BY <1>0, <3>0, <3>1
      <4> QED BY <4>1 DEF LevelAt, Spelled
    <3>3. e = Len(n) \/ n[e + 1] = "/"
      <4>1. e + 1 = j + Len(y)
        BY <1>0, <3>0, <3>1
      <4> QED BY <4>1, <1>0 DEF LevelAt
    <3> QED BY <1>0, <1>2, <3>0, <3>1, <3>2, <3>3, LevelEndIs
  <2>4. PICK e \in j..Len(n) : e = LevelEnd(n, j) /\ e + 1 = j + Len(y)
    BY <2>3, <1>0
  <2>5. Body(m, f, n, i, j) <=> m[<<i + 1, e + 1>>]
    <3>1. ~(i > Len(f) \/ j > Len(n))
      BY <1>0, <1>2, <2>2
    <3> QED BY ONLY <3>1, <1>2, <2>2, <2>4 DEF Body
  <2>6. m[<<i, j>>] = Body(m, f, n, i, j)
    BY <1>0, <1>1
  <2>7. x # <<"#">>
    BY <2>1
  <2> QED BY <1>3, <2>1, <2>4, <2>5, <2>6, <2>7
<1>4. CASE x = <<"#">>
  <2>1. Len(x) = 1 /\ x[1] = "#"
    BY <1>4
  <2>2. i = Len(f) /\ i \in 1..Len(f) /\ f[i] = "#"
    <3>1. 1 \in 1..Len(x) /\ i = i + 1 - 1
      BY <1>0, <2>1
    <3>2. i = Len(f)
      BY <1>4, WildLevels
    <3> QED BY <3>1, <3>2, <1>0, <2>1 DEF LevelAt, Spelled
  <2>3. PICK l \in 1..Len(n) + 1 : l = Len(n) + 1
    BY <1>0
  <2>4. PICK k \in 1..Len(f) + 1 : k = i + 1
    BY <1>0, <2>2
  <2>5. Body(m, f, n, i, j) <=> m[<<k, l>>]
    <3>1. ~(i > Len(f) \/ j > Len(n))
      BY <1>0, <1>2, <2>2
    <3>2. f[i] # "+"
      BY <2>2
    <3> QED BY ONLY <3>1, <3>2, <1>2, <2>2, <2>3, <2>4 DEF Body
  <2>6. Body(m, f, n, k, l)
    BY <1>0, <2>2, <2>3, <2>4 DEF Body
  <2>7. m[<<i, j>>] = Body(m, f, n, i, j) /\ m[<<k, l>>] = Body(m, f, n, k, l)
    BY <1>0, <1>1
  <2> QED BY <1>4, <2>5, <2>6, <2>7
<1>5. CASE x \notin {<<"+">>, <<"#">>}
  <2>1. \A t \in 1..Len(x) : x[t] \notin {"+", "#"}
    BY <1>5, WildLevels
  <2> QED BY <1>5, <2>1, PlainLevel
<1> QED BY <1>3, <1>4, <1>5

LEMMA LevelsAt ==
  ASSUME NEW s \in Seq(STRING), NEW ls \in Splits, NEW a, Begin(a, ls, s, Len(s))
  PROVE  \A m \in 1..Len(ls) :
           /\ LevelAt(s, a[m], ls[m])
           /\ m = Len(ls) => a[m] + Len(ls[m]) = Len(s) + 1
           /\ m < Len(ls) => a[m] + Len(ls[m]) <= Len(s) /\ a[m + 1] = a[m] + Len(ls[m]) + 1
<1>n. PICK n \in Nat : n = Len(s)
  BY LenProperties
<1>p. PICK p \in Nat : p = Len(ls) /\ p # 0
  BY LenProperties, EmptySeq DEF Splits
<1>1. \A m \in 1..p : ls[m] \in Texts0
  BY <1>p, ElementOfSeq DEF Splits
<1> DEFINE l == [m \in 1..p |-> Len(ls[m])]
<1>2. l \in [1..p -> Nat] /\ \A m \in 1..p : l[m] = Len(ls[m])
  BY <1>1, LenProperties DEF Texts0
<1> HIDE DEF l
<1>3. a \in [1..p -> Nat \ {0}] /\ a[1] = 1 /\ a[p] + l[p] = n + 1
  BY <1>n, <1>p, <1>2 DEF Begin
<1>4. \A m \in 1..p - 1 : a[m + 1] = a[m] + l[m] + 1 /\ s[a[m] + l[m]] = "/"
  <2> TAKE m \in 1..p - 1
  <2>1. Joined(s, a[m], ls[m], a[m + 1])
    BY <1>p DEF Begin
  <2>2. m \in 1..p
    BY <1>p
  <2> QED BY <2>1, <2>2, <1>2 DEF Joined
<1>5. \A m \in 1..p : Spelled(s, a[m], ls[m])
  BY <1>p DEF Begin
<1> DEFINE A == {d \in Nat : \A m \in 1..p : m + d = p => a[m] + l[m] <= n + 1 /\ (m < p => a[m] + l[m] <= n)}
<1>6. 0 \in A
  BY <1>3
<1>7. \A d \in Nat : d \in A => d + 1 \in A
  <2> TAKE d \in Nat
  <2> HAVE d \in A
  <2>1. ASSUME NEW m \in 1..p, m + (d + 1) = p PROVE a[m] + l[m] <= n
    <3>1. m + 1 \in 1..p /\ (m + 1) + d = p /\ m \in 1..p - 1
      BY <2>1
    <3>2. a[m + 1] + l[m + 1] <= n + 1 /\ a[m + 1] = a[m] + l[m] + 1
      BY <3>1, <1>4
    <3>3. PICK u, v, w, z \in Nat : u = a[m] /\ v = l[m] /\ w = a[m + 1] /\ z = l[m + 1]
      BY <3>1, <1>2, <1>3
    <3>4. w + z <= n + 1 /\ w = u + v + 1
      BY ONLY <3>2, <3>3
    <3>a. u \in Nat /\ v \in Nat /\ w \in Nat /\ z \in Nat /\ n \in Nat
      BY <3>3
    <3>5. u + v <= n
      BY ONLY <3>a, <3>4
    <3> QED BY ONLY <3>3, <3>5
  <2>2. ASSUME NEW m \in 1..p, m + (d + 1) = p PROVE a[m] + l[m] <= n + 1
    <3>1. PICK u, v \in Nat : u = a[m] /\ v = l[m]
      BY <1>2, <1>3
    <3> QED BY <3>1, <2>1, <2>2
  <2> QED BY <2>1, <2>2
<1>8. Nat \subseteq A
  <2> HIDE DEF A
  <2> QED BY <1>6, <1>7, SetInduction
<1>9. ASSUME NEW m \in 1..p
      PROVE  /\ LevelAt(s, a[m], ls[m])
             /\ m = p => a[m] + l[m] = n + 1
             /\ m < p => a[m] + l[m] <= n /\ a[m + 1] = a[m] + l[m] + 1
  <2>1. p - m \in Nat /\ m + (p - m) = p
    OBVIOUS
  <2>2. a[m] + l[m] <= n + 1 /\ (m < p => a[m] + l[m] <= n)
    BY <1>8, <2>1
  <2>3. PICK u, v \in Nat : u = a[m] /\ v = l[m] /\ u # 0
    BY <1>2, <1>3
  <2>4. u \in 1..n + 1
    BY <2>2, <2>3
  <2>5. u > 1 => s[u - 1] = "/"
    <3>1. CASE m = 1
      BY <3>1, <2>3, <1>3
    <3>2. CASE m # 1
      <4>1. m - 1 \in 1..p - 1 /\ (m - 1) + 1 = m /\ m - 1 \in 1..p
        BY <3>2
      <4>2. a[m] = a[m - 1] + l[m - 1] + 1 /\ s[a[m - 1] + l[m - 1]] = "/"
        BY <4>1, <1>4
      <4>3. PICK w, z \in Nat : w = a[m - 1] /\ z = l[m - 1]
        BY <4>1, <1>2, <1>3
      <4>4. u - 1 = w + z
        BY <4>2, <4>3, <2>3
      <4> QED BY <4>2, <4>3, <4>4
    <3> QED BY <3>1, <3>2
  <2>6. u + v <= n => s[u + v] = "/"
    <3>1. CASE m = p
      BY <3>1, <1>3, <2>3
    <3>2. CASE m # p
      <4>1. m \in 1..p - 1
        BY <3>2
      <4> QED BY <4>1, <1>4, <2>3
    <3> QED BY <3>1, <3>2
  <2>7. LevelAt(s, u, ls[m])
    <3>1. v = Len(ls[m]) /\ Spelled(s, u, ls[m]) /\ u + v <= n + 1 /\ ls[m] \in Seq(STRING)
      BY <1>1, <1>2, <1>5, <2>2, <2>3 DEF Texts0
    <3> QED BY <3>1, <2>4, <2>5, <2>6, <1>n DEF LevelAt
  <2>8. m < p => a[m] + l[m] <= n /\ a[m + 1] = a[m] + l[m] + 1
    BY <2>2, <1>4
  <2> QED BY <2>3, <2>7, <2>8, <1>3
<1> QED BY <1>9, <1>n, <1>p, <1>2

SameLevels(fs, ns, k) == \A l \in 1..k : fs[l] = <<"+">> \/ fs[l] = ns[l]

\* What f and n are split into, and where.
Splitting(f, n, fs, ns, a, c) ==
  /\ f \in Seq(STRING) /\ Valid(f) /\ n \in Seq(STRING)
  /\ fs \in Splits /\ ns \in Splits /\ Begin(a, fs, f, Len(f)) /\ Begin(c, ns, n, Len(n))
  /\ \A k \in 1..Len(ns) : ns[k] # <<>>

LEMMA HashIsLast ==
  ASSUME NEW f, NEW n, NEW fs, NEW ns, NEW a, NEW c, Splitting(f, n, fs, ns, a, c),
         NEW k \in 1..Len(fs), fs[k] = <<"#">>
  PROVE  k = Len(fs)
<1>0. Len(f) \in Nat /\ Len(fs) \in Nat
  BY LenProperties DEF Splitting, Splits
<1>1. /\ LevelAt(f, a[k], fs[k])
      /\ k < Len(fs) => a[k] + Len(fs[k]) <= Len(f)
  BY LevelsAt DEF Splitting
<1>2. a[k] = Len(f) /\ Len(fs[k]) = 1
  BY <1>1, WildLevels DEF Splitting
<1> QED BY <1>0, <1>1, <1>2

LEMMA LevelByLevel ==
  ASSUME NEW f, NEW n, NEW fs, NEW ns, NEW a, NEW c, Splitting(f, n, fs, ns, a, c), NEW m, Matching(m, f, n),
         NEW k \in Nat, k + 1 <= Len(fs), k + 1 <= Len(ns)
  PROVE  m[<<1, 1>>] <=> SameLevels(fs, ns, k) /\ m[<<a[k + 1], c[k + 1]>>]
<1>0. Len(f) \in Nat /\ Len(n) \in Nat
  BY LenProperties DEF Splitting
<1>p. PICK p \in Nat : p = Len(fs)
  BY LenProperties DEF Splitting, Splits
<1>q. PICK q \in Nat : q = Len(ns)
  BY LenProperties DEF Splitting, Splits
<1> DEFINE Upto(t) == m[<<1, 1>>] <=> SameLevels(fs, ns, t) /\ m[<<a[t + 1], c[t + 1]>>]
           A == {t \in Nat : t + 1 <= p /\ t + 1 <= q => Upto(t)}
<1>1. 0 \in A
  <2>1. SameLevels(fs, ns, 0)
    BY DEF SameLevels
  <2>2. a[0 + 1] = 1 /\ c[0 + 1] = 1
    BY DEF Splitting, Begin
  <2>3. Upto(0)
    BY <2>1, <2>2
  <2> HIDE DEF Upto
  <2> QED BY <2>3
<1>2. ASSUME NEW t \in Nat, Upto(t), t + 1 + 1 <= p, t + 1 + 1 <= q PROVE Upto(t + 1)
  <2>1. PICK k1 \in 1..p : k1 = t + 1 /\ k1 \in 1..q /\ k1 < p /\ k1 < q
    BY <1>2
  <2>2. PICK x : x = fs[k1]
    OBVIOUS
  <2>3. PICK y : y = ns[k1]
    OBVIOUS
  <2>4. LevelAt(f, a[k1], x) /\ a[k1] + Len(x) <= Len(f) /\ a[k1 + 1] = a[k1] + Len(x) + 1
    <3>1. k1 \in 1..Len(fs) /\ k1 < Len(fs)
      BY <1>p, <2>1
    <3> QED BY <3>1, <2>2, LevelsAt DEF Splitting
  <2>5. LevelAt(n, c[k1], y) /\ c[k1] + Len(y) <= Len(n) /\ c[k1 + 1] = c[k1] + Len(y) + 1
    <3>1. k1 \in 1..Len(ns) /\ k1 < Len(ns)
      BY <1>q, <2>1
    <3> QED BY <3>1, <2>3, LevelsAt DEF Splitting
  <2>6. x # <<"#">> /\ y # <<>>
    <3>1. k1 \in 1..Len(fs) /\ k1 # Len(fs) /\ k1 \in 1..Len(ns)
      BY <1>p, <1>q, <2>1
    <3> QED BY <3>1, <2>2, <2>3, HashIsLast DEF Splitting
  <2>7. PICK i \in 1..Len(f) : i = a[k1] + Len(x) /\ f[i] = "/"
    BY <1>0, <2>4, BehindLevel
  <2>8. PICK j \in 1..Len(n) : j = c[k1] + Len(y) /\ n[j] = "/"
    BY <1>0, <2>5, BehindLevel
  <2>9. m[<<a[k1], c[k1]>>] <=> (x = <<"+">> \/ x = y) /\ m[<<i, j>>]
    <3>1. f \in Seq(STRING) /\ Valid(f) /\ n \in Seq(STRING)
      BY DEF Splitting
    <3>2. m[<<a[k1], c[k1]>>] <=> (x = <<"+">> \/ x = y) /\ m[<<a[k1] + Len(x), c[k1] + Len(y)>>]
      BY <3>1, <2>4, <2>5, <2>6, LevelMatch
    <3> QED BY ONLY <3>2, <2>7, <2>8
  <2>10. m[<<i, j>>] <=> m[<<i + 1, j + 1>>]
    <3>1. m[<<i, j>>] = Body(m, f, n, i, j)
      BY <1>0 DEF Matching
    <3>2. ~(i > Len(f) \/ j > Len(n))
      BY <1>0
    <3>3. Body(m, f, n, i, j) <=> m[<<i + 1, j + 1>>]
      BY <3>2, <2>7, <2>8 DEF Body
    <3> QED BY <3>1, <3>3
  <2>11. SameLevels(fs, ns, t + 1) <=> SameLevels(fs, ns, t) /\ (x = <<"+">> \/ x = y)
    <3>1. \A u \in 1..t + 1 : u \in 1..t \/ u = t + 1
      OBVIOUS
    <3>2. \A u \in 1..t : u \in 1..t + 1
      OBVIOUS
    <3>3. t + 1 \in 1..t + 1
      OBVIOUS
    <3> QED BY ONLY <3>1, <3>2, <3>3, <2>1, <2>2, <2>3 DEF SameLevels
  <2>12. a[t + 1 + 1] = i + 1 /\ c[t + 1 + 1] = j + 1 /\ a[t + 1] = a[k1] /\ c[t + 1] = c[k1]
    BY <2>1, <2>4, <2>5, <2>7, <2>8
  <2> QED BY <1>2, <2>9, <2>10, <2>11, <2>12
<1>3. \A t \in Nat : t \in A => t + 1 \in A
  <2>1. \A t \in Nat : t + 1 + 1 <= p /\ t + 1 + 1 <= q => t + 1 <= p /\ t + 1 <= q
    OBVIOUS
  <2> HIDE DEF Upto
  <2> QED BY <1>2, <2>1
<1>4. Nat \subseteq A
  <2> HIDE DEF A
  <2> QED BY <1>1, <1>3, SetInduction
<1>5. Upto(k)
  <2> HIDE DEF Upto
  <2> QED BY <1>4, <1>p, <1>q
<1> QED BY <1>5

\* Level by level: the character loop decides what the standard says of the levels.
LEMMA MatchedByLevels ==
  ASSUME NEW f, NEW n, NEW fs, NEW ns, NEW a, NEW c, Splitting(f, n, fs, ns, a, c), NEW m, Matching(m, f, n),
         NEW p \in Nat, p = Len(fs), NEW q \in Nat, q = Len(ns)
  PROVE  /\ fs[p] = <<"#">> /\ q >= p => (m[<<1, 1>>] <=> SameLevels(fs, ns, p - 1))
         /\ fs[p] # <<"#">> => (m[<<1, 1>>] <=> p = q /\ SameLevels(fs, ns, p))
<1>0. Len(f) \in Nat /\ Len(n) \in Nat /\ p # 0 /\ q # 0
  BY LenProperties, EmptySeq DEF Splitting, Splits
<1>b. ASSUME NEW i \in 1..Len(f) + 1, NEW j \in 1..Len(n) + 1, i > Len(f) \/ j > Len(n)
      PROVE  m[<<i, j>>] <=> i > Len(f) /\ j > Len(n)
  <2>1. m[<<i, j>>] = Body(m, f, n, i, j)
    BY DEF Matching
  <2> QED BY <2>1, <1>b DEF Body
<1>s. ASSUME NEW k \in Nat, k + 1 <= p, k + 1 <= q
      PROVE  m[<<1, 1>>] <=> SameLevels(fs, ns, k) /\ m[<<a[k + 1], c[k + 1]>>]
  BY <1>s, LevelByLevel
<1>l. ASSUME NEW k \in 1..p, k \in 1..q
      PROVE  \E i \in 1..Len(f) + 1 : \E j \in 1..Len(n) + 1 :
               /\ k = p => i = Len(f) + 1
               /\ k < p => i <= Len(f)
               /\ k = q => j = Len(n) + 1
               /\ k < q => j <= Len(n)
               /\ fs[k] # <<"#">> =>
                    (m[<<a[k], c[k]>>] <=> (fs[k] = <<"+">> \/ fs[k] = ns[k]) /\ m[<<i, j>>])
               /\ fs[k] = <<"#">> => m[<<a[k], c[k]>>]
  <2>1. PICK x : x = fs[k]
    OBVIOUS
  <2>2. PICK y : y = ns[k]
    OBVIOUS
  <2>4. /\ LevelAt(f, a[k], x)
        /\ k = p => a[k] + Len(x) = Len(f) + 1
        /\ k < p => a[k] + Len(x) <= Len(f)
    <3>1. k \in 1..Len(fs)
      OBVIOUS
    <3> QED BY <3>1, <2>1, LevelsAt DEF Splitting
  <2>5. /\ LevelAt(n, c[k], y) /\ y # <<>>
        /\ k = q => c[k] + Len(y) = Len(n) + 1
        /\ k < q => c[k] + Len(y) <= Len(n)
    BY <1>l, <2>2, LevelsAt DEF Splitting
  <2>6. PICK i \in 1..Len(f) + 1 : i = a[k] + Len(x)
    BY <1>0, <2>4, BehindLevel
  <2>7. PICK j \in 1..Len(n) + 1 : j = c[k] + Len(y)
    BY <1>0, <2>5, BehindLevel
  <2>8. /\ x # <<"#">> => (m[<<a[k], c[k]>>] <=> (x = <<"+">> \/ x = y) /\ m[<<i, j>>])
        /\ x = <<"#">> => m[<<a[k], c[k]>>]
    <3>1. f \in Seq(STRING) /\ Valid(f) /\ n \in Seq(STRING)
      BY DEF Splitting
    <3>2. /\ x # <<"#">> =>
              (m[<<a[k], c[k]>>] <=> (x = <<"+">> \/ x = y) /\ m[<<a[k] + Len(x), c[k] + Len(y)>>])
          /\ x = <<"#">> => m[<<a[k], c[k]>>]
      BY <3>1, <2>4, <2>5, LevelMatch
    <3> QED BY ONLY <3>2, <2>6, <2>7
  <2> QED BY <2>1, <2>2, <2>4, <2>5, <2>6, <2>7, <2>8
<1>a. ASSUME NEW k \in Nat
      PROVE  SameLevels(fs, ns, k + 1) <=> SameLevels(fs, ns, k) /\ (fs[k + 1] = <<"+">> \/ fs[k + 1] = ns[k + 1])
  <2>1. \A u \in 1..k + 1 : u \in 1..k \/ u = k + 1
    OBVIOUS
  <2>2. \A u \in 1..k : u \in 1..k + 1
    OBVIOUS
  <2>3. k + 1 \in 1..k + 1
    OBVIOUS
  <2> QED BY ONLY <2>1, <2>2, <2>3 DEF SameLevels
<1>1. CASE p <= q
  <2>1. PICK k \in Nat : k = p - 1 /\ k + 1 = p
    BY <1>0
  <2>2. m[<<1, 1>>] <=> SameLevels(fs, ns, k) /\ m[<<a[p], c[p]>>]
    <3>1. k + 1 <= p /\ k + 1 <= q
      BY <2>1, <1>1
    <3>2. m[<<1, 1>>] <=> SameLevels(fs, ns, k) /\ m[<<a[k + 1], c[k + 1]>>]
      BY <3>1, <1>s
    <3> QED BY <3>2, <2>1
  <2>3. p \in 1..p /\ p \in 1..q
    BY <1>0, <1>1
  <2>4. PICK i \in 1..Len(f) + 1, j \in 1..Len(n) + 1 :
               /\ p = p => i = Len(f) + 1
               /\ p = q => j = Len(n) + 1
               /\ p < q => j <= Len(n)
               /\ fs[p] # <<"#">> =>
                    (m[<<a[p], c[p]>>] <=> (fs[p] = <<"+">> \/ fs[p] = ns[p]) /\ m[<<i, j>>])
               /\ fs[p] = <<"#">> => m[<<a[p], c[p]>>]
    BY <2>3, <1>l
  <2>5. m[<<i, j>>] <=> p = q
    BY <2>4, <1>b, <1>0, <1>1
  <2>6. SameLevels(fs, ns, p) <=> SameLevels(fs, ns, k) /\ (fs[p] = <<"+">> \/ fs[p] = ns[p])
    <3>1. SameLevels(fs, ns, k + 1) <=> SameLevels(fs, ns, k) /\ (fs[k + 1] = <<"+">> \/ fs[k + 1] = ns[k + 1])
      BY <1>a
    <3> QED BY <3>1, <2>1
  <2> QED BY <2>1, <2>2, <2>4, <2>5, <2>6
<1>2. CASE p > q
  <2>1. PICK k \in Nat : k = q - 1 /\ k + 1 = q
    BY <1>0
  <2>2. m[<<1, 1>>] <=> SameLevels(fs, ns, k) /\ m[<<a[q], c[q]>>]
    <3>1. k + 1 <= p /\ k + 1 <= q
      BY <2>1, <1>2
    <3>2. m[<<1, 1>>] <=> SameLevels(fs, ns, k) /\ m[<<a[k + 1], c[k + 1]>>]
      BY <3>1, <1>s
    <3> QED BY <3>2, <2>1
  <2>3. q \in 1..p /\ q \in 1..q
    BY <1>0, <1>2
  <2>4. fs[q] # <<"#">>
    BY <2>3, <1>2, HashIsLast
  <2>5. PICK i \in 1..Len(f) + 1, j \in 1..Len(n) + 1 :
               /\ q < p => i <= Len(f)
               /\ q = q => j = Len(n) + 1
               /\ fs[q] # <<"#">> =>
                    (m[<<a[q], c[q]>>] <=> (fs[q] = <<"+">> \/ fs[q] = ns[q]) /\ m[<<i, j>>])
    BY <2>3, <1>l
  <2>6. ~m[<<i, j>>]
    BY <2>5, <1>b, <1>0, <1>2
  <2> QED BY <2>2, <2>4, <2>5, <2>6, <1>2
<1> QED BY <1>1, <1>2

LEMMA MatchedAsStandard ==
  ASSUME NEW f \in Seq(STRING), Valid(f), NEW n \in Seq(STRING), WildcardsApply(f, n)
  PROVE  IsTopicMatched(f, n) <=> Matches(f, n)
<1>1. PICK m : Matching(m, f, n) /\ IsTopicMatched(f, n) = m[<<1, 1>>]
  BY MatchingExists
<1>2. PICK fs : fs = Levels(f)
  OBVIOUS
<1>3. PICK ns : ns = Levels(n)
  OBVIOUS
<1>4. fs \in Splits /\ ns \in Splits
  BY <1>2, <1>3, LevelsBegin
<1>5. PICK a : Begin(a, fs, f, Len(f))
  BY <1>2, LevelsBegin
<1>6. PICK c : Begin(c, ns, n, Len(n))
  BY <1>3, LevelsBegin
<1>7. PICK p \in Nat : p = Len(fs)
  BY <1>4, LenProperties DEF Splits
<1>8. PICK q \in Nat : q = Len(ns) /\ DOMAIN ns = 1..q
  BY <1>4, LenProperties DEF Splits
<1>9. Splitting(f, n, fs, ns, a, c)
  BY <1>3, <1>4, <1>5, <1>6, <1>8 DEF Splitting, WildcardsApply
<1>10. fs[p] = <<"#">> => q >= p
  BY <1>2, <1>3, <1>7, <1>8 DEF WildcardsApply, Last
<1>11. Matches(f, n) <=> IF fs[p] = <<"#">> THEN q >= p - 1 /\ SameLevels(fs, ns, p - 1)
                         ELSE q = p /\ SameLevels(fs, ns, p)
  BY <1>2, <1>3, <1>7, <1>8 DEF Matches, Last, SameLevels
<1>12. q >= p => q >= p - 1
  OBVIOUS
<1>13. /\ fs[p] = <<"#">> /\ q >= p => (m[<<1, 1>>] <=> SameLevels(fs, ns, p - 1))
       /\ fs[p] # <<"#">> => (m[<<1, 1>>] <=> p = q /\ SameLevels(fs, ns, p))
  BY <1>1, <1>7, <1>8, <1>9, MatchedByLevels
<1> QED BY <1>1, <1>10, <1>11, <1>12, <1>13

\* How often e is in s.
Occurs(s, e) == Cardinality({k \in DOMAIN s : s[k] = e})

LEMMA OccursAppend ==
  ASSUME NEW S, NEW s \in Seq(S), NEW x \in S, NEW e
  PROVE  /\ Occurs(s, e) \in Nat
         /\ Occurs(Append(s, x), e) = IF x = e THEN Occurs(s, e) + 1 ELSE Occurs(s, e)
<1>1. PICK n \in Nat : n = Len(s) /\ DOMAIN s = 1..n
  BY LenProperties
<1>2. PICK t : t = Append(s, x)
  OBVIOUS
<1>3. DOMAIN t = 1..n + 1 /\ t[n + 1] = x /\ \A k \in 1..n : t[k] = s[k]
  BY <1>1, <1>2, AppendProperties
<1> DEFINE A == {k \in DOMAIN s : s[k] = e}
           B == {k \in DOMAIN t : t[k] = e}
<1>4. IsFiniteSet(A) /\ Cardinality(A) \in Nat
  <2>1. IsFiniteSet(1..n)
    BY FS_Interval
  <2>2. A \subseteq 1..n
    BY <1>1
  <2> HIDE DEF A
  <2> QED BY <2>1, <2>2, FS_Subset, FS_CardinalityType
<1>5. B = IF x = e THEN A \cup {n + 1} ELSE A
  <2>1. \A k \in 1..n + 1 : k \in 1..n \/ k = n + 1
    OBVIOUS
  <2> QED BY <2>1, <1>1, <1>3
<1>6. n + 1 \notin A
  BY <1>1
<1> HIDE DEF A, B
<1>7. Cardinality(B) = IF x = e THEN Cardinality(A) + 1 ELSE Cardinality(A)
  BY <1>4, <1>5, <1>6, FS_AddElement
<1>8. Occurs(s, e) = Cardinality(A) /\ Occurs(t, e) = Cardinality(B)
  BY DEF Occurs, A, B
<1> QED BY <1>2, <1>4, <1>7, <1>8

LEMMA OccursNone ==
  ASSUME NEW S, NEW s \in Seq(S), NEW e
  PROVE  /\ e \notin S => Occurs(s, e) = 0
         /\ s # <<>> => Occurs(s, s[1]) # 0
<1>1. PICK n \in Nat : n = Len(s) /\ DOMAIN s = 1..n
  BY LenProperties
<1>2. ASSUME e \notin S PROVE Occurs(s, e) = 0
  <2>1. \A k \in 1..n : s[k] # e
    BY <1>1, <1>2, ElementOfSeq
  <2>2. {k \in DOMAIN s : s[k] = e} = {}
    BY <1>1, <2>1
  <2> QED BY <2>2, FS_EmptySet DEF Occurs
<1>3. ASSUME s # <<>> PROVE Occurs(s, s[1]) # 0
  <2>1. 1 \in 1..n
    BY <1>1, <1>3, EmptySeq
  <2> DEFINE A == {k \in DOMAIN s : s[k] = s[1]}
  <2>2. 1 \in A /\ A \subseteq 1..n
    BY <1>1, <2>1
  <2>3. IsFiniteSet(1..n)
    BY FS_Interval
  <2> HIDE DEF A
  <2>4. Cardinality(A) # 0
    BY <2>2, <2>3, FS_Subset, FS_EmptySet
  <2> QED BY <2>4 DEF Occurs, A
<1> QED BY <1>2, <1>3

LEMMA FirstSlotIs ==
  ASSUME NEW S, S \subseteq Nat, S # {}
  PROVE  FirstSlot(S) \in S /\ \A j \in S : FirstSlot(S) <= j
<1>1. \E i \in S : \A j \in S : i <= j
  <2> DEFINE A == {k \in Nat : (\E x \in S : x <= k) => \E i \in S : \A j \in S : i <= j}
  <2>1. 0 \in A
    <3>1. ASSUME NEW x \in S, x <= 0 PROVE \A j \in S : x <= j
      BY <3>1
    <3> QED BY <3>1
  <2>2. \A k \in Nat : k \in A => k + 1 \in A
    <3> TAKE k \in Nat
    <3> HAVE k \in A
    <3>1. ASSUME NEW x \in S, x <= k + 1 PROVE \E i \in S : \A j \in S : i <= j
      <4>1. CASE \E y \in S : y <= k
        BY <4>1
      <4>2. CASE \A y \in S : ~(y <= k)
        <5>1. \A j \in S : x <= j
          BY <3>1, <4>2
        <5> QED BY <5>1
      <4> QED BY <4>1, <4>2
    <3> QED BY <3>1
  <2>3. Nat \subseteq A
    <3> HIDE DEF A
    <3> QED BY <2>1, <2>2, SetInduction
  <2>4. PICK x \in S : TRUE
    OBVIOUS
  <2>5. x \in A /\ x <= x
    <3>1. x \in Nat
      OBVIOUS
    <3> HIDE DEF A
    <3> QED BY <3>1, <2>3
  <2> QED BY <2>4, <2>5
<1> QED BY <1>1 DEF FirstSlot

-----------------------------------------------------------------------------

Positions ==
  [at : {"idle", "loop", "callback", "done"}, slot : Nat \ {0}, changes : Nat, start : Nat]
\* Only a packet read puts that character into a topic.
Clean(n) == \A k \in DOMAIN n : n[k] # Overwritten

\* What isTopicMatched and the comparison before it say of the message's own topic.
Wanted(f) == f = name \/ IsTopicMatched(f, name)

\* Each filter has one slot.
Single(h) == \A i, j \in Slot : h[i] = h[j] /\ h[i] # Free => i = j
Kept(h, k) == \A f \in k : f \in Filters /\ \E i \in Slot : h[i] = f
\* The handlers of the slots below bound have been called if the message is for them.
CalledBelow(h, k, c, bound) ==
  \A i \in Slot : h[i] \in k => Occurs(c, h[i]) = IF i < bound /\ Wanted(h[i]) THEN 1 ELSE 0

TopicType ==
  /\ handlers \in [Slot -> Filters \cup {Free}] /\ Single(handlers)
  /\ delivery \in Positions
  /\ name \in Seq(STRING) /\ Clean(name)
  /\ topic = [k \in DOMAIN topic |-> topic[k]]
  /\ Kept(handlers, kept)

CalledInv ==
  /\ delivery.at \in {"loop", "callback"} => called \in Seq(Filters)
  /\ delivery.at = "done" => called = <<Default>> \/ called \in Seq(Filters) \ {<<>>}
  /\ delivery.at \in {"loop", "callback"} /\ topic = name =>
       CalledBelow(handlers, kept, called, delivery.slot)
  /\ delivery.at = "done" /\ topic = name => CalledBelow(handlers, kept, called, HandlerSlots + 1)

TopicInv == TopicType /\ CalledInv

LEMMA SetHandlerIs ==
  ASSUME TopicAssumption, handlers \in [Slot -> Filters \cup {Free}], Single(handlers), NEW f \in Filters
  PROVE  /\ SetHandler(f) \in [Slot -> Filters \cup {Free}] /\ Single(SetHandler(f))
         /\ \A i \in Slot : SetHandler(f)[i] = handlers[i] \/ (handlers[i] = Free /\ SetHandler(f)[i] = f /\ ~Registered(f))
<1> DEFINE free == {i \in Slot : handlers[i] = Free}
<1>1. CASE Registered(f) \/ free = {}
  <2>1. SetHandler(f) = handlers
    BY <1>1 DEF SetHandler
  <2> QED BY <2>1
<1>2. CASE ~Registered(f) /\ free # {}
  <2>1. free \subseteq Nat
    BY DEF Slot
  <2>2. PICK j \in Slot : j = FirstSlot(free) /\ handlers[j] = Free
    <3>1. FirstSlot(free) \in free
      <4> HIDE DEF free
      <4> QED BY <1>2, <2>1, FirstSlotIs
    <3> QED BY <3>1
  <2>3. PICK h : h = [handlers EXCEPT ![j] = f]
    OBVIOUS
  <2>4. SetHandler(f) = h
    BY <1>2, <2>2, <2>3 DEF SetHandler
  <2>5. h \in [Slot -> Filters \cup {Free}] /\ h[j] = f /\ \A i \in Slot : i # j => h[i] = handlers[i]
    BY <2>3
  <2>6. \A i \in Slot : handlers[i] # f
    BY <1>2 DEF Registered
  <2>7. Single(h)
    BY <2>5, <2>6 DEF Single
  <2> QED BY <2>2, <2>4, <2>5, <2>7, <1>2
<1> QED BY <1>1, <1>2

LEMMA RemoveHandlerIs ==
  ASSUME TopicAssumption, handlers \in [Slot -> Filters \cup {Free}], Single(handlers), NEW f \in Filters, Registered(f)
  PROVE  /\ RemoveHandler(f) \in [Slot -> Filters \cup {Free}] /\ Single(RemoveHandler(f))
         /\ \A i \in Slot : RemoveHandler(f)[i] = IF handlers[i] = f THEN Free ELSE handlers[i]
<1>1. PICK j \in Slot : j = SlotOf(f) /\ handlers[j] = f
  BY DEF Registered, SlotOf
<1>2. PICK h : h = [handlers EXCEPT ![j] = Free]
  OBVIOUS
<1>3. RemoveHandler(f) = h
  BY <1>1, <1>2 DEF RemoveHandler
<1>4. h \in [Slot -> Filters \cup {Free}] /\ h[j] = Free /\ \A i \in Slot : i # j => h[i] = handlers[i]
  BY <1>2
<1>5. f # Free
  BY DEF TopicAssumption
<1>6. \A i \in Slot : handlers[i] = f => i = j
  BY <1>1, <1>5 DEF Single
<1>7. \A i \in Slot : h[i] = IF handlers[i] = f THEN Free ELSE handlers[i]
  BY <1>1, <1>4, <1>6
<1>8. Single(h)
  BY <1>4 DEF Single
<1> QED BY <1>3, <1>4, <1>7, <1>8

\* Bytes that are taken do not become the message's topic again.
LEMMA TopicAfterIs ==
  ASSUME topic = [k \in DOMAIN topic |-> topic[k]], Clean(name), NEW last
  PROVE  /\ TopicAfter(last) = [k \in DOMAIN TopicAfter(last) |-> TopicAfter(last)[k]]
         /\ TopicAfter(last) = name => topic = name
<1> DEFINE gone(k) == delivery.start + k - 1 <= last
<1>1. TopicAfter(last) = [k \in DOMAIN topic |-> IF gone(k) THEN Overwritten ELSE topic[k]]
  BY DEF TopicAfter
<1> HIDE DEF gone
<1>2. DOMAIN TopicAfter(last) = DOMAIN topic
  BY <1>1
<1>3. TopicAfter(last) = [k \in DOMAIN TopicAfter(last) |-> TopicAfter(last)[k]]
  BY <1>1
<1>4. ASSUME TopicAfter(last) = name PROVE topic = name
  <2>1. \A k \in DOMAIN topic : ~gone(k)
    BY <1>1, <1>2, <1>4 DEF Clean
  <2>2. TopicAfter(last) = [k \in DOMAIN topic |-> topic[k]]
    BY <1>1, <2>1
  <2> QED BY <1>4, <2>2
<1> QED BY <1>3, <1>4

LEMMA TopicInitInv == TopicAssumption /\ TopicInit => TopicInv
<1> SUFFICES ASSUME TopicAssumption, TopicInit PROVE TopicInv
  OBVIOUS
<1>1. handlers \in [Slot -> Filters \cup {Free}] /\ Single(handlers)
  BY DEF TopicInit, Single
<1>2. delivery = Idle /\ delivery \in Positions /\ delivery.at = "idle"
  BY DEF TopicInit, Idle, Positions
<1>3. name \in Seq(STRING) /\ topic = name /\ Clean(name) /\ topic = [k \in DOMAIN topic |-> topic[k]]
  <2>1. name = <<>> /\ topic = <<>> /\ DOMAIN <<>> = {}
    BY DEF TopicInit
  <2> QED BY <2>1, EmptySeq DEF Clean
<1>4. Kept(handlers, kept)
  BY DEF TopicInit, Kept
<1> QED BY <1>1, <1>2, <1>3, <1>4 DEF TopicInv, TopicType, CalledInv

LEMMA TopicNextInv == TopicAssumption /\ TopicInv /\ [TopicNext]_topicVars => TopicInv'
<1> SUFFICES ASSUME TopicAssumption, TopicInv, [TopicNext]_topicVars PROVE TopicInv'
  OBVIOUS
<1>t. /\ handlers \in [Slot -> Filters \cup {Free}] /\ Single(handlers)
      /\ delivery \in Positions /\ name \in Seq(STRING) /\ Clean(name)
      /\ topic = [k \in DOMAIN topic |-> topic[k]]
      /\ Kept(handlers, kept)
  BY DEF TopicInv, TopicType
<1>c. /\ delivery.at \in {"loop", "callback"} => called \in Seq(Filters)
      /\ delivery.at = "done" => called = <<Default>> \/ called \in Seq(Filters) \ {<<>>}
      /\ delivery.at \in {"loop", "callback"} /\ topic = name =>
           CalledBelow(handlers, kept, called, delivery.slot)
      /\ delivery.at = "done" /\ topic = name => CalledBelow(handlers, kept, called, HandlerSlots + 1)
  BY DEF TopicInv, CalledInv
<1>d. /\ delivery.slot \in Nat \ {0}
      /\ \A p \in {"idle", "loop", "callback", "done"} :
           /\ [delivery EXCEPT !.at = p] \in Positions /\ [delivery EXCEPT !.at = p].at = p
           /\ [delivery EXCEPT !.at = p].slot = delivery.slot
      /\ [delivery EXCEPT !.changes = @ + 1] \in Positions
      /\ [delivery EXCEPT !.changes = @ + 1].at = delivery.at
      /\ [delivery EXCEPT !.changes = @ + 1].slot = delivery.slot
  BY <1>t DEF Positions
<1>1. ASSUME NEW f \in Filters, Subscribe(f) PROVE TopicInv'
  <2>1. handlers' \in [Slot -> Filters \cup {Free}] /\ Single(handlers')
        /\ \A i \in Slot : handlers[i] # Free => handlers'[i] = handlers[i]
    BY <1>1, <1>t, SetHandlerIs DEF Subscribe
  <2>2. Kept(handlers', kept)
    BY <2>1, <1>t DEF Kept, TopicAssumption
  <2>3. delivery.at = "idle" /\ UNCHANGED <<topic, delivery, name, called, kept>>
    BY <1>1 DEF Subscribe
  <2> QED BY <2>1, <2>2, <2>3, <1>t DEF TopicInv, TopicType, CalledInv
<1>2. ASSUME NEW n \in Names, NEW start \in Starts, Receive(n, start) PROVE TopicInv'
  <2>1. delivery' \in Positions /\ delivery'.at = "loop" /\ delivery'.slot = 1
    <3>1. start \in Nat
      BY DEF Starts
    <3>2. delivery' = [Idle EXCEPT !.at = "loop", !.start = start]
      BY <1>2 DEF Receive
    <3>3. Idle = [at |-> "idle", slot |-> 1, changes |-> 0, start |-> 4]
      BY DEF Idle
    <3>4. delivery' = [at |-> "loop", slot |-> 1, changes |-> 0, start |-> start]
      BY <3>2, <3>3
    <3> QED BY <3>1, <3>4 DEF Positions
  <2>2. called' = <<>> /\ called' \in Seq(Filters) /\ \A e : Occurs(called', e) = 0
    <3>1. \A e : {k \in {} : <<>>[k] = e} = {}
      OBVIOUS
    <3>2. DOMAIN <<>> = {}
      OBVIOUS
    <3> QED BY <1>2, <3>1, <3>2, EmptySeq, FS_EmptySet DEF Receive, Occurs
  <2>3. Kept(handlers', kept')
    <3>1. handlers' = handlers /\ kept' = {handlers[i] : i \in Slot} \ {Free}
      BY <1>2 DEF Receive
    <3> QED BY <3>1, <1>t DEF Kept
  <2>4. /\ topic' = n /\ name' = n /\ n \in Seq(STRING) /\ handlers' = handlers
        /\ Clean(n) /\ n = [k \in DOMAIN n |-> n[k]]
    <3>1. n \in Seq(STRING) /\ Clean(n)
      BY DEF TopicAssumption, Clean
    <3>2. n = [k \in DOMAIN n |-> n[k]]
      BY <3>1
    <3> QED BY <1>2, <3>1, <3>2 DEF Receive
  <2>6. (Clean(name) /\ topic = [k \in DOMAIN topic |-> topic[k]])'
    BY <2>4 DEF Clean
  <2>5. CalledBelow(handlers, kept, called, 1)'
    <3>1. \A i \in Slot : ~(i < 1)
      BY DEF Slot
    <3> QED BY <2>2, <2>4, <3>1 DEF CalledBelow
  <2> QED BY <2>1, <2>2, <2>3, <2>4, <2>5, <2>6, <1>t DEF TopicInv, TopicType, CalledInv
<1>3. ASSUME CallHandler PROVE TopicInv'
  <2>1. delivery.at = "loop" /\ Due # {} /\ UNCHANGED <<handlers, topic, name, kept>>
    BY <1>3 DEF CallHandler
  <2>2. Due \subseteq Nat
    BY DEF Due, Slot
  <2>3. PICK i \in Due : i = FirstSlot(Due) /\ \A j \in Due : i <= j
    BY <2>1, <2>2, FirstSlotIs
  <2>4. /\ i \in Slot /\ i \in Nat \ {0} /\ i >= delivery.slot /\ handlers[i] \in Filters
        /\ handlers[i] = topic \/ IsTopicMatched(handlers[i], topic)
    <3>1. i \in Slot /\ i >= delivery.slot /\ handlers[i] # Free
      BY <2>3 DEF Due
    <3>2. handlers[i] = topic \/ IsTopicMatched(handlers[i], topic)
      BY <2>3 DEF Due
    <3>3. handlers[i] \in Filters
      BY <3>1, <1>t
    <3> QED BY <3>1, <3>2, <3>3 DEF Slot
  <2>5. /\ called' = Append(called, handlers[i])
        /\ delivery' = [delivery EXCEPT !.at = "callback", !.slot = i + 1]
    BY <1>3, <2>3 DEF CallHandler
  <2>6. delivery' \in Positions /\ delivery'.at = "callback" /\ delivery'.slot = i + 1
    <3>1. PICK p, c, b \in Nat : delivery = [at |-> "loop", slot |-> p, changes |-> c, start |-> b]
      BY <2>1, <1>t DEF Positions
    <3>2. delivery' = [at |-> "callback", slot |-> i + 1, changes |-> c, start |-> b]
      BY <3>1, <2>5
    <3>3. i + 1 \in Nat \ {0}
      BY <2>4
    <3> QED BY <3>1, <3>2, <3>3 DEF Positions
  <2>7. called \in Seq(Filters) /\ called' \in Seq(Filters)
    BY <2>1, <2>4, <2>5, <1>c, AppendProperties
  <2>8. \A e : /\ Occurs(called, e) \in Nat
               /\ Occurs(called', e) = IF handlers[i] = e THEN Occurs(called, e) + 1 ELSE Occurs(called, e)
    BY <2>4, <2>5, <2>7, OccursAppend
  <2>9. ASSUME topic = name PROVE CalledBelow(handlers, kept, called', i + 1)
    <3>1. CalledBelow(handlers, kept, called, delivery.slot)
      BY <2>1, <2>9, <1>c
    <3>2. ASSUME NEW j \in Slot, handlers[j] \in kept
          PROVE  Occurs(called', handlers[j]) = IF j < i + 1 /\ Wanted(handlers[j]) THEN 1 ELSE 0
      <4>0. handlers[j] \in Filters /\ handlers[j] # Free /\ j \in Nat
        BY <3>2, <1>t DEF Kept, TopicAssumption, Slot
      <4>1. Occurs(called, handlers[j]) = IF j < delivery.slot /\ Wanted(handlers[j]) THEN 1 ELSE 0
        BY <3>1, <3>2 DEF CalledBelow
      <4>2. CASE j = i
        <5>1. Wanted(handlers[i])
          BY <2>4, <2>9 DEF Wanted
        <5>2. Occurs(called, handlers[i]) = 0
          BY <4>1, <4>2, <2>4, <1>d
        <5>3. Occurs(called', handlers[i]) = 1
          BY <5>2, <2>8
        <5> QED BY <4>2, <5>1, <5>3, <2>4
      <4>3. CASE j # i
        <5>1. handlers[i] # handlers[j]
          BY <4>0, <4>3, <2>4, <1>t DEF Single
        <5>2. Occurs(called', handlers[j]) = Occurs(called, handlers[j])
          BY <5>1, <2>8
        <5>3. j < delivery.slot => j < i + 1
          BY <2>4, <1>d, <4>0
        <5>4. j < i + 1 /\ Wanted(handlers[j]) => j < delivery.slot
          <6>1. ASSUME j < i + 1, Wanted(handlers[j]), ~(j < delivery.slot) PROVE FALSE
            <7>1. j \in Due
              BY <6>1, <4>0, <1>d, <2>9 DEF Due, Wanted
            <7>2. i <= j
              BY <7>1, <2>3
            <7> QED BY <7>2, <6>1, <4>3, <4>0, <2>4
          <6> QED BY <6>1
        <5> QED BY <4>1, <5>2, <5>3, <5>4
      <4> QED BY <4>2, <4>3
    <3> QED BY <3>2 DEF CalledBelow
  <2>10. topic' = name' => CalledBelow(handlers, kept, called, i + 1)'
    <3>1. topic' = topic /\ name' = name /\ handlers' = handlers /\ kept' = kept
      BY <2>1
    <3>2. \A f : Wanted(f)' <=> Wanted(f)
      BY <3>1 DEF Wanted
    <3> QED BY <3>1, <3>2, <2>9 DEF CalledBelow
  <2> QED BY <2>1, <2>6, <2>7, <2>10, <1>t DEF TopicInv, TopicType, CalledInv
<1>4. ASSUME DeliveryEnds PROVE TopicInv'
  <2>1. /\ delivery.at = "loop" /\ Due = {} /\ UNCHANGED <<handlers, topic, name, kept>>
        /\ called' = (IF called = <<>> THEN <<Default>> ELSE called) /\ called \in Seq(Filters)
    BY <1>4, <1>c DEF DeliveryEnds
  <2>2. delivery' \in Positions /\ delivery'.at = "done"
    BY <1>4, <1>d DEF DeliveryEnds
  <2>3. ASSUME topic = name PROVE CalledBelow(handlers, kept, called', HandlerSlots + 1)
    <3>1. CalledBelow(handlers, kept, called, delivery.slot)
      BY <2>1, <2>3, <1>c
    <3>2. ASSUME NEW j \in Slot, handlers[j] \in kept
          PROVE  Occurs(called', handlers[j]) = IF j < HandlerSlots + 1 /\ Wanted(handlers[j]) THEN 1 ELSE 0
      <4>0. handlers[j] \in Filters /\ handlers[j] # Free /\ handlers[j] # Default /\ j \in Nat /\ j < HandlerSlots + 1
        BY <3>2, <1>t DEF Kept, TopicAssumption, Slot
      <4>1. Occurs(called, handlers[j]) = IF j < delivery.slot /\ Wanted(handlers[j]) THEN 1 ELSE 0
        BY <3>1, <3>2 DEF CalledBelow
      <4>2. Wanted(handlers[j]) => j < delivery.slot
        <5>1. j \notin Due
          BY <2>1
        <5> QED BY <5>1, <4>0, <1>d, <2>3 DEF Due, Wanted
      <4>3. Occurs(called', handlers[j]) = Occurs(called, handlers[j])
        <5>1. CASE called # <<>>
          BY <5>1, <2>1
        <5>2. CASE called = <<>>
          <6>1. called' = <<Default>>
            BY <5>2, <2>1
          <6>2. <<Default>> \in Seq({Default}) /\ <<>> \in Seq({Default})
            BY OneElement, EmptySeq
          <6>3. called \in Seq({Default}) /\ called' \in Seq({Default}) /\ handlers[j] \notin {Default}
            BY <4>0, <5>2, <6>1, <6>2
          <6>4. Occurs(called, handlers[j]) = 0 /\ Occurs(called', handlers[j]) = 0
            BY <6>3, OccursNone
          <6> QED BY <6>4
        <5> QED BY <5>1, <5>2
      <4> QED BY <4>0, <4>1, <4>2, <4>3
    <3> QED BY <3>2 DEF CalledBelow
  <2>4. (topic = name => CalledBelow(handlers, kept, called, HandlerSlots + 1))'
    <3>1. topic' = topic /\ name' = name /\ handlers' = handlers /\ kept' = kept
      BY <2>1
    <3>2. \A f : Wanted(f)' <=> Wanted(f)
      BY <3>1 DEF Wanted
    <3> QED BY <3>1, <3>2, <2>3 DEF CalledBelow
  <2>5. called' = <<Default>> \/ called' \in Seq(Filters) \ {<<>>}
    BY <2>1
  <2> QED BY <2>1, <2>2, <2>4, <2>5, <1>t DEF TopicInv, TopicType, CalledInv
<1>r. ASSUME NEW f \in Filters, NEW last \in Reached, CallbackCalls(last),
             handlers' = RemoveHandler(f), kept' = kept \ {f}
      PROVE  TopicInv'
  <2>1. /\ delivery.at = "callback" /\ UNCHANGED <<name, called>> /\ topic' = TopicAfter(last)
        /\ delivery' \in Positions /\ delivery'.at = delivery.at /\ delivery'.slot = delivery.slot
    BY <1>r, <1>d DEF CallbackCalls, MayChange
  <2>2. /\ handlers' \in [Slot -> Filters \cup {Free}] /\ Single(handlers')
        /\ \A i \in Slot : handlers'[i] = IF handlers[i] = f THEN Free ELSE handlers[i]
    <3>1. CASE Registered(f)
      BY <1>r, <1>t, <3>1, RemoveHandlerIs
    <3>2. CASE ~Registered(f)
      <4>1. handlers' = handlers /\ \A i \in Slot : handlers[i] # f
        BY <1>r, <3>2 DEF RemoveHandler, Registered
      <4> QED BY <4>1, <1>t
    <3> QED BY <3>1, <3>2
  <2>3. Kept(handlers', kept')
    BY <1>r, <2>1, <2>2, <1>t DEF Kept
  <2>4. topic' = [k \in DOMAIN topic' |-> topic'[k]] /\ (topic' = name' => topic = name)
    BY <2>1, <1>t, TopicAfterIs
  <2>5. (topic = name => CalledBelow(handlers, kept, called, delivery.slot))'
    <3>1. \A g : Wanted(g)' <=> Wanted(g)
      BY <2>1 DEF Wanted
    <3>2. \A i \in Slot : handlers'[i] \in kept' => handlers'[i] = handlers[i] /\ handlers[i] \in kept
      BY <1>r, <2>1, <2>2, <1>t DEF Kept, TopicAssumption
    <3>3. topic = name => CalledBelow(handlers, kept, called, delivery.slot)
      BY <2>1, <1>c
    <3> QED BY <2>1, <2>4, <3>1, <3>2, <3>3 DEF CalledBelow
  <2>6. Clean(name)'
    BY <2>1, <1>t DEF Clean
  <2> QED BY <2>1, <2>2, <2>3, <2>4, <2>5, <2>6, <1>t, <1>c DEF TopicInv, TopicType, CalledInv
<1>5. ASSUME NEW f \in Filters, NEW last \in Reached,
             CallbackUnsubscribes(f, last) \/ CallbackSubscribesInVain(f, last)
      PROVE  TopicInv'
  <2>1. CallbackCalls(last) /\ handlers' = RemoveHandler(f) /\ kept' = kept \ {f}
    BY <1>5 DEF CallbackUnsubscribes, CallbackSubscribesInVain
  <2> QED BY <1>r, <2>1
<1>s. ASSUME NEW last \in Reached, CallbackCalls(last), UNCHANGED kept,
             handlers' \in [Slot -> Filters \cup {Free}], Single(handlers'),
             \A i \in Slot : handlers'[i] = handlers[i]
               \/ (handlers[i] = Free /\ \A j \in Slot : handlers[j] # handlers'[i])
      PROVE  TopicInv'
  <2>1. /\ delivery.at = "callback" /\ UNCHANGED <<name, called, kept>> /\ topic' = TopicAfter(last)
        /\ delivery' \in Positions /\ delivery'.at = delivery.at /\ delivery'.slot = delivery.slot
    BY <1>s, <1>d DEF CallbackCalls, MayChange
  <2>3. Kept(handlers', kept')
    BY <1>s, <2>1, <1>t DEF Kept, TopicAssumption
  <2>4. topic' = [k \in DOMAIN topic' |-> topic'[k]] /\ (topic' = name' => topic = name)
    BY <2>1, <1>t, TopicAfterIs
  <2>5. (topic = name => CalledBelow(handlers, kept, called, delivery.slot))'
    <3>1. \A g : Wanted(g)' <=> Wanted(g)
      BY <2>1 DEF Wanted
    <3>2. \A i \in Slot : handlers'[i] \in kept' => handlers'[i] = handlers[i] /\ handlers[i] \in kept
      BY <1>s, <2>1, <1>t DEF Kept
    <3>3. topic = name => CalledBelow(handlers, kept, called, delivery.slot)
      BY <2>1, <1>c
    <3> QED BY <2>1, <2>4, <3>1, <3>2, <3>3 DEF CalledBelow
  <2>6. Clean(name)'
    BY <2>1, <1>t DEF Clean
  <2> QED BY <1>s, <2>1, <2>3, <2>4, <2>5, <2>6, <1>t, <1>c DEF TopicInv, TopicType, CalledInv
<1>6. ASSUME NEW f \in Filters, NEW last \in Reached, CallbackSubscribes(f, last) PROVE TopicInv'
  <2>1. CallbackCalls(last) /\ UNCHANGED kept /\ handlers' = SetHandler(f)
    BY <1>6 DEF CallbackSubscribes
  <2>2. /\ handlers' \in [Slot -> Filters \cup {Free}] /\ Single(handlers')
        /\ \A i \in Slot : handlers'[i] = handlers[i]
             \/ (handlers[i] = Free /\ handlers'[i] = f /\ ~Registered(f))
    BY <2>1, <1>t, SetHandlerIs
  <2>3. \A i \in Slot : handlers'[i] = handlers[i]
          \/ (handlers[i] = Free /\ \A j \in Slot : handlers[j] # handlers'[i])
    BY <2>2 DEF Registered
  <2> QED BY <1>s, <2>1, <2>2, <2>3
<1>10. ASSUME NEW last \in Reached, CallbackReads(last) PROVE TopicInv'
  <2>1. CallbackCalls(last) /\ UNCHANGED <<handlers, kept>>
    BY <1>10 DEF CallbackReads
  <2> QED BY <1>s, <2>1, <1>t
<1>7. ASSUME CallbackReturns PROVE TopicInv'
  <2>1. /\ delivery.at = "callback" /\ UNCHANGED <<handlers, topic, name, called, kept>>
        /\ delivery' \in Positions /\ delivery'.at = "loop" /\ delivery'.slot = delivery.slot
    BY <1>7, <1>d DEF CallbackReturns
  <2>2. (topic = name => CalledBelow(handlers, kept, called, delivery.slot))'
    <3>1. \A g : Wanted(g)' <=> Wanted(g)
      BY <2>1 DEF Wanted
    <3>2. topic = name => CalledBelow(handlers, kept, called, delivery.slot)
      BY <2>1, <1>c
    <3> QED BY <2>1, <3>1, <3>2 DEF CalledBelow
  <2> QED BY <2>1, <2>2, <1>t, <1>c DEF TopicInv, TopicType, CalledInv
<1>8. ASSUME CycleEnds PROVE TopicInv'
  <2>1. /\ delivery' = Idle /\ Idle \in Positions /\ Idle.at = "idle"
        /\ topic' = <<>> /\ name' = <<>> /\ name' \in Seq(STRING) /\ kept' = {} /\ handlers' = handlers
    BY <1>8, EmptySeq DEF CycleEnds, Idle, Positions
  <2>3. (Clean(name) /\ topic = [k \in DOMAIN topic |-> topic[k]])'
    <3>1. DOMAIN <<>> = {}
      OBVIOUS
    <3> QED BY <2>1, <3>1 DEF Clean
  <2>2. Kept(handlers', kept')
    BY <2>1 DEF Kept
  <2> QED BY <2>1, <2>2, <2>3, <1>t DEF TopicInv, TopicType, CalledInv
<1>9. CASE UNCHANGED topicVars
  <2>1. UNCHANGED <<handlers, topic, delivery, name, called, kept>>
    BY <1>9 DEF topicVars
  <2>2. \A g : Wanted(g)' <=> Wanted(g)
    BY <2>1 DEF Wanted
  <2>3. \A b : CalledBelow(handlers, kept, called, b)' <=> CalledBelow(handlers, kept, called, b)
    BY <2>1, <2>2 DEF CalledBelow
  <2> QED BY <2>1, <2>3, <1>t, <1>c DEF TopicInv, TopicType, CalledInv
<1>11. ASSUME TopicNext PROVE TopicInv'
  <2>1. CASE \E f \in Filters : Subscribe(f)
    BY <1>1, <2>1
  <2>2. CASE \E f \in Filters, last \in Reached :
               CallbackUnsubscribes(f, last) \/ CallbackSubscribes(f, last) \/ CallbackSubscribesInVain(f, last)
    <3>1. PICK f \in Filters, last \in Reached :
            CallbackUnsubscribes(f, last) \/ CallbackSubscribes(f, last) \/ CallbackSubscribesInVain(f, last)
      BY <2>2
    <3> QED BY <1>5, <1>6, <3>1
  <2>3. CASE \E last \in Reached : CallbackReads(last)
    BY <1>10, <2>3
  <2>4. CASE \E n \in Names, start \in Starts : Receive(n, start)
    <3>1. PICK n \in Names, start \in Starts : Receive(n, start)
      BY <2>4
    <3> QED BY <1>2, <3>1
  <2>5. CASE CallHandler \/ CallbackReturns \/ DeliveryEnds \/ CycleEnds
    BY <1>3, <1>4, <1>7, <1>8, <2>5
  <2>6. \/ \E f \in Filters : Subscribe(f)
        \/ \E f \in Filters, last \in Reached :
             CallbackUnsubscribes(f, last) \/ CallbackSubscribes(f, last) \/ CallbackSubscribesInVain(f, last)
        \/ \E last \in Reached : CallbackReads(last)
        \/ \E n \in Names, start \in Starts : Receive(n, start)
        \/ CallHandler \/ CallbackReturns \/ DeliveryEnds \/ CycleEnds
    BY ONLY <1>11 DEF TopicNext
  <2> QED BY ONLY <2>1, <2>2, <2>3, <2>4, <2>5, <2>6
<1> QED BY <1>9, <1>11

LEMMA TopicInvPromise == TopicAssumption /\ TopicInv => DeliveredOnce
<1> SUFFICES ASSUME TopicAssumption, TopicInv, delivery.at = "done", topic = name
             PROVE  /\ \A f \in kept : WildcardsApply(f, name) =>
                         TimesCalled(f) = IF Matches(f, name) THEN 1 ELSE 0
                    /\ TimesCalled(Default) = 1 <=> \A f \in Filters : TimesCalled(f) = 0
  BY DEF DeliveredOnce, Intact
<1>1. \A f : TimesCalled(f) = Occurs(called, f)
  BY DEF TimesCalled, Occurs
<1>2. ASSUME NEW f \in kept, WildcardsApply(f, name) PROVE TimesCalled(f) = IF Matches(f, name) THEN 1 ELSE 0
  <2>1. PICK i \in Slot : handlers[i] = f /\ f \in Filters /\ i < HandlerSlots + 1
    BY DEF TopicInv, TopicType, Kept, Slot, TopicAssumption
  <2>2. Occurs(called, f) = IF Wanted(f) THEN 1 ELSE 0
    BY <2>1 DEF TopicInv, CalledInv, CalledBelow
  <2>3. f \in Seq(STRING) /\ Valid(f) /\ name \in Seq(STRING)
    BY <2>1 DEF TopicAssumption, TopicInv, TopicType
  <2>4. IsTopicMatched(f, name) <=> Matches(f, name)
    BY <2>3, <1>2, MatchedAsStandard
  <2>5. f = name => Matches(f, name)
    <3>1. PICK fs : fs = Levels(f) /\ fs \in Splits
      BY <2>3, LevelsBegin
    <3>2. Len(fs) \in Nat
      BY <3>1, LenProperties DEF Splits
    <3>3. Len(fs) >= Len(fs) - 1
      BY <3>2
    <3> QED BY <3>1, <3>3, <2>4 DEF Matches
  <2> QED BY <1>1, <2>2, <2>4, <2>5 DEF Wanted
<1>3. TimesCalled(Default) = 1 <=> \A f \in Filters : TimesCalled(f) = 0
  <2>0. Default \notin Filters
    BY DEF TopicAssumption
  <2>1. CASE called = <<Default>>
    <3>1. called \in Seq({Default})
      BY <2>1, OneElement
    <3>2. \A f \in Filters : Occurs(called, f) = 0
      BY <2>0, <3>1, OccursNone
    <3>3. Occurs(called, Default) = 1
      <4>1. PICK none : none = <<>> /\ none \in Seq({Default}) /\ none \in Seq(Filters)
        BY EmptySeq
      <4>2. PICK d : d = Default
        OBVIOUS
      <4>3. called = Append(none, d)
        BY <2>1, <4>1, <4>2
      <4>4. Occurs(none, d) = 0
        BY <2>0, <4>1, <4>2, OccursNone
      <4>5. d \in {Default} /\ none \in Seq({Default})
        BY <4>1, <4>2
      <4>6. Occurs(Append(none, d), d) = Occurs(none, d) + 1
        BY <4>5, OccursAppend
      <4> QED BY <4>2, <4>3, <4>4, <4>6
    <3> QED BY <1>1, <3>2, <3>3
  <2>2. CASE called \in Seq(Filters) \ {<<>>}
    <3>1. Occurs(called, Default) = 0
      BY <2>0, <2>2, OccursNone
    <3>2. called[1] \in Filters /\ Occurs(called, called[1]) # 0
      <4>1. 1 \in 1..Len(called)
        BY <2>2, EmptySeq, LenProperties
      <4> QED BY <4>1, <2>2, OccursNone, ElementOfSeq
    <3> QED BY <1>1, <3>1, <3>2
  <2> QED BY <2>1, <2>2 DEF TopicInv, CalledInv
<1> QED BY <1>2, <1>3

TopicSpec == TopicInit /\ [][TopicNext]_topicVars

\* As long as the packets that handlers' calls read leave the topic alone, deliverMessage
\* calls each handler that stays registered once if its filter matches by the standard and
\* not at all otherwise, for any filters, names and slots.
THEOREM MessagesAreDelivered == TopicSpec => []DeliveredOnce
<1>1. TopicInit => TopicInv
  BY TopicAssumption, TopicInitInv
<1>2. TopicInv /\ [TopicNext]_topicVars => TopicInv'
  BY TopicAssumption, TopicNextInv
<1>3. TopicInv => DeliveredOnce
  BY TopicAssumption, TopicInvPromise
<1> QED BY <1>1, <1>2, <1>3, PTL DEF TopicSpec

-----------------------------------------------------------------------------
(* CoAP messages.  The options stand in the order of their numbers if none is put before *)
(* two others; then the datagram is laid out so that the reader finds them one by one.    *)

CoapSpec == MessageInit /\ [][MessageNext]_messageVars

Octets == 0..255
Option == [number : Nat, value : Seq(Octets)]

LEMMA OptionTypes ==
  /\ Options \subseteq Option /\ Payloads \subseteq Seq(Octets)
  /\ NoOption \in Option /\ <<>> \in Seq(Octets)
<1>1. <<>> \in Seq(Octets)
  BY EmptySeq
<1>2. Options \subseteq Option /\ Payloads \subseteq Seq(Octets)
  BY MessageAssumption DEF Option, Octets
<1>3. NoOption \in Option
  BY <1>1 DEF Option, NoOption, Widest
<1> QED BY <1>1, <1>2, <1>3

-----------------------------------------------------------------------------
(* The order of the options *)

LEMMA FunctionIsSeq ==
  ASSUME NEW S, NEW n \in Nat, NEW f \in [1..n -> S]
  PROVE  f \in Seq(S) /\ Len(f) = n
<1>1. f \in Seq(S)
  BY SeqDef
<1>2. 1..Len(f) = 1..n /\ Len(f) \in Nat
  BY <1>1, LenProperties
<1>3. PICK m : m = Len(f)
  OBVIOUS
<1>4. 1..m = 1..n /\ m \in Nat
  BY <1>2, <1>3
<1>5. m = n
  BY <1>4
<1> QED BY <1>1, <1>3, <1>5

\* t is s with o at place i.
Placed(t, s, i, o) ==
  /\ t \in Seq(Option) /\ Len(t) = Len(s) + 1
  /\ \A k \in 1..i - 1 : t[k] = s[k]
  /\ t[i] = o
  /\ \A k \in i + 1..Len(s) + 1 : t[k] = s[k - 1]

LEMMA InsertIs ==
  ASSUME NEW s \in Seq(Option), NEW i \in 1..Len(s) + 1, NEW e \in Option
  PROVE  Placed(InsertAt(s, i, e), s, i, e)
<1>t. PICK t : t = InsertAt(s, i, e)
  OBVIOUS
<1>0. PICK n \in Nat : n = Len(s)
  BY LenProperties
<1>1. PICK a : a = SubSeq(s, 1, i - 1)
  OBVIOUS
<1>2. PICK b : b = SubSeq(s, i, n)
  OBVIOUS
<1>3. i - 1 \in 0..Len(s)
  BY <1>0
<1>4. a \in Seq(Option) /\ Len(a) = i - 1 /\ \A k \in 1..i - 1 : a[k] = s[k]
  BY <1>1, <1>3, Initial
<1>5. \A k \in i..n : s[k] \in Option
  BY <1>0, ElementOfSeq
<1>6. b \in Seq(Option) /\ Len(b) = n - i + 1 /\ \A k \in 1..n - i + 1 : b[k] = s[i + k - 1]
  <2>1. /\ b \in Seq(Option) /\ Len(b) = IF i <= n THEN n - i + 1 ELSE 0
        /\ \A k \in 1..n - i + 1 : b[k] = s[i + k - 1]
    <3>1. i \in Int /\ n \in Int
      BY <1>0
    <3> QED BY <3>1, <1>2, <1>5, SubSeqProperties
  <2> QED BY <2>1, <1>0
<1>7. PICK c : c = a \o <<e>>
  OBVIOUS
<1>8. c \in Seq(Option) /\ Len(c) = i /\ (\A k \in 1..i - 1 : c[k] = s[k]) /\ c[i] = e
  <2>1. c = Append(a, e)
    BY <1>4, <1>7, AppendIsConcat
  <2>2. /\ c \in Seq(Option) /\ Len(c) = Len(a) + 1 /\ c[Len(a) + 1] = e
        /\ \A k \in 1..Len(a) : c[k] = a[k]
    BY <2>1, <1>4, AppendProperties
  <2> QED BY <2>2, <1>4, <1>0
<1>9. t = c \o b
  BY <1>0, <1>1, <1>2, <1>7, <1>t DEF InsertAt
<1>10. /\ t \in Seq(Option) /\ Len(t) = Len(c) + Len(b)
       /\ \A k \in 1..Len(c) + Len(b) : t[k] = IF k <= Len(c) THEN c[k] ELSE b[k - Len(c)]
  BY <1>6, <1>8, <1>9, ConcatProperties
<1>11. Len(t) = n + 1 /\ \A k \in 1..n + 1 : t[k] = IF k <= i THEN c[k] ELSE b[k - i]
  BY <1>0, <1>6, <1>8, <1>10
<1>12. ASSUME NEW k \in i + 1..n + 1 PROVE t[k] = s[k - 1]
  <2>1. k \in 1..n + 1 /\ ~(k <= i) /\ k - i \in 1..n - i + 1 /\ i + (k - i) - 1 = k - 1
    BY <1>0
  <2> QED BY <2>1, <1>6, <1>11
<1>13. t[i] = e /\ \A k \in 1..i - 1 : t[k] = s[k]
  <2>1. i \in 1..n + 1 /\ \A k \in 1..i - 1 : k \in 1..n + 1 /\ k <= i
    BY <1>0
  <2> QED BY <2>1, <1>8, <1>11
<1> QED BY <1>0, <1>t, <1>10, <1>11, <1>12, <1>13 DEF Placed

Numbered(s, m) == {k \in DOMAIN s : s[k].number <= m}
Place(s, m) == 1 + Cardinality(Numbered(s, m))
Inserted(s, o) == InsertAt(s, Place(s, o.number), o)
Insertions == [z \in Seq(Option) \X Option |-> Inserted(z[1], z[2])]

LEMMA PlaceIn ==
  ASSUME NEW s \in Seq(Option), NEW m
  PROVE  Place(s, m) \in 1..Len(s) + 1
<1>0. PICK n \in Nat : n = Len(s) /\ DOMAIN s = 1..n
  BY LenProperties
<1>1. Numbered(s, m) \in SUBSET (1..n)
  BY <1>0 DEF Numbered
<1>2. IsFiniteSet(1..n) /\ Cardinality(1..n) = n
  BY FS_Interval
<1>3. Cardinality(Numbered(s, m)) \in Nat /\ Cardinality(Numbered(s, m)) <= n
  BY <1>1, <1>2, FS_Subset, FS_CardinalityType
<1> QED BY <1>0, <1>3 DEF Place

LEMMA InsertedType ==
  ASSUME NEW s \in Seq(Option), NEW o \in Option
  PROVE  Inserted(s, o) \in Seq(Option)
<1>1. PICK i \in 1..Len(s) + 1 : i = Place(s, o.number)
  BY PlaceIn
<1>2. Placed(InsertAt(s, i, o), s, i, o)
  BY InsertIs, Zenon
<1> QED BY <1>1, <1>2 DEF Inserted, Placed

AddedType == added \in Seq(Option)
OrderedIs == RunsTo(Ordered, Seq(Option), <<>>, Insertions, added)

LEMMA OrderedRuns == AddedType => OrderedIs
<1> SUFFICES ASSUME added \in Seq(Option) PROVE RunsTo(Ordered, Seq(Option), <<>>, Insertions, added)
  BY DEF AddedType, OrderedIs
<1> DEFINE D == SUBSET (DOMAIN added)
           base == <<>>
<1>0. PICK n \in Nat : n = Len(added) /\ DOMAIN added = 1..n
  BY LenProperties
<1>b. base \in Seq(Option)
  BY EmptySeq
<1>1. Insertions \in [Seq(Option) \X Option -> Seq(Option)]
  BY InsertedType DEF Insertions
<1>2. PICK g : FoldsSets(g, Seq(Option), base, Insertions, added)
  <2> HIDE DEF base
  <2> QED BY <1>1, <1>b, FoldExists
<1>3. \A s \in D : s # {} => Max(s) \in s /\ added[Max(s)] \in Option /\ s \ {Max(s)} \in D
  <2> TAKE s \in D
  <2> HAVE s # {}
  <2>1. s \in SUBSET (1..n)
    BY <1>0
  <2>2. Max(s) \in s
    BY <2>1, MaxOfInitial
  <2> QED BY <2>2, <1>0, ElementOfSeq
<1> DEFINE iter == CHOOSE f : f = [s \in D |-> IF s = {} THEN base ELSE Inserted(f[s \ {Max(s)}], added[Max(s)])]
<1>4. g = [s \in D |-> IF s = {} THEN base ELSE Inserted(g[s \ {Max(s)}], added[Max(s)])]
  <2> HIDE DEF base
  <2>1. ASSUME NEW s \in D, s # {} PROVE g[s] = Inserted(g[s \ {Max(s)}], added[Max(s)])
    BY <2>1, <1>2, <1>3 DEF FoldsSets, Insertions
  <2>2. g[{}] = base
    BY <1>2 DEF FoldsSets
  <2>3. g = [s \in D |-> g[s]]
    BY <1>2 DEF FoldsSets
  <2> QED BY <2>1, <2>2, <2>3
<1>5. iter = [s \in D |-> IF s = {} THEN base ELSE Inserted(iter[s \ {Max(s)}], added[Max(s)])]
  <2> HIDE DEF base
  <2> QED BY <1>4
<1>6. Ordered = iter[DOMAIN added]
  BY DEF Ordered, FoldLeft, MapThenFoldSet, Inserted, Place, Numbered
<1> HIDE DEF iter, base
<1> DEFINE V == Seq(Option) \cup {iter[s] : s \in D}
           succ == [z \in V \X Option |-> Inserted(z[1], z[2])]
<1>7. iter = [s \in D |-> IF s = {} THEN base ELSE succ[<<iter[s \ {Max(s)}], added[Max(s)]>>]]
  <2>1. ASSUME NEW s \in D, s # {} PROVE iter[s] = succ[<<iter[s \ {Max(s)}], added[Max(s)]>>]
    BY <2>1, <1>3, <1>5
  <2>2. iter[{}] = base /\ iter = [s \in D |-> iter[s]]
    BY <1>5
  <2> QED BY <2>1, <2>2
<1>8. ASSUME NEW x \in Seq(Option), NEW t \in Option
      PROVE  succ[<<x, t>>] = Inserted(x, t) /\ succ[<<x, t>>] \in Seq(Option)
  <2>1. x \in V
    OBVIOUS
  <2>2. succ[<<x, t>>] = Inserted(x, t)
    <3> HIDE DEF V
    <3> QED BY <2>1
  <2> HIDE DEF succ
  <2> QED BY <2>2, InsertedType
<1>9. RunsTo(iter[DOMAIN added], Seq(Option), base, succ, added)
  <2> HIDE DEF succ
  <2> QED BY <1>7, <1>8, <1>b, FoldRuns
<1>10. Agree(succ, Insertions, Seq(Option), Option)
  BY <1>8 DEF Insertions, Agree
<1> HIDE DEF succ
<1>11. RunsTo(iter[DOMAIN added], Seq(Option), base, Insertions, added)
  BY <1>9, <1>10, <1>b, RunsByOther
<1> QED BY <1>6, <1>11 DEF base

LEMMA OrderedRunsNext == AddedType' => OrderedIs'
BY OrderedRuns, PTL

\* The option added last is inserted into the others in order.
LEMMA OrderedGrows ==
  ASSUME added \in Seq(Option), NEW o \in Option, added' = Append(added, o)
  PROVE  Ordered' = Inserted(Ordered, o) /\ Ordered \in Seq(Option)
<1>0. PICK n \in Nat : n = Len(added)
  BY LenProperties
<1>1. PICK b : b = added'
  OBVIOUS
<1>2. b \in Seq(Option) /\ Len(b) = n + 1 /\ b[n + 1] = o /\ \A k \in 1..n : b[k] = added[k]
  BY <1>0, <1>1, AppendProperties
<1>3. PICK F : Run(F, Seq(Option), <<>>, Insertions, added) /\ F[n] = Ordered
  BY <1>0, OrderedRuns DEF RunsTo, AddedType, OrderedIs
<1>4. PICK G : Run(G, Seq(Option), <<>>, Insertions, b) /\ G[n + 1] = Ordered'
  BY <1>1, <1>2, OrderedRunsNext DEF RunsTo, AddedType, OrderedIs
<1>5. F[n] = G[n]
  <2>1. SameUpTo(n, added, b)
    BY <1>2 DEF SameUpTo
  <2>2. Len(added) \in Nat /\ Len(b) \in Nat /\ n <= Len(added) /\ n <= Len(b)
    BY <1>0, <1>2
  <2> QED BY <2>1, <2>2, <1>3, <1>4, RunsAgree
<1>6. n + 1 \in 1..Len(b) /\ (n + 1) - 1 = n
  BY <1>2
<1>7. G[n + 1] = Insertions[<<G[n], o>>]
  BY <1>2, <1>4, <1>6 DEF Run
<1>8. Ordered \in Seq(Option)
  BY <1>3, <1>0 DEF Run
<1> QED BY <1>3, <1>4, <1>5, <1>7, <1>8 DEF Insertions

Rising(s) == \A j, k \in 1..Len(s) : j <= k => s[j].number <= s[k].number
Source(p, s, a) ==
  /\ p \in [1..Len(s) -> 1..Len(a)]
  /\ \A k \in 1..Len(s) : s[k] = a[p[k]]
  /\ \A j, k \in 1..Len(s) : p[j] = p[k] => j = k

OptionsType ==
  /\ options \in Seq(Option) /\ added \in Seq(Option) /\ payload \in Seq(Octets)
  /\ Len(options) = Len(added) /\ Len(options) <= MaxOptions
OptionsInv ==
  ~PutBeforeTwo => options = Ordered /\ Rising(options) /\ \E p : Source(p, options, added)

\* At most one element of a is above m.
OneAbove(a, m) ==
  \A j, k \in 1..Len(a) : a[j].number > m /\ a[k].number > m => j = k
Before(a, k) == {j \in 1..k - 1 : a[j].number > a[k].number}

LEMMA BeforeCounted ==
  ASSUME NEW a \in Seq(Option), NEW n \in Nat, n + 1 <= Len(a), ~(Cardinality(Before(a, n + 1)) > 1)
  PROVE  \A j, k \in 1..n : a[j].number > a[n + 1].number /\ a[k].number > a[n + 1].number => j = k
<1> SUFFICES ASSUME NEW j \in 1..n, NEW k \in 1..n, j # k,
                    a[j].number > a[n + 1].number, a[k].number > a[n + 1].number
             PROVE  FALSE
  OBVIOUS
<1>0. (n + 1) - 1 = n
  OBVIOUS
<1>1. {j} \cup {k} \in SUBSET Before(a, n + 1) /\ Before(a, n + 1) \in SUBSET (1..n)
  BY <1>0 DEF Before
<1>2. IsFiniteSet(Before(a, n + 1)) /\ Cardinality(Before(a, n + 1)) \in Nat
  <2>1. IsFiniteSet(1..n)
    BY ONLY n \in Nat, FS_Interval
  <2> QED BY <1>1, <2>1, FS_Subset, FS_CardinalityType
<1>3. IsFiniteSet({j}) /\ Cardinality({j}) = 1 /\ k \notin {j}
  BY FS_Singleton
<1>4. Cardinality({j} \cup {k}) = 2
  <2>1. Cardinality({j} \cup {k}) = Cardinality({j}) + 1
    BY <1>3, FS_AddElement
  <2>2. PICK c : c = Cardinality({j})
    OBVIOUS
  <2>3. c = 1
    BY <2>2, <1>3
  <2>4. c + 1 = 2
    BY <2>3
  <2> QED BY ONLY <2>1, <2>2, <2>4, Zenon
<1>5. Cardinality({j} \cup {k}) <= Cardinality(Before(a, n + 1))
  BY <1>1, <1>2, FS_Subset
<1>6. ASSUME NEW c, c \in Nat, 2 <= c PROVE c > 1
  BY <1>6
<1> QED BY <1>2, <1>4, <1>5, <1>6

LEMMA FewerBefore ==
  ASSUME added \in Seq(Option), NEW o \in Option, added' = Append(added, o), ~PutBeforeTwo'
  PROVE  ~PutBeforeTwo /\ OneAbove(added, o.number)
<1>0. PICK n \in Nat : n = Len(added) /\ DOMAIN added = 1..n
  BY LenProperties
<1>1. PICK b : b = added'
  OBVIOUS
<1>2. b \in Seq(Option) /\ Len(b) = n + 1 /\ b[n + 1] = o /\ \A k \in 1..n : b[k] = added[k]
  BY <1>0, <1>1, AppendProperties
<1>3. DOMAIN b = 1..n + 1
  BY <1>2, LenProperties
<1>4. \A k \in 1..n + 1 : ~(Cardinality(Before(b, k)) > 1)
  BY <1>1, <1>3 DEF PutBeforeTwo, Before
<1>5. ASSUME NEW k \in 1..n PROVE Before(b, k) = Before(added, k)
  <2>1. b[k] = added[k] /\ \A j \in 1..k - 1 : b[j] = added[j]
    BY <1>2
  <2> QED BY <2>1 DEF Before
<1>6. ~PutBeforeTwo
  <2>1. \A k \in 1..n : k \in 1..n + 1
    OBVIOUS
  <2>2. \A k \in 1..n : ~(Cardinality(Before(added, k)) > 1)
    BY <1>4, <1>5, <2>1
  <2> QED BY <2>2, <1>0 DEF PutBeforeTwo, Before
<1>7. OneAbove(added, o.number)
  <2>1. n + 1 \in 1..n + 1 /\ n + 1 <= Len(b)
    BY <1>2
  <2>2. \A j, k \in 1..n : b[j].number > b[n + 1].number /\ b[k].number > b[n + 1].number => j = k
    BY <1>2, <1>4, <2>1, BeforeCounted
  <2> QED BY <2>2, <1>0, <1>2 DEF OneAbove
<1> QED BY <1>6, <1>7

LEMMA OneBehind ==
  ASSUME NEW s \in Seq(Option), NEW a \in Seq(Option), NEW p, Source(p, s, a), Rising(s),
         NEW m \in Int, OneAbove(a, m)
  PROVE  /\ \A k \in 1..Len(s) - 1 : s[k].number <= m
         /\ \/ Numbered(s, m) = 1..Len(s)
            \/ Len(s) >= 1 /\ Numbered(s, m) = 1..Len(s) - 1 /\ s[Len(s)].number > m
<1>0. PICK n \in Nat : n = Len(s) /\ DOMAIN s = 1..n
  BY LenProperties
<1>1. \A k \in 1..n : s[k].number \in Int
  <2>1. \A k \in 1..n : s[k] \in Option
    BY <1>0, ElementOfSeq
  <2> QED BY <2>1 DEF Option
<1>2. ASSUME NEW k \in 1..n - 1 PROVE s[k].number <= m
  <2> SUFFICES ASSUME s[k].number > m PROVE FALSE
    <3>1. k \in 1..n
      BY <1>0
    <3> QED BY <3>1, <1>1
  <2>1. k \in 1..n /\ n \in 1..n /\ k <= n /\ k # n
    BY <1>0
  <2>2. s[n].number > m
    <3>1. s[k].number <= s[n].number
      BY <2>1, <1>0 DEF Rising
    <3>2. s[k].number \in Int /\ s[n].number \in Int
      BY <2>1, <1>1
    <3> QED BY <3>1, <3>2
  <2>3. p[k] \in 1..Len(a) /\ p[n] \in 1..Len(a) /\ s[k] = a[p[k]] /\ s[n] = a[p[n]]
    BY <2>1, <1>0 DEF Source
  <2>4. p[k] = p[n]
    BY <2>2, <2>3 DEF OneAbove
  <2> QED BY <2>1, <2>4, <1>0 DEF Source
<1> DEFINE OneOrNone == \/ Numbered(s, m) = 1..n
                        \/ n >= 1 /\ Numbered(s, m) = 1..n - 1 /\ s[n].number > m
<1>3. ASSUME n = 0 PROVE OneOrNone
  <2>1. Numbered(s, m) = {} /\ 1..n = {}
    BY <1>0, <1>3 DEF Numbered
  <2> QED BY <2>1, Zenon
<1>4. ASSUME n # 0, s[n].number <= m PROVE OneOrNone
  <2>1. \A k \in 1..n : k = n \/ k \in 1..n - 1
    BY <1>0
  <2>2. Numbered(s, m) = 1..n
    BY <2>1, <1>2, <1>0, <1>4 DEF Numbered
  <2> QED BY <2>2, Zenon
<1>5. ASSUME n # 0, ~(s[n].number <= m) PROVE OneOrNone
  <2>1. (\A k \in 1..n : k = n \/ k \in 1..n - 1) /\ (\A k \in 1..n - 1 : k \in 1..n /\ k # n) /\ n \in 1..n
    BY <1>0, <1>5
  <2>2. Numbered(s, m) = 1..n - 1
    BY <2>1, <1>2, <1>0, <1>5 DEF Numbered
  <2>3. s[n].number > m
    BY <2>1, <1>1, <1>5
  <2> QED BY <2>2, <2>3, <1>0, <1>5
<1>6. OneOrNone
  BY <1>3, <1>4, <1>5
<1> QED BY <1>0, <1>2, <1>6

LEMMA AddOptionType ==
  ASSUME OptionsType, NEW o \in Options, AddOption(o)
  PROVE  /\ OptionsType' /\ Len(options') = Len(options) + 1
         /\ \A k \in 1..Len(options) + 1 :
              options'[k] = CASE k <= InFront(o.number) -> options[k]
                              [] k = InFront(o.number) + 1 -> o
                              [] k = InFront(o.number) + 2 -> options[InFront(o.number) + 1]
                              [] k > InFront(o.number) + 2 /\ k <= Len(options) -> options[k]
                              [] OTHER -> NoOption
<1>0. PICK n \in Nat : n = Len(options) /\ DOMAIN options = 1..n
  BY LenProperties DEF OptionsType
<1>1. PICK i \in 0..n : i = InFront(o.number) /\ i + 1 = Place(options, o.number)
  <2>1. PICK c : c = Cardinality(Numbered(options, o.number))
    OBVIOUS
  <2>2. 1 + c \in 1..n + 1 /\ c \in Nat
    <3>1. Numbered(options, o.number) \in SUBSET (1..n)
      BY <1>0 DEF Numbered
    <3>2. IsFiniteSet(1..n)
      BY FS_Interval
    <3>3. c \in Nat
      BY <2>1, <3>1, <3>2, FS_Subset, FS_CardinalityType
    <3> QED BY <2>1, <3>3, <1>0, PlaceIn DEF Place, OptionsType
  <2>3. c \in 0..n /\ c = InFront(o.number) /\ c + 1 = Place(options, o.number)
    BY <2>1, <2>2 DEF InFront, Place, Numbered
  <2> QED BY <2>3
<1>2. o \in Option
  BY OptionTypes
<1> DEFINE x(k) == CASE k <= i -> options[k]
                     [] k = i + 1 -> o
                     [] k = i + 2 -> options[i + 1]
                     [] k > i + 2 /\ k <= n -> options[k]
                     [] OTHER -> NoOption
<1>3. ASSUME NEW k \in 1..n + 1 PROVE x(k) \in Option
  <2>1. \A j \in 1..n : options[j] \in Option
    BY <1>0, ElementOfSeq DEF OptionsType
  <2>2. CASE k <= i
    <3>1. k \in 1..n
      BY <2>2
    <3> QED BY <3>1, <2>1, <2>2
  <2>3. CASE k = i + 1
    BY <2>3, <1>2
  <2>4. CASE k = i + 2
    <3>1. i + 1 \in 1..n /\ ~(k <= i) /\ k # i + 1
      BY <2>4
    <3> QED BY <3>1, <2>1, <2>4
  <2>5. CASE k > i + 2
    BY <2>1, <2>5, OptionTypes
  <2> QED BY <2>2, <2>3, <2>4, <2>5
<1>4. options' = [k \in 1..n + 1 |-> x(k)]
  BY <1>0, <1>1 DEF AddOption
<1> HIDE DEF x
<1>5. options' \in Seq(Option) /\ Len(options') = n + 1 /\ \A k \in 1..n + 1 : options'[k] = x(k)
  <2>1. options' \in [1..n + 1 -> Option] /\ \A k \in 1..n + 1 : options'[k] = x(k)
    BY <1>3, <1>4
  <2>2. n + 1 \in Nat
    OBVIOUS
  <2> QED BY <2>1, <2>2, FunctionIsSeq
<1>6. added' \in Seq(Option) /\ Len(added') = n + 1 /\ payload' \in Seq(Octets)
  BY <1>0, <1>2, AppendProperties DEF AddOption, OptionsType
<1>7. n + 1 <= MaxOptions
  <2>1. n < MaxOptions /\ MaxOptions \in Nat
    BY <1>0, MessageAssumption DEF AddOption
  <2> QED BY <2>1
<1> QED BY <1>0, <1>1, <1>5, <1>6, <1>7 DEF OptionsType, x

LEMMA PlacedOnce ==
  ASSUME NEW s \in Seq(Option), NEW i \in 1..Len(s) + 1, NEW o, NEW t, NEW u, Placed(t, s, i, o), Placed(u, s, i, o)
  PROVE  t = u
<1>0. PICK n \in Nat : n = Len(s)
  BY LenProperties
<1>1. ASSUME NEW k \in 1..n + 1 PROVE t[k] = u[k]
  <2>1. CASE k < i
    <3>1. k \in 1..i - 1
      BY <2>1, <1>0
    <3> QED BY <3>1 DEF Placed
  <2>2. CASE k = i
    BY <2>2 DEF Placed
  <2>3. CASE k > i
    <3>1. k \in i + 1..n + 1
      BY <2>3, <1>0
    <3> QED BY <3>1, <1>0 DEF Placed
  <2> QED BY <2>1, <2>2, <2>3, <1>0
<1>2. t \in Seq(Option) /\ u \in Seq(Option) /\ Len(t) = n + 1 /\ Len(u) = n + 1
  BY <1>0 DEF Placed
<1> QED BY <1>1, <1>2, SeqEqual

\* Put last or before the last the option stands where it belongs.
LEMMA AddOptionPlaces ==
  ASSUME OptionsType, NEW o \in Options, AddOption(o), NEW i, i \in {Len(options), Len(options) - 1},
         i = InFront(o.number), i >= 0
  PROVE  Placed(options', options, i + 1, o)
<1>0. PICK n \in Nat : n = Len(options)
  BY LenProperties DEF OptionsType
<1>1. i \in 0..n /\ i >= n - 1
  BY <1>0
<1>2. PICK t : t = options'
  OBVIOUS
<1>3. t \in Seq(Option) /\ Len(t) = n + 1
  BY <1>0, <1>2, AddOptionType DEF OptionsType
<1>4. \A k \in 1..n + 1 : t[k] = CASE k <= i -> options[k]
                                 [] k = i + 1 -> o
                                 [] k = i + 2 -> options[i + 1]
                                 [] k > i + 2 /\ k <= n -> options[k]
                                 [] OTHER -> NoOption
  BY <1>0, <1>2, AddOptionType
<1>5. ASSUME NEW k \in 1..i PROVE t[k] = options[k]
  <2>1. k \in 1..n + 1 /\ k <= i
    BY <1>1
  <2> QED BY <2>1, <1>4
<1>6. t[i + 1] = o
  <2>1. i + 1 \in 1..n + 1 /\ ~(i + 1 <= i)
    BY <1>1
  <2> QED BY <2>1, <1>4
<1>7. ASSUME NEW k \in i + 2..n + 1 PROVE t[k] = options[k - 1]
  <2>1. k \in 1..n + 1 /\ ~(k <= i) /\ k # i + 1 /\ k = i + 2 /\ k - 1 = i + 1
    BY <1>1
  <2> QED BY <2>1, <1>4
<1>8. (i + 1) - 1 = i /\ (i + 1) + 1 = i + 2
  BY <1>1
<1> QED BY <1>0, <1>2, <1>3, <1>5, <1>6, <1>7, <1>8 DEF Placed

LEMMA PlacedRises ==
  ASSUME NEW s \in Seq(Option), NEW i \in 1..Len(s) + 1, NEW o \in Option, NEW t, Placed(t, s, i, o), Rising(s),
         \A k \in 1..i - 1 : s[k].number <= o.number,
         \A k \in i..Len(s) : s[k].number > o.number
  PROVE  Rising(t)
<1>0. PICK n \in Nat : n = Len(s) /\ Len(t) = n + 1
  BY LenProperties DEF Placed
<1>1. \A k \in 1..n : s[k].number \in Int
  <2>1. \A k \in 1..n : s[k] \in Option
    BY <1>0, ElementOfSeq
  <2> QED BY <2>1 DEF Option
<1>2. o.number \in Int
  BY DEF Option
<1>3. \A k \in 1..i - 1 : t[k] = s[k] /\ k \in 1..n /\ s[k].number <= o.number
  BY <1>0 DEF Placed
<1>4. ASSUME NEW k \in i + 1..n + 1 PROVE t[k] = s[k - 1] /\ k - 1 \in 1..n /\ s[k - 1].number > o.number
  <2>1. k - 1 \in i..n /\ k - 1 \in 1..n
    BY <1>0
  <2> QED BY <2>1, <1>0 DEF Placed
<1>5. \A j, k \in 1..n : j <= k => s[j].number <= s[k].number
  BY <1>0 DEF Rising
<1>6. t[i] = o
  BY DEF Placed
<1> SUFFICES ASSUME NEW j \in 1..n + 1, NEW k \in 1..n + 1, j <= k PROVE t[j].number <= t[k].number
  BY <1>0 DEF Rising
<1>7. CASE j < i /\ k < i
  <2>1. j \in 1..i - 1 /\ k \in 1..i - 1
    BY <1>7, <1>0
  <2> QED BY <2>1, <1>3, <1>5
<1>8. CASE j < i /\ k = i
  <2>1. j \in 1..i - 1
    BY <1>8, <1>0
  <2> QED BY <2>1, <1>3, <1>6, <1>8
<1>9. CASE j < i /\ k > i
  <2>1. j \in 1..i - 1 /\ k \in i + 1..n + 1 /\ j <= k - 1
    BY <1>9, <1>0
  <2> QED BY <2>1, <1>3, <1>4, <1>5
<1>10. CASE j = i /\ k = i
  BY <1>10, <1>6, <1>2
<1>11. CASE j = i /\ k > i
  <2>1. k \in i + 1..n + 1
    BY <1>11, <1>0
  <2>2. t[k] = s[k - 1] /\ s[k - 1].number > o.number /\ s[k - 1].number \in Int
    BY <2>1, <1>4, <1>1
  <2> QED BY <2>2, <1>11, <1>6, <1>2
<1>12. CASE j > i /\ k > i
  <2>1. j \in i + 1..n + 1 /\ k \in i + 1..n + 1 /\ j - 1 <= k - 1
    BY <1>12, <1>0
  <2> QED BY <2>1, <1>4, <1>5
<1> QED BY <1>7, <1>8, <1>9, <1>10, <1>11, <1>12, <1>0

LEMMA PlacedSource ==
  ASSUME NEW s \in Seq(Option), NEW i \in 1..Len(s) + 1, NEW o, NEW t, Placed(t, s, i, o),
         NEW a \in Seq(Option), o \in Option, Len(a) = Len(s), NEW p, Source(p, s, a)
  PROVE  \E q : Source(q, t, Append(a, o))
<1>b. PICK b : b = Append(a, o)
  OBVIOUS
<1>0. PICK n \in Nat : n = Len(s) /\ n = Len(a) /\ Len(t) = n + 1
  BY LenProperties DEF Placed
<1>1. Len(b) = n + 1 /\ b[n + 1] = o /\ \A k \in 1..n : b[k] = a[k]
  BY <1>0, <1>b, AppendProperties
<1>2. /\ \A k \in 1..n : p[k] \in 1..n /\ s[k] = a[p[k]]
      /\ \A j, k \in 1..n : p[j] = p[k] => j = k
  BY <1>0 DEF Source
<1> DEFINE q == [k \in 1..n + 1 |-> CASE k < i -> p[k] [] k = i -> n + 1 [] k > i -> p[k - 1]]
<1>3. ASSUME NEW k \in 1..n + 1, k < i PROVE k \in 1..n /\ q[k] = p[k] /\ q[k] \in 1..n /\ t[k] = b[q[k]]
  <2>1. k \in 1..n /\ k \in 1..i - 1 /\ q[k] = p[k]
    BY <1>3, <1>0
  <2>2. t[k] = s[k]
    BY <2>1 DEF Placed
  <2> HIDE DEF q
  <2> QED BY <2>1, <2>2, <1>1, <1>2
<1>4. ASSUME NEW k \in 1..n + 1, k = i PROVE q[k] = n + 1 /\ t[k] = b[q[k]]
  <2>1. q[k] = n + 1
    BY <1>4, <1>0
  <2>2. t[k] = o
    BY <1>4 DEF Placed
  <2> HIDE DEF q
  <2> QED BY <2>1, <2>2, <1>1
<1>5. ASSUME NEW k \in 1..n + 1, k > i PROVE k - 1 \in 1..n /\ q[k] = p[k - 1] /\ q[k] \in 1..n /\ t[k] = b[q[k]]
  <2>1. k - 1 \in 1..n /\ k \in i + 1..Len(s) + 1 /\ q[k] = p[k - 1]
    BY <1>5, <1>0
  <2>2. t[k] = s[k - 1]
    BY <2>1 DEF Placed
  <2> HIDE DEF q
  <2> QED BY <2>1, <2>2, <1>1, <1>2
<1>t. q = [k \in 1..n + 1 |-> q[k]]
  OBVIOUS
<1>6. ASSUME NEW k \in 1..n + 1 PROVE q[k] \in 1..n + 1 /\ t[k] = b[q[k]]
  <2> HIDE DEF q
  <2>1. k < i \/ k = i \/ k > i
    BY <1>0
  <2>2. q[k] \in 1..n \/ q[k] = n + 1
    BY <2>1, <1>3, <1>4, <1>5
  <2>3. q[k] \in 1..n + 1
    BY <2>2
  <2> QED BY <2>1, <2>3, <1>3, <1>4, <1>5
<1>7. ASSUME NEW j \in 1..n + 1, NEW k \in 1..n + 1, q[j] = q[k] PROVE j = k
  <2> HIDE DEF q
  <2>0. n + 1 \notin 1..n
    OBVIOUS
  <2>1. CASE j < i /\ k < i
    BY <2>1, <1>2, <1>3, <1>7
  <2>2. CASE j < i /\ k = i
    BY <2>0, <2>2, <1>3, <1>4, <1>7
  <2>3. CASE j < i /\ k > i
    <3>1. j = k - 1
      BY <2>3, <1>2, <1>3, <1>5, <1>7
    <3> QED BY <3>1, <2>3, <1>0
  <2>4. CASE j = i /\ k < i
    BY <2>0, <2>4, <1>3, <1>4, <1>7
  <2>5. CASE j = i /\ k = i
    BY <2>5
  <2>6. CASE j = i /\ k > i
    BY <2>0, <2>6, <1>5, <1>4, <1>7
  <2>7. CASE j > i /\ k < i
    <3>1. p[j - 1] = p[k] /\ j - 1 \in 1..n /\ k \in 1..n
      BY <2>7, <1>3, <1>5, <1>7
    <3>2. j - 1 = k
      BY <3>1, <1>2
    <3> QED BY <3>2, <2>7, <1>0
  <2>8. CASE j > i /\ k = i
    BY <2>0, <2>8, <1>5, <1>4, <1>7
  <2>9. CASE j > i /\ k > i
    <3>1. p[j - 1] = p[k - 1] /\ j - 1 \in 1..n /\ k - 1 \in 1..n
      BY <2>9, <1>5, <1>7
    <3>2. j - 1 = k - 1
      BY <3>1, <1>2
    <3> QED BY <3>2
  <2>10. (j < i \/ j = i \/ j > i) /\ (k < i \/ k = i \/ k > i)
    BY <1>0
  <2> QED BY <2>1, <2>2, <2>3, <2>4, <2>5, <2>6, <2>7, <2>8, <2>9, <2>10
<1> HIDE DEF q
<1>8. q \in [1..Len(t) -> 1..Len(b)]
  BY <1>0, <1>1, <1>t, <1>6
<1>9. Source(q, t, b)
  BY <1>0, <1>6, <1>7, <1>8 DEF Source
<1> QED BY <1>9, <1>b

LEMMA AddOptionKeeps ==
  ASSUME OptionsType, OptionsInv, NEW o \in Options, AddOption(o)
  PROVE  OptionsInv'
<1> SUFFICES ASSUME ~PutBeforeTwo'
             PROVE  options' = Ordered' /\ Rising(options') /\ \E q : Source(q, options', added')
  BY DEF OptionsInv
<1>0. PICK n \in Nat : n = Len(options) /\ n = Len(added)
  BY LenProperties DEF OptionsType
<1>1. o \in Option /\ o.number \in Int
  <2>1. o \in Option
    BY OptionTypes
  <2> QED BY <2>1 DEF Option
<1>2. added' = Append(added, o) /\ added \in Seq(Option) /\ options \in Seq(Option)
  BY DEF AddOption, OptionsType
<1>3. ~PutBeforeTwo /\ OneAbove(added, o.number)
  BY <1>1, <1>2, FewerBefore
<1>4. options = Ordered /\ Rising(options)
  BY <1>3 DEF OptionsInv
<1>5. PICK p : Source(p, options, added)
  BY <1>3 DEF OptionsInv
<1>6. \/ Numbered(options, o.number) = 1..n
      \/ n >= 1 /\ Numbered(options, o.number) = 1..n - 1 /\ options[n].number > o.number
  BY <1>0, <1>1, <1>2, <1>3, <1>4, <1>5, OneBehind
<1>a. \A k \in 1..n - 1 : options[k].number <= o.number
  BY <1>0, <1>1, <1>2, <1>3, <1>4, <1>5, OneBehind
<1> DEFINE i == InFront(o.number)
<1>7. i = Cardinality(Numbered(options, o.number)) /\ i + 1 = Place(options, o.number)
  <2>1. i = Cardinality(Numbered(options, o.number))
    BY DEF InFront, Numbered
  <2>2. i \in Nat
    <3>1. IsFiniteSet(1..n) /\ IsFiniteSet(1..n - 1)
      BY FS_Interval
    <3> QED BY <2>1, <3>1, <1>6, FS_CardinalityType
  <2> HIDE DEF i
  <2> QED BY <2>1, <2>2 DEF Place
<1>8. i \in {n, n - 1} /\ i >= 0 /\ i \in 0..n
      /\ (\A k \in 1..i : options[k].number <= o.number)
      /\ \A k \in i + 1..n : options[k].number > o.number
  <2>0. Cardinality(1..n) = n /\ (n >= 1 => Cardinality(1..n - 1) = n - 1)
    <3>1. Cardinality(1..n) = IF 1 > n THEN 0 ELSE n - 1 + 1
      BY FS_Interval
    <3>2. Cardinality(1..n - 1) = IF 1 > n - 1 THEN 0 ELSE (n - 1) - 1 + 1
      BY FS_Interval
    <3> QED BY <3>1, <3>2
  <2> HIDE DEF i
  <2>1. CASE Numbered(options, o.number) = 1..n
    <3>1. i = n
      BY <2>0, <2>1, <1>7
    <3>2. \A k \in 1..n : options[k].number <= o.number
      BY <2>1 DEF Numbered
    <3> QED BY <3>1, <3>2
  <2>2. CASE n >= 1 /\ Numbered(options, o.number) = 1..n - 1 /\ options[n].number > o.number
    <3>1. i = n - 1
      BY <2>0, <2>2, <1>7
    <3>2. \A k \in i + 1..n : k = n
      BY <3>1
    <3> QED BY <3>1, <3>2, <2>2, <1>a
  <2> QED BY <2>1, <2>2, <1>6
<1>9. Placed(options', options, i + 1, o)
  <2>1. i \in {Len(options), Len(options) - 1}
    BY <1>0, <1>8
  <2> QED BY <2>1, <1>8, AddOptionPlaces
<1> HIDE DEF i
<1>10. i + 1 \in 1..Len(options) + 1 /\ (i + 1) - 1 = i
  BY <1>0, <1>8
<1>11. Placed(InsertAt(options, i + 1, o), options, i + 1, o)
  <2>1. options \in Seq(Option) /\ o \in Option /\ i + 1 \in 1..Len(options) + 1
    BY <1>1, <1>2, <1>10
  <2> QED BY <2>1, InsertIs, Zenon
<1>12. options' = InsertAt(options, i + 1, o)
  BY <1>2, <1>9, <1>10, <1>11, PlacedOnce
<1>13. Ordered' = InsertAt(options, i + 1, o)
  <2>1. Ordered' = Inserted(Ordered, o)
    BY <1>1, <1>2, OrderedGrows
  <2> QED BY <2>1, <1>4, <1>7 DEF Inserted
<1>14. Rising(options')
  <2>1. \A k \in 1..(i + 1) - 1 : options[k].number <= o.number
    BY <1>8, <1>10
  <2>2. \A k \in i + 1..Len(options) : options[k].number > o.number
    BY <1>0, <1>8
  <2> QED BY <2>1, <2>2, <1>1, <1>2, <1>4, <1>9, <1>10, PlacedRises
<1>15. \E q : Source(q, options', added')
  <2>1. PICK t, b, j : t = options' /\ b = added' /\ j = i + 1
    OBVIOUS
  <2>2. j \in 1..Len(options) + 1 /\ Placed(t, options, j, o) /\ b = Append(added, o)
    BY <2>1, <1>2, <1>9, <1>10
  <2>3. \E q : Source(q, t, b)
    <3>1. options \in Seq(Option) /\ o \in Option /\ added \in Seq(Option) /\ Len(added) = Len(options)
      BY <1>0, <1>1, <1>2
    <3> QED BY <3>1, <2>2, <1>5, PlacedSource, Zenon
  <2> QED BY <2>1, <2>3
<1> QED BY <1>12, <1>13, <1>14, <1>15

-----------------------------------------------------------------------------
(* The datagram *)

\* Where the parts of the flattened sequence f end, and what stands in them.
Flattened(e, f, seqs) ==
  /\ e \in [0..Len(seqs) -> Nat] /\ e[0] = 0 /\ e[Len(seqs)] = Len(f)
  /\ \A k \in 1..Len(seqs) : e[k] = e[k - 1] + Len(seqs[k])
  /\ \A k \in 1..Len(seqs) : \A j \in 1..Len(seqs[k]) :
       e[k - 1] + j \in 1..Len(f) /\ f[e[k - 1] + j] = seqs[k][j]

LEMMA FlattenSteps ==
  ASSUME NEW B, NEW n \in Nat \ {0}, NEW seqs \in Seq(Seq(B)), Len(seqs) = n
  PROVE  \E f \in [1..n -> Seq(B)] :
           /\ f = [i \in 1..n |-> IF i = 1 THEN seqs[i] ELSE f[i - 1] \o seqs[i]]
           /\ FlattenSeq(seqs) = f[n]
<1> DEFINE D == 1..n
           S == Seq(B)
           m == [i \in D |-> i]
           succ == [z \in [D -> S] \X D |-> IF z[2] = 1 THEN seqs[z[2]] ELSE z[1][z[2] - 1] \o seqs[z[2]]]
<1>1. \A i \in D : seqs[i] \in S
  BY ElementOfSeq
<1>2. ASSUME NEW f \in [D -> S], NEW i \in D
      PROVE  /\ succ[<<f, i>>] = IF i = 1 THEN seqs[i] ELSE f[i - 1] \o seqs[i]
             /\ succ[<<f, i>>] \in S
  <2>1. succ[<<f, i>>] = IF i = 1 THEN seqs[i] ELSE f[i - 1] \o seqs[i]
    OBVIOUS
  <2>2. CASE i = 1
    BY <2>1, <2>2, <1>1
  <2>3. CASE i # 1
    <3>1. i - 1 \in D
      BY <2>3
    <3>2. f[i - 1] \in S /\ seqs[i] \in S
      BY <3>1, <1>1
    <3>3. f[i - 1] \o seqs[i] \in S
      BY <3>2, ConcatProperties
    <3> QED BY <2>1, <2>3, <3>3
  <2> QED BY <2>1, <2>2, <2>3
<1>3. succ \in [[D -> S] \X D -> S]
  <2> HIDE DEF D, S
  <2> DEFINE Z == [D -> S] \X D
  <2>1. succ = [z \in Z |-> succ[z]]
    OBVIOUS
  <2> HIDE DEF succ
  <2>2. ASSUME NEW z \in Z PROVE succ[z] \in S
    <3>1. z = <<z[1], z[2]>> /\ z[1] \in [D -> S] /\ z[2] \in D
      OBVIOUS
    <3>2. succ[<<z[1], z[2]>>] \in S
      BY <3>1, <1>2
    <3> QED BY ONLY <3>1, <3>2, Zenon
  <2> HIDE DEF Z
  <2>3. succ \in [Z -> S]
    BY <2>1, <2>2
  <2> QED BY <2>3 DEF Z
<1>4. ASSUME NEW f \in [D -> S], NEW g \in [D -> S], NEW i \in D, \A j \in D : m[j] < m[i] => f[j] = g[j]
      PROVE  succ[<<f, i>>] = succ[<<g, i>>]
  <2>1. i # 1 => f[i - 1] = g[i - 1]
    <3> SUFFICES ASSUME i # 1 PROVE f[i - 1] = g[i - 1]
      OBVIOUS
    <3>1. i - 1 \in D /\ m[i - 1] < m[i]
      OBVIOUS
    <3> QED BY <3>1, <1>4
  <2> HIDE DEF D, S, m, succ
  <2>2. succ[<<f, i>>] = IF i = 1 THEN seqs[i] ELSE f[i - 1] \o seqs[i]
    BY <1>2
  <2>3. succ[<<g, i>>] = IF i = 1 THEN seqs[i] ELSE g[i - 1] \o seqs[i]
    BY <1>2
  <2>4. CASE i = 1
    BY <2>2, <2>3, <2>4
  <2>5. CASE i # 1
    BY <2>1, <2>2, <2>3, <2>5
  <2> QED BY <2>4, <2>5
<1>5. m \in [D -> Nat] /\ <<>> \in S
  BY EmptySeq
<1> HIDE DEF D, m, succ, S
<1>6. Narrows(succ, D, S, m)
  BY <1>3, <1>4, <1>5 DEF Narrows
<1>7. PICK f : Solves(f, D, S, succ)
  BY <1>5, <1>6, Recursion
<1>8. f \in [D -> S] /\ \A i \in D : f[i] = IF i = 1 THEN seqs[i] ELSE f[i - 1] \o seqs[i]
  BY <1>2, <1>7 DEF Solves
<1> USE DEF D, S
<1>9. f = [i \in 1..n |-> IF i = 1 THEN seqs[i] ELSE f[i - 1] \o seqs[i]]
  BY <1>8
<1> DEFINE g == CHOOSE h : h = [i \in 1..n |-> IF i = 1 THEN seqs[i] ELSE h[i - 1] \o seqs[i]]
<1>10. g = [i \in 1..n |-> IF i = 1 THEN seqs[i] ELSE g[i - 1] \o seqs[i]]
  BY <1>9
<1>11. FlattenSeq(seqs) = g[n]
  BY DEF FlattenSeq
<1> HIDE DEF g
<1>12. g \in [1..n -> S]
  <2> DEFINE A == {k \in Nat : k \in 1..n => g[k] \in S}
  <2>1. 0 \in A
    OBVIOUS
  <2>2. \A k \in Nat : k \in A => k + 1 \in A
    <3> TAKE k \in Nat
    <3> HAVE k \in A
    <3> SUFFICES ASSUME k + 1 \in 1..n PROVE g[k + 1] \in S
      OBVIOUS
    <3>1. seqs[k + 1] \in S
      BY <1>1
    <3>2. CASE k = 0
      <4>1. g[1] = seqs[1]
        BY <1>10
      <4> QED BY <3>1, <3>2, <4>1
    <3>3. CASE k # 0
      <4>1. k \in 1..n /\ (k + 1) - 1 = k /\ k + 1 # 1
        BY <3>3
      <4>2. g[k + 1] = g[k] \o seqs[k + 1]
        BY <4>1, <1>10
      <4> QED BY <3>1, <4>1, <4>2, ConcatProperties
    <3> QED BY <3>2, <3>3
  <2>3. Nat \subseteq A
    <3> HIDE DEF A
    <3> QED BY <2>1, <2>2, SetInduction
  <2>4. \A k \in 1..n : g[k] \in S
    BY <2>3
  <2> HIDE DEF S, A
  <2> QED BY <2>4, <1>10
<1> QED BY <1>10, <1>11, <1>12

LEMMA FlattenedAt ==
  ASSUME NEW B, NEW seqs \in Seq(Seq(B))
  PROVE  FlattenSeq(seqs) \in Seq(B) /\ \E e : Flattened(e, FlattenSeq(seqs), seqs)
<1>0. PICK n \in Nat : n = Len(seqs)
  BY LenProperties
<1>1. CASE n = 0
  <2>1. seqs = <<>> /\ FlattenSeq(seqs) = <<>>
    BY <1>0, <1>1, EmptySeq DEF FlattenSeq
  <2>2. <<>> \in Seq(B) /\ Len(<<>>) = 0
    BY EmptySeq
  <2>3. PICK e : e = [k \in 0..0 |-> 0]
    OBVIOUS
  <2>4. e \in [0..0 -> Nat] /\ e[0] = 0 /\ 1..0 = {}
    BY <2>3
  <2>5. Flattened(e, <<>>, <<>>)
    BY <2>2, <2>4 DEF Flattened
  <2> QED BY <2>1, <2>2, <2>5
<1>2. CASE n # 0
  <2>0. n \in Nat \ {0} /\ Len(seqs) = n
    BY <1>0, <1>2
  <2>1. PICK f \in [1..n -> Seq(B)] :
              /\ f = [i \in 1..n |-> IF i = 1 THEN seqs[i] ELSE f[i - 1] \o seqs[i]]
              /\ FlattenSeq(seqs) = f[n]
    <3>1. \A m \in Nat \ {0} : \A q \in Seq(Seq(B)) :
            Len(q) = m => \E f \in [1..m -> Seq(B)] :
                            /\ f = [i \in 1..m |-> IF i = 1 THEN q[i] ELSE f[i - 1] \o q[i]]
                            /\ FlattenSeq(q) = f[m]
      BY FlattenSteps
    <3> QED BY <2>0, <3>1, <1>0, Zenon
  <2>2. \A i \in 1..n : seqs[i] \in Seq(B) /\ Len(seqs[i]) \in Nat /\ f[i] \in Seq(B) /\ Len(f[i]) \in Nat
    <3>1. \A i \in 1..n : seqs[i] \in Seq(B)
      BY <1>0, ElementOfSeq
    <3> QED BY <3>1, LenProperties
  <2> DEFINE e == [k \in 0..n |-> IF k = 0 THEN 0 ELSE Len(f[k])]
  <2>3. e \in [0..n -> Nat] /\ e[0] = 0 /\ \A k \in 1..n : e[k] = Len(f[k])
    BY <2>2
  <2>4. ASSUME NEW k \in 1..n
        PROVE  /\ e[k] = e[k - 1] + Len(seqs[k])
               /\ \A j \in 1..e[k - 1] : k > 1 /\ f[k][j] = f[k - 1][j]
               /\ \A j \in 1..Len(seqs[k]) : f[k][e[k - 1] + j] = seqs[k][j]
    <3> HIDE DEF e
    <3>1. CASE k = 1
      <4>1. f[k] = seqs[k] /\ e[k - 1] = 0 /\ 1..0 = {}
        BY <2>1, <2>3, <3>1
      <4>2. \A j \in 1..Len(seqs[k]) : 0 + j = j
        OBVIOUS
      <4> QED BY <2>2, <2>3, <4>1, <4>2
    <3>2. CASE k # 1
      <4>1. k - 1 \in 1..n
        BY <3>2
      <4>2. PICK a, b, c : a = f[k - 1] /\ b = seqs[k] /\ c = f[k]
        OBVIOUS
      <4>3. c = a \o b /\ a \in Seq(B) /\ b \in Seq(B)
        BY <2>1, <2>2, <3>2, <4>1, <4>2
      <4>4. /\ Len(c) = Len(a) + Len(b) /\ Len(a) \in Nat /\ Len(b) \in Nat
            /\ \A i \in 1..Len(a) + Len(b) : c[i] = IF i <= Len(a) THEN a[i] ELSE b[i - Len(a)]
        BY <4>3, ConcatProperties, LenProperties
      <4>5. e[k - 1] = Len(a) /\ e[k] = Len(c)
        BY <2>3, <4>1, <4>2
      <4>6. \A j \in 1..Len(a) : c[j] = a[j]
        BY <4>4
      <4>7. ASSUME NEW j \in 1..Len(b) PROVE c[Len(a) + j] = b[j]
        <5>1. Len(a) + j \in 1..Len(a) + Len(b) /\ ~(Len(a) + j <= Len(a)) /\ Len(a) + j - Len(a) = j
          BY <4>4
        <5> QED BY <4>4, <5>1
      <4>8. k > 1
        BY <3>2
      <4> QED BY <4>2, <4>4, <4>5, <4>6, <4>7, <4>8
    <3> QED BY <3>1, <3>2
  <2> HIDE DEF e
  <2> DEFINE A == {k \in Nat : k \in 1..n =>
                     \A i \in 1..k : \A j \in 1..Len(seqs[i]) :
                       e[i - 1] + j \in 1..e[k] /\ f[k][e[i - 1] + j] = seqs[i][j]}
  <2>5. 0 \in A
    <3>1. 0 \notin 1..n
      OBVIOUS
    <3> QED BY <3>1, Zenon
  <2>6. \A k \in Nat : k \in A => k + 1 \in A
    <3> TAKE k \in Nat
    <3> HAVE k \in A
    <3> SUFFICES ASSUME k + 1 \in 1..n, NEW i \in 1..k + 1, NEW j \in 1..Len(seqs[i])
                 PROVE  e[i - 1] + j \in 1..e[k + 1] /\ f[k + 1][e[i - 1] + j] = seqs[i][j]
      <4>1. k + 1 \in Nat
        OBVIOUS
      <4> QED BY <4>1, Zenon
    <3>0. PICK p : p = k + 1
      OBVIOUS
    <3>1. p \in 1..n /\ p - 1 = k /\ k \in 0..n
      BY <3>0
    <3>2. /\ e[p] = e[k] + Len(seqs[p]) /\ e[p] \in Nat /\ e[k] \in Nat /\ Len(seqs[p]) \in Nat
          /\ \A x \in 1..e[k] : f[p][x] = f[k][x]
          /\ \A x \in 1..Len(seqs[p]) : f[p][e[k] + x] = seqs[p][x]
      <4>1. /\ e[p] = e[p - 1] + Len(seqs[p])
            /\ \A x \in 1..e[p - 1] : f[p][x] = f[p - 1][x]
            /\ \A x \in 1..Len(seqs[p]) : f[p][e[p - 1] + x] = seqs[p][x]
        BY <2>4, <3>1
      <4>2. e[p] \in Nat /\ e[k] \in Nat /\ Len(seqs[p]) \in Nat
        BY <2>2, <2>3, <3>1
      <4> QED BY <3>1, <4>1, <4>2
    <3>3. CASE i = p
      <4>1. i - 1 = k
        BY <3>1, <3>3
      <4>2. j \in 1..Len(seqs[p])
        BY <3>3
      <4>3. e[k] + j \in 1..e[p] /\ f[p][e[k] + j] = seqs[p][j]
        <5>1. PICK a, b, l \in Nat : a = e[k] /\ b = e[p] /\ l = Len(seqs[p])
          BY <3>2
        <5>2. b = a + l /\ j \in 1..l
          BY <5>1, <3>2, <4>2
        <5>3. a + j \in 1..b
          <6>1. a \in Nat /\ b \in Nat /\ l \in Nat
            BY <5>1
          <6> QED BY ONLY <6>1, <5>2
        <5>4. f[p][e[k] + j] = seqs[p][j]
          BY <3>2, <4>2
        <5> QED BY ONLY <5>1, <5>3, <5>4
      <4> QED BY <3>0, <3>3, <4>1, <4>3
    <3>4. CASE i # p
      <4>1. i \in 1..k /\ k \in 1..n
        BY <3>0, <3>1, <3>4
      <4>2. e[i - 1] + j \in 1..e[k] /\ f[k][e[i - 1] + j] = seqs[i][j]
        BY <4>1
      <4>3. PICK x : x = e[i - 1] + j
        OBVIOUS
      <4>4. x \in 1..e[k]
        BY <4>2, <4>3
      <4>5. x \in 1..e[p]
        BY <3>2, <4>4
      <4>6. f[p][x] = f[k][x] /\ x \in 1..e[p]
        BY <3>2, <4>4, <4>5
      <4> QED BY <3>0, <4>2, <4>3, <4>6
    <3> QED BY <3>3, <3>4
  <2>7. Nat \subseteq A
    <3> HIDE DEF A
    <3> QED BY <2>5, <2>6, SetInduction
  <2>8. n \in 1..n /\ e[n] = Len(f[n])
    BY <1>2, <2>3
  <2>9. \A i \in 1..n : \A j \in 1..Len(seqs[i]) :
          e[i - 1] + j \in 1..e[n] /\ f[n][e[i - 1] + j] = seqs[i][j]
    BY <2>7, <2>8
  <2> HIDE DEF A
  <2>10. \A k \in 1..n : e[k] = e[k - 1] + Len(seqs[k])
    BY <2>4
  <2>11. Flattened(e, f[n], seqs)
    BY <1>0, <2>3, <2>8, <2>9, <2>10 DEF Flattened
  <2> QED BY <2>1, <2>2, <2>8, <2>11
<1> QED BY <1>1, <1>2

\* The byte that holds both numbers, the bytes that extend them, and the value.
Nib(n) == IF n <= 12 THEN n ELSE 13
More(n) == IF n <= 12 THEN 0 ELSE 1
OptionLaid(b, d, v) ==
  /\ Len(b) = 1 + More(d) + More(Len(v)) + Len(v)
  /\ b[1] = Nib(d) * 16 + Nib(Len(v))
  /\ d > 12 => b[2] = d - 13
  /\ Len(v) > 12 => b[2 + More(d)] = Len(v) - 13
  /\ \A j \in 1..Len(v) : b[1 + More(d) + More(Len(v)) + j] = v[j]

LEMMA ExtraIs ==
  ASSUME NEW n \in 0..268
  PROVE  /\ Nibble(n) = Nib(n) /\ Len(Extra(n)) = More(n) /\ Extra(n) \in Seq(Nat)
         /\ n > 12 => Extra(n)[1] = n - 13
<1>w. Widest \in Int
  BY DEF Widest
<1>0. n \notin 269..14 + Widest
  BY <1>w
<1>1. CASE n > 12
  <2>0. n \in 13..268 /\ n \notin 0..12 /\ ~(n <= 12)
    BY <1>1
  <2>1. Extra(n) = <<n - 13>>
    BY <1>0, <2>0 DEF Extra
  <2>2. Nibble(n) = 13
    BY <1>0, <2>0 DEF Nibble
  <2>3. PICK m \in Nat : m = n - 13
    BY <1>1
  <2>4. <<m>> \in Seq(Nat) /\ Len(<<m>>) = 1 /\ <<m>>[1] = m
    OBVIOUS
  <2> QED BY <2>0, <2>1, <2>2, <2>3, <2>4 DEF Nib, More
<1>2. CASE ~(n > 12)
  <2>0. n \notin 13..268 /\ n \in 0..12 /\ n <= 12
    BY <1>2
  <2>1. Extra(n) = <<>>
    BY <1>0, <2>0 DEF Extra
  <2>2. Nibble(n) = n
    BY <1>0, <2>0 DEF Nibble
  <2>3. <<>> \in Seq(Nat) /\ Len(<<>>) = 0
    BY EmptySeq
  <2> QED BY <1>2, <2>0, <2>1, <2>2, <2>3 DEF Nib, More
<1> QED BY <1>1, <1>2, Zenon

LEMMA ExtraType ==
  ASSUME NEW n \in Int
  PROVE  Extra(n) \in Seq(Nat) /\ Nibble(n) \in Nat
<1>w. Widest \in Int
  BY DEF Widest
<1>1. CASE n \in 0..268
  <2>1. Nibble(n) = Nib(n) /\ Extra(n) \in Seq(Nat)
    BY <1>1, ExtraIs
  <2>2. Nib(n) \in Nat
    BY <1>1 DEF Nib
  <2> QED BY <2>1, <2>2
<1>2. CASE n \in 269..14 + Widest
  <2>0. n \notin 13..268 /\ n \notin 0..12
    BY <1>2, <1>w
  <2>1. Extra(n) = <<(n - 269) \div 256, (n - 269) % 256>>
    BY <1>2, <2>0 DEF Extra
  <2>2. n - 269 \in Nat
    BY <1>2, <1>w
  <2>3. PICK q, r \in Int : Divided(n - 269, 256, q, r)
    BY <2>2, Division
  <2>4. q \in Nat /\ r \in Nat
    BY <2>2, <2>3 DEF Divided
  <2>5. Extra(n) = <<q, r>>
    BY <2>1, <2>3 DEF Divided
  <2>6. Nibble(n) = 14
    BY <1>2, <2>0 DEF Nibble
  <2> QED BY <2>4, <2>5, <2>6
<1>3. CASE n \notin 0..268 /\ n \notin 269..14 + Widest
  <2>0. n \notin 13..268 /\ n \notin 0..12
    BY <1>3
  <2>1. Extra(n) = <<>>
    BY <1>3, <2>0 DEF Extra
  <2>2. <<>> \in Seq(Nat)
    BY EmptySeq
  <2>3. Nibble(n) = 0
    BY <1>3, <2>0 DEF Nibble
  <2> QED BY <2>1, <2>2, <2>3
<1> QED BY <1>1, <1>2, <1>3

\* c is a followed by b.
Joins(c, a, b) ==
  /\ c \in Seq(Nat) /\ Len(c) = Len(a) + Len(b)
  /\ \A i \in 1..Len(a) : c[i] = a[i]
  /\ \A i \in 1..Len(b) : c[Len(a) + i] = b[i]

LEMMA ConcatJoins ==
  ASSUME NEW a \in Seq(Nat), NEW b \in Seq(Nat)
  PROVE  Joins(a \o b, a, b)
<1>1. PICK m, n \in Nat : m = Len(a) /\ n = Len(b)
  BY LenProperties
<1>2. PICK c : c = a \o b
  OBVIOUS
<1>3. /\ c \in Seq(Nat) /\ Len(c) = Len(a) + Len(b)
      /\ \A i \in 1..Len(a) + Len(b) : c[i] = IF i <= Len(a) THEN a[i] ELSE b[i - Len(a)]
  BY <1>2, ConcatProperties
<1>4. Len(c) = m + n /\ \A i \in 1..m + n : c[i] = IF i <= m THEN a[i] ELSE b[i - m]
  BY <1>1, <1>3
<1>5. ASSUME NEW i \in 1..m PROVE c[i] = a[i]
  <2>1. i \in 1..m + n /\ i <= m
    OBVIOUS
  <2> QED BY <2>1, <1>4
<1>6. ASSUME NEW i \in 1..n PROVE c[m + i] = b[i]
  <2>1. m + i \in 1..m + n /\ ~(m + i <= m) /\ m + i - m = i
    OBVIOUS
  <2> QED BY <2>1, <1>4
<1> QED BY <1>1, <1>2, <1>3, <1>5, <1>6 DEF Joins

LEMMA OptionBytesAre ==
  ASSUME NEW d \in Int, NEW v \in Seq(Nat)
  PROVE  /\ OptionBytes(d, v) \in Seq(Nat) /\ Len(OptionBytes(d, v)) \in Nat \ {0}
         /\ d \in 0..268 /\ Len(v) <= 268 => OptionLaid(OptionBytes(d, v), d, v)
<1>0. PICK l \in Nat : l = Len(v)
  BY LenProperties
<1>l. l \in Int
  OBVIOUS
<1>1. Extra(d) \in Seq(Nat) /\ Nibble(d) \in Nat /\ Extra(l) \in Seq(Nat) /\ Nibble(l) \in Nat
  BY <1>l, ExtraType
<1>2. PICK h \in Nat : h = Nibble(d) * 16 + Nibble(l)
  BY <1>1
<1>3. PICK f, x, y : f = <<h>> /\ x = Extra(d) /\ y = Extra(l)
  OBVIOUS
<1>4. f \in Seq(Nat) /\ Len(f) = 1 /\ f[1] = h /\ x \in Seq(Nat) /\ y \in Seq(Nat)
  BY <1>1, <1>3
<1>5. PICK a : a = f \o x
  OBVIOUS
<1>6. Joins(a, f, x)
  BY <1>4, <1>5, ConcatJoins
<1>7. PICK b : b = a \o y
  OBVIOUS
<1>8. Joins(b, a, y)
  <2>1. a \in Seq(Nat)
    BY <1>6 DEF Joins
  <2> QED BY <2>1, <1>4, <1>7, ConcatJoins
<1>9. PICK c : c = b \o v
  OBVIOUS
<1>10. Joins(c, b, v)
  <2>1. b \in Seq(Nat)
    BY <1>8 DEF Joins
  <2> QED BY <2>1, <1>9, ConcatJoins
<1>11. c = OptionBytes(d, v)
  BY <1>0, <1>2, <1>3, <1>5, <1>7, <1>9 DEF OptionBytes
<1>12. PICK m, n \in Nat : m = Len(x) /\ n = Len(y)
  BY <1>4, LenProperties
<1>13. Len(a) = 1 + m /\ Len(b) = 1 + m + n /\ Len(c) = 1 + m + n + l /\ c \in Seq(Nat)
  BY <1>0, <1>4, <1>6, <1>8, <1>10, <1>12 DEF Joins
<1>14. (\A i \in 1..1 + m + n : c[i] = b[i]) /\ \A i \in 1..l : c[1 + m + n + i] = v[i]
  BY <1>0, <1>10, <1>13 DEF Joins
<1>15. (\A i \in 1..1 + m : b[i] = a[i]) /\ \A i \in 1..n : b[1 + m + i] = y[i]
  BY <1>8, <1>12, <1>13 DEF Joins
<1>16. a[1] = h /\ \A i \in 1..m : a[1 + i] = x[i]
  <2>1. 1 \in 1..Len(f)
    BY <1>4
  <2> QED BY <2>1, <1>4, <1>6, <1>12 DEF Joins
<1>17. c[1] = h
  <2>1. 1 \in 1..1 + m + n /\ 1 \in 1..1 + m
    OBVIOUS
  <2> QED BY <2>1, <1>14, <1>15, <1>16
<1>18. ASSUME m >= 1 PROVE c[2] = x[1]
  <2>1. 2 \in 1..1 + m + n /\ 2 \in 1..1 + m /\ 1 \in 1..m /\ 1 + 1 = 2
    BY <1>18
  <2> QED BY <2>1, <1>14, <1>15, <1>16
<1>19. ASSUME n >= 1 PROVE c[2 + m] = y[1]
  <2>1. 2 + m \in 1..1 + m + n /\ 1 \in 1..n /\ 1 + m + 1 = 2 + m
    BY <1>19
  <2> QED BY <2>1, <1>14, <1>15
<1>20. ASSUME d \in 0..268, l <= 268 PROVE OptionLaid(c, d, v)
  <2>1. l \in 0..268
    BY <1>20
  <2>2. Nibble(d) = Nib(d) /\ m = More(d) /\ (d > 12 => x[1] = d - 13)
    BY <1>20, <1>3, <1>12, ExtraIs
  <2>3. Nibble(l) = Nib(l) /\ n = More(l) /\ (l > 12 => y[1] = l - 13)
    BY <2>1, <1>3, <1>12, ExtraIs
  <2>4. (d > 12 => m >= 1) /\ (l > 12 => n >= 1)
    BY <2>2, <2>3 DEF More
  <2> QED BY <2>2, <2>3, <2>4, <1>0, <1>2, <1>13, <1>14, <1>17, <1>18, <1>19 DEF OptionLaid
<1>21. 1 + m + n + l \in Nat \ {0}
  OBVIOUS
<1> QED BY <1>0, <1>11, <1>13, <1>20, <1>21

Delta(k) == options[k].number - (IF k = 1 THEN 0 ELSE options[k - 1].number)
Plain ==
  /\ Rising(options)
  /\ \A k \in 1..Len(options) : Len(options[k].value) <= 268 /\ Delta(k) <= 268

LEMMA ValuesAre ==
  ASSUME OptionsType, NEW k \in 1..Len(options)
  PROVE  /\ options[k].value \in Seq(Nat) /\ options[k].number \in Nat
         /\ Delta(k) \in Int /\ (Plain => Delta(k) \in 0..268)
<1>0. PICK n \in Nat : n = Len(options)
  BY LenProperties DEF OptionsType
<1>w. Widest \in Int
  BY DEF Widest
<1>1. \A j \in 1..n : options[j].number \in Nat /\ options[j].value \in Seq(Octets)
  <2>1. \A j \in 1..n : options[j] \in Option
    BY <1>0, ElementOfSeq DEF OptionsType
  <2> QED BY <2>1, <1>w DEF Option
<1>2. Octets \subseteq Nat
  BY DEF Octets
<1>3. options[k].value \in Seq(Nat)
  BY <1>0, <1>1, <1>2, SeqMonotonic
<1>4. k # 1 => k - 1 \in 1..n /\ k - 1 <= k
  BY <1>0
<1>5. Delta(k) \in Int
  BY <1>0, <1>1, <1>4 DEF Delta
<1>6. ASSUME Plain PROVE Delta(k) \in 0..268
  <2>1. Delta(k) <= 268
    BY <1>6 DEF Plain
  <2>2. k # 1 => options[k - 1].number <= options[k].number
    BY <1>0, <1>4, <1>6 DEF Plain, Rising
  <2>3. Delta(k) >= 0
    <3>1. CASE k = 1
      BY <3>1, <1>0, <1>1 DEF Delta
    <3>2. CASE k # 1
      <4>1. options[k].number \in Nat /\ options[k - 1].number \in Nat
        BY <3>2, <1>0, <1>1, <1>4
      <4> QED BY <4>1, <3>2, <2>2 DEF Delta
    <3> QED BY <3>1, <3>2
  <2>4. PICK d \in Int : d = Delta(k)
    BY <1>5
  <2>5. d <= 268 /\ d >= 0
    BY ONLY <2>1, <2>3, <2>4
  <2>6. d \in 0..268
    BY <2>5
  <2> QED BY <2>4, <2>6
<1> QED BY <1>0, <1>1, <1>3, <1>5, <1>6

LEMMA WrittenAre ==
  ASSUME OptionsType, NEW k \in 1..Len(options)
  PROVE  /\ Written(k) \in Seq(Nat) /\ Len(Written(k)) \in Nat \ {0}
         /\ Plain => OptionLaid(Written(k), Delta(k), options[k].value)
<1>1. Written(k) = OptionBytes(Delta(k), options[k].value)
  BY DEF Written, Delta
<1>2. PICK d \in Int : d = Delta(k)
  BY ValuesAre
<1>3. PICK v \in Seq(Nat) : v = options[k].value
  BY ValuesAre
<1>4. Plain => d \in 0..268 /\ Len(v) <= 268
  BY <1>2, <1>3, ValuesAre DEF Plain
<1> QED BY <1>1, <1>2, <1>3, <1>4, OptionBytesAre

\* The options in the datagram end at e; w is the datagram or a piece of it from the beginning.
WholeLength(e) == e[Len(options)] + (IF payload = <<>> THEN 0 ELSE 1 + Len(payload))
Laid(e, w) ==
  /\ w \in Seq(Nat) /\ Len(w) \in 1..WholeLength(e) /\ w[1] = 4
  /\ e \in [0..Len(options) -> Nat] /\ e[0] = 8
  /\ Len(OptionsWritten) = e[Len(options)] - 8
  /\ \A k \in 1..Len(options) :
       /\ e[k] = e[k - 1] + Len(Written(k))
       /\ \A j \in 1..Len(Written(k)) : e[k - 1] + j <= Len(w) => w[e[k - 1] + j] = Written(k)[j]
  /\ e[Len(options)] < Len(w) => w[e[Len(options)] + 1] = Marker
  /\ \A j \in 1..Len(payload) :
       e[Len(options)] + 1 + j <= Len(w) => w[e[Len(options)] + 1 + j] = payload[j]

Rest == IF payload = <<>> THEN <<>> ELSE <<Marker>> \o payload

LEMMA RestIs ==
  ASSUME OptionsType
  PROVE  /\ Rest \in Seq(Nat) /\ payload \in Seq(Nat) /\ Len(payload) \in Nat
         /\ Len(Rest) = IF payload = <<>> THEN 0 ELSE 1 + Len(payload)
         /\ payload # <<>> => Rest[1] = Marker
         /\ \A j \in 1..Len(payload) : Rest[1 + j] = payload[j]
<1>1. payload \in Seq(Nat)
  <2>1. Octets \subseteq Nat
    BY DEF Octets
  <2> QED BY <2>1, SeqMonotonic DEF OptionsType
<1>2. PICK m \in Nat : m = Len(payload)
  BY <1>1, LenProperties
<1>3. CASE payload = <<>>
  <2>1. Rest = <<>> /\ <<>> \in Seq(Nat) /\ Len(<<>>) = 0 /\ 1..0 = {}
    BY <1>3, EmptySeq DEF Rest
  <2>2. m = 0
    BY <2>1, <1>2, <1>3
  <2> QED BY <2>1, <2>2, <1>1, <1>2, <1>3
<1>4. CASE payload # <<>>
  <2>1. PICK f : f = <<Marker>>
    OBVIOUS
  <2>2. f \in Seq(Nat) /\ Len(f) = 1 /\ f[1] = Marker
    BY <2>1 DEF Marker
  <2>3. PICK r : r = Rest
    OBVIOUS
  <2>4. Joins(r, f, payload)
    BY <2>1, <2>2, <2>3, <1>1, <1>4, ConcatJoins DEF Rest
  <2>5. r \in Seq(Nat) /\ Len(r) = 1 + m /\ \A j \in 1..m : r[1 + j] = payload[j]
    BY <2>2, <2>4, <1>2 DEF Joins
  <2>6. r[1] = Marker
    <3>1. 1 \in 1..Len(f)
      BY <2>2
    <3> QED BY <3>1, <2>2, <2>4 DEF Joins
  <2> QED BY <2>3, <2>5, <2>6, <1>1, <1>2, <1>4
<1> QED BY <1>3, <1>4

LEMMA SerializedLaid ==
  ASSUME OptionsType
  PROVE  \E e : /\ Laid(e, Header \o OptionsWritten \o Rest)
                /\ Len(Header \o OptionsWritten \o Rest) = WholeLength(e)
<1>0. PICK n \in Nat : n = Len(options)
  BY LenProperties DEF OptionsType
<1>1. PICK W : W = [k \in 1..n |-> Written(k)]
  OBVIOUS
<1>2. \A k \in 1..n : W[k] = Written(k) /\ Written(k) \in Seq(Nat) /\ Len(Written(k)) \in Nat \ {0}
  BY <1>0, <1>1, WrittenAre
<1>3. W \in Seq(Seq(Nat)) /\ Len(W) = n
  <2>1. W \in [1..n -> Seq(Nat)]
    BY <1>1, <1>2
  <2> QED BY <2>1, FunctionIsSeq
<1>4. PICK f : f = OptionsWritten /\ f = FlattenSeq(W)
  BY <1>0, <1>1 DEF OptionsWritten
<1>5. f \in Seq(Nat) /\ \E a : Flattened(a, f, W)
  BY <1>3, <1>4, FlattenedAt
<1>6. PICK a : Flattened(a, f, W)
  BY <1>5
<1>7. /\ a \in [0..n -> Nat] /\ a[0] = 0 /\ a[n] = Len(f)
      /\ \A k \in 1..n : a[k] = a[k - 1] + Len(Written(k))
      /\ \A k \in 1..n : \A j \in 1..Len(Written(k)) :
           a[k - 1] + j \in 1..Len(f) /\ f[a[k - 1] + j] = Written(k)[j]
  BY <1>2, <1>3, <1>6 DEF Flattened
<1>8. PICK h : h = Header \o f
  OBVIOUS
<1>9. Header \in Seq(Nat) /\ Len(Header) = 8 /\ Header[1] = 4
  BY DEF Header
<1>10. Joins(h, Header, f)
  BY <1>5, <1>8, <1>9, ConcatJoins
<1>11. PICK w : w = h \o Rest
  OBVIOUS
<1>12. Joins(w, h, Rest)
  <2>1. h \in Seq(Nat)
    BY <1>10 DEF Joins
  <2> QED BY <2>1, <1>11, RestIs, ConcatJoins
<1>13. PICK l, r, p \in Nat : l = Len(f) /\ r = Len(Rest) /\ p = Len(payload)
  BY <1>5, RestIs, LenProperties
<1>14. w \in Seq(Nat) /\ Len(h) = 8 + l /\ Len(w) = 8 + l + r
  BY <1>9, <1>10, <1>12, <1>13 DEF Joins
<1>15. (\A i \in 1..8 + l : w[i] = h[i]) /\ (\A i \in 1..r : w[8 + l + i] = Rest[i])
  BY <1>12, <1>13, <1>14 DEF Joins
<1>16. (\A i \in 1..8 : h[i] = Header[i]) /\ (\A i \in 1..l : h[8 + i] = f[i])
  BY <1>9, <1>10, <1>13 DEF Joins
<1>17. w[1] = 4
  <2>1. 1 \in 1..8 + l /\ 1 \in 1..8
    OBVIOUS
  <2> QED BY <2>1, <1>9, <1>15, <1>16
<1>18. \A i \in 1..l : w[8 + i] = f[i]
  <2>1. \A i \in 1..l : 8 + i \in 1..8 + l
    OBVIOUS
  <2> QED BY <2>1, <1>15, <1>16
<1> DEFINE e == [k \in 0..n |-> 8 + a[k]]
<1>19. e \in [0..n -> Nat] /\ e[0] = 8 /\ e[n] = 8 + l /\ \A k \in 0..n : e[k] = 8 + a[k]
  BY <1>7, <1>13
<1> HIDE DEF e
<1>20. ASSUME NEW k \in 1..n
       PROVE  /\ e[k] = e[k - 1] + Len(Written(k))
              /\ \A j \in 1..Len(Written(k)) : w[e[k - 1] + j] = Written(k)[j]
  <2>1. k \in 0..n /\ k - 1 \in 0..n
    OBVIOUS
  <2>2. PICK b, c, m \in Nat : b = a[k - 1] /\ c = a[k] /\ m = Len(Written(k))
    BY <2>1, <1>2, <1>7
  <2>3. c = b + m /\ e[k] = 8 + c /\ e[k - 1] = 8 + b
    BY <2>1, <2>2, <1>7, <1>19
  <2>4. ASSUME NEW j \in 1..m PROVE w[e[k - 1] + j] = Written(k)[j]
    <3>1. PICK i : i = b + j
      OBVIOUS
    <3>2. i \in 1..l /\ f[i] = Written(k)[j]
      BY <3>1, <2>2, <1>7, <1>13
    <3>3. e[k - 1] + j = 8 + i
      BY <3>1, <2>3
    <3> QED BY <3>2, <3>3, <1>18
  <2>5. e[k] = e[k - 1] + m
    BY <2>3
  <2> QED BY <2>2, <2>4, <2>5
<1>21. (payload # <<>> => r = 1 + p) /\ (payload = <<>> => r = 0)
  BY <1>13, RestIs
<1>22. Len(w) = WholeLength(e) /\ Len(w) \in Nat \ {0} /\ Len(w) = e[n] + r
  <2>1. Len(w) = e[n] + r /\ Len(w) \in Nat \ {0}
    BY <1>14, <1>19
  <2>2. CASE payload = <<>>
    BY <2>1, <2>2, <1>0, <1>19, <1>21 DEF WholeLength
  <2>3. CASE payload # <<>>
    BY <2>1, <2>3, <1>0, <1>13, <1>19, <1>21 DEF WholeLength
  <2> QED BY <2>1, <2>2, <2>3
<1>23. ASSUME e[n] < Len(w) PROVE w[e[n] + 1] = Marker
  <2>1. payload # <<>> /\ 1 \in 1..r
    BY <1>14, <1>19, <1>21, <1>23
  <2>2. w[8 + l + 1] = Rest[1] /\ Rest[1] = Marker
    BY <2>1, <1>15, RestIs
  <2> QED BY <2>2, <1>19
<1>24. ASSUME NEW j \in 1..p PROVE w[e[n] + 1 + j] = payload[j]
  <2>1. payload # <<>>
    BY <1>13, EmptySeq
  <2>2. 1 + j \in 1..r
    BY <2>1, <1>21
  <2>3. w[8 + l + (1 + j)] = Rest[1 + j] /\ Rest[1 + j] = payload[j]
    BY <2>2, <1>13, <1>15, RestIs
  <2>4. e[n] + 1 + j = 8 + l + (1 + j)
    BY <1>19
  <2> QED BY <2>3, <2>4
<1>25. Laid(e, w)
  <2>1. Len(w) \in 1..WholeLength(e)
    BY <1>22
  <2>2. Len(OptionsWritten) = e[n] - 8
    BY <1>4, <1>13, <1>19
  <2> QED BY <2>1, <2>2, <1>0, <1>13, <1>14, <1>17, <1>19, <1>20, <1>23, <1>24 DEF Laid
<1>26. w = Header \o OptionsWritten \o Rest
  BY <1>4, <1>8, <1>11
<1> QED BY <1>22, <1>25, <1>26

LEMMA WholeIs ==
  ASSUME OptionsType, NEW e, NEW w, Laid(e, w)
  PROVE  /\ WholeLength(e) \in Nat /\ e[Len(options)] \in Nat /\ e[Len(options)] <= WholeLength(e)
         /\ payload # <<>> => WholeLength(e) = e[Len(options)] + 1 + Len(payload) /\ Len(payload) # 0
         /\ payload = <<>> => WholeLength(e) = e[Len(options)] /\ Len(payload) = 0
<1>1. PICK l \in Nat : l = Len(options)
  BY LenProperties DEF OptionsType
<1>2. PICK m \in Nat : m = e[l]
  <2>1. e \in [0..l -> Nat] /\ l \in 0..l
    BY <1>1 DEF Laid
  <2> QED BY <2>1
<1>3. PICK p \in Nat : p = Len(payload)
  BY RestIs
<1>4. payload = <<>> <=> p = 0
  BY <1>3, RestIs, EmptySeq
<1>5. WholeLength(e) = m + (IF payload = <<>> THEN 0 ELSE 1 + p)
  BY <1>1, <1>2, <1>3 DEF WholeLength
<1>6. CASE payload = <<>>
  <2>1. WholeLength(e) = m
    BY <1>5, <1>6
  <2> QED BY <2>1, <1>1, <1>2, <1>3, <1>4, <1>6
<1>7. CASE payload # <<>>
  <2>1. WholeLength(e) = m + 1 + p
    BY <1>5, <1>7
  <2> QED BY <2>1, <1>1, <1>2, <1>3, <1>4, <1>7
<1> QED BY <1>6, <1>7

LEMMA CutLaid ==
  ASSUME OptionsType, NEW e, NEW w, Laid(e, w), NEW n \in 1..Len(w)
  PROVE  Laid(e, SubSeq(w, 1, n))
<1>0. PICK m, l \in Nat : m = Len(w) /\ l = Len(options)
  BY LenProperties DEF OptionsType, Laid
<1>1. PICK u : u = SubSeq(w, 1, n)
  OBVIOUS
<1>2. u \in Seq(Nat) /\ Len(u) = n /\ \A i \in 1..n : u[i] = w[i]
  <2>1. n \in 0..Len(w) /\ w \in Seq(Nat)
    BY <1>0 DEF Laid
  <2> QED BY <2>1, <1>1, Initial
<1>3. \A k \in 0..l : e[k] \in Nat
  BY <1>0 DEF Laid
<1>4. n <= m /\ m \in 1..WholeLength(e) /\ WholeLength(e) \in Nat
  <2>1. WholeLength(e) \in Nat
    BY WholeIs
  <2> QED BY <2>1, <1>0 DEF Laid
<1>5. Len(u) \in 1..WholeLength(e) /\ u[1] = 4
  <2>1. 1 \in 1..n /\ n \in 1..WholeLength(e)
    BY <1>4
  <2> QED BY <2>1, <1>2 DEF Laid
<1>6. ASSUME NEW k \in 1..l, NEW j \in 1..Len(Written(k)), e[k - 1] + j <= n
      PROVE  u[e[k - 1] + j] = Written(k)[j]
  <2>1. PICK c : c = e[k - 1] + j
    OBVIOUS
  <2>2. Len(Written(k)) \in Nat /\ k - 1 \in 0..l
    BY <1>0, WrittenAre
  <2>3. c \in 1..n /\ c <= m
    BY <2>1, <2>2, <1>3, <1>4, <1>6, <1>0
  <2>4. w[c] = Written(k)[j]
    BY <2>1, <2>3, <1>0 DEF Laid
  <2> QED BY <2>1, <2>3, <2>4, <1>2
<1>7. ASSUME e[l] < n PROVE u[e[l] + 1] = Marker
  <2>1. PICK c \in Nat : c = e[l]
    BY <1>3
  <2>2. c + 1 \in 1..n /\ c < m
    BY <2>1, <1>4, <1>7, <1>0
  <2>3. w[c + 1] = Marker
    BY <2>1, <2>2, <1>0 DEF Laid
  <2> QED BY <2>1, <2>2, <2>3, <1>2
<1>8. ASSUME NEW j \in 1..Len(payload), e[l] + 1 + j <= n PROVE u[e[l] + 1 + j] = payload[j]
  <2>1. PICK c : c = e[l] + 1 + j
    OBVIOUS
  <2>2. Len(payload) \in Nat /\ e[l] \in Nat
    BY <1>3, RestIs
  <2>3. c \in 1..n /\ c <= m
    BY <2>1, <2>2, <1>4, <1>8, <1>0
  <2>4. w[c] = payload[j]
    BY <2>1, <2>3, <1>0 DEF Laid
  <2> QED BY <2>1, <2>3, <2>4, <1>2
<1>9. Laid(e, u)
  BY <1>0, <1>2, <1>5, <1>6, <1>7, <1>8 DEF Laid
<1> QED BY <1>1, <1>9

-----------------------------------------------------------------------------
(* The reader *)

LEMMA EndsRise ==
  ASSUME OptionsType, NEW e, NEW w, Laid(e, w)
  PROVE  \A k \in 0..Len(options) :
           /\ e[k] \in Nat /\ 8 <= e[k] /\ e[k] <= e[Len(options)]
           /\ k < Len(options) => e[k] < e[Len(options)]
<1>0. PICK n \in Nat : n = Len(options)
  BY LenProperties DEF OptionsType
<1>1. e \in [0..n -> Nat] /\ e[0] = 8
  BY <1>0 DEF Laid
<1>2. ASSUME NEW k \in 0..n, k < n PROVE e[k] < e[k + 1]
  <2>1. PICK q : q = k + 1
    OBVIOUS
  <2>2. q \in 1..n /\ q - 1 = k /\ q \in 0..n
    BY <2>1, <1>2
  <2>3. e[q] = e[q - 1] + Len(Written(q)) /\ Len(Written(q)) \in Nat \ {0}
    BY <2>2, <1>0, WrittenAre DEF Laid
  <2>4. e[k] \in Nat /\ e[q] \in Nat
    BY <2>2, <1>1
  <2> QED BY <2>1, <2>2, <2>3, <2>4
<1> DEFINE A == {d \in Nat : d <= n => e[n - d] <= e[n] /\ (d # 0 => e[n - d] < e[n])}
           B == {d \in Nat : d <= n => 8 <= e[d]}
<1>3. 0 \in A
  <2>1. e[n - 0] = e[n] /\ e[n] \in Nat
    BY <1>1
  <2> QED BY <2>1
<1>4. \A d \in Nat : d \in A => d + 1 \in A
  <2> TAKE d \in Nat
  <2> HAVE d \in A
  <2> SUFFICES ASSUME d + 1 <= n PROVE e[n - (d + 1)] < e[n]
    <3>1. d + 1 <= n => e[n - (d + 1)] \in Nat /\ e[n] \in Nat
      BY <1>1
    <3> QED BY <3>1
  <2>1. PICK k : k = n - (d + 1)
    OBVIOUS
  <2>2. k \in 0..n /\ k < n /\ k + 1 = n - d /\ k + 1 \in 0..n /\ n \in 0..n
    BY <2>1
  <2>3. e[k] < e[k + 1] /\ e[k + 1] <= e[n]
    BY <2>2, <1>2
  <2>4. e[k] \in Nat /\ e[k + 1] \in Nat /\ e[n] \in Nat
    BY <2>2, <1>1
  <2> QED BY <2>1, <2>3, <2>4
<1>5. Nat \subseteq A
  <2> HIDE DEF A
  <2> QED BY <1>3, <1>4, SetInduction
<1>6. 0 \in B
  BY <1>1
<1>7. \A d \in Nat : d \in B => d + 1 \in B
  <2> TAKE d \in Nat
  <2> HAVE d \in B
  <2> SUFFICES ASSUME d + 1 <= n PROVE 8 <= e[d + 1]
    OBVIOUS
  <2>1. d \in 0..n /\ d < n /\ d + 1 \in 0..n
    OBVIOUS
  <2>2. e[d] < e[d + 1] /\ 8 <= e[d] /\ e[d] \in Nat /\ e[d + 1] \in Nat
    BY <2>1, <1>1, <1>2
  <2> QED BY <2>2
<1>8. Nat \subseteq B
  <2> HIDE DEF B
  <2> QED BY <1>6, <1>7, SetInduction
<1>9. ASSUME NEW k \in 0..n PROVE e[k] \in Nat /\ 8 <= e[k] /\ e[k] <= e[n] /\ (k < n => e[k] < e[n])
  <2>1. n - k \in Nat /\ n - k <= n /\ n - (n - k) = k /\ (k < n => n - k # 0) /\ k \in Nat /\ k <= n
    OBVIOUS
  <2>2. e[k] <= e[n] /\ (k < n => e[k] < e[n])
    BY <2>1, <1>5
  <2>3. 8 <= e[k]
    BY <2>1, <1>8
  <2> QED BY <2>2, <2>3, <1>1
<1> HIDE DEF A, B
<1> QED BY <1>0, <1>9

\* What ReadOption finds at p.
LengthAt(p) == p + 1 + ExtraLen(Byte(p) \div 16)
ValueAt(p) == LengthAt(p) + ExtraLen(Byte(p) % 16)
StepAt(p) == Extended(Byte(p) \div 16, p + 1)
SizeAt(p) == Extended(Byte(p) % 16, LengthAt(p))
BytesAt(p) == [k \in 1..SizeAt(p) |-> Byte(ValueAt(p) + k - 1)]

Found(p, q, d, v) ==
  /\ Byte(p) # Marker /\ Byte(p) \div 16 # 15 /\ Byte(p) % 16 # 15
  /\ q <= Len(wire) => StepAt(p) = d /\ ValueAt(p) + SizeAt(p) = q /\ BytesAt(p) = v
  /\ q > Len(wire) => ValueAt(p) + SizeAt(p) > Len(wire)

\* b stands in the datagram from p, as far as the datagram goes.
StandsAt(b, p) == \A j \in 1..Len(b) : p + j <= Len(wire) => wire[p + j] = b[j]

LEMMA NibIs ==
  ASSUME NEW n \in 0..268
  PROVE  /\ Nib(n) \in 0..13 /\ ExtraLen(Nib(n)) = More(n) /\ More(n) \in 0..1
         /\ \A q : Extended(Nib(n), q) = IF n > 12 THEN 13 + Byte(q) ELSE n
<1>1. CASE n <= 12
  <2>1. Nib(n) = n /\ More(n) = 0 /\ n # 13 /\ n # 14 /\ ~(n > 12) /\ n \in 0..13
    BY <1>1 DEF Nib, More
  <2> QED BY <2>1 DEF ExtraLen, Extended
<1>2. CASE ~(n <= 12)
  <2>1. Nib(n) = 13 /\ More(n) = 1 /\ n > 12
    BY <1>2 DEF Nib, More
  <2> QED BY <2>1 DEF ExtraLen, Extended
<1> QED BY <1>1, <1>2

LEMMA OptionFound ==
  ASSUME wire \in Seq(Nat), NEW p \in Nat, p < Len(wire), NEW d \in 0..268, NEW v \in Seq(Nat), Len(v) <= 268,
         NEW b, Len(b) \in Nat, OptionLaid(b, d, v), StandsAt(b, p)
  PROVE  Found(p, p + Len(b), d, v)
<1>0. PICK l, m \in Nat : l = Len(v) /\ m = Len(wire)
  BY LenProperties
<1>1. l \in 0..268
  <2>1. l <= 268
    BY ONLY <1>0, Len(v) <= 268
  <2> QED BY <2>1
<1>2. PICK x, y \in 0..1 : x = More(d) /\ y = More(l)
  BY <1>1, NibIs
<1>3. PICK g, h \in 0..13 : g = Nib(d) /\ h = Nib(l)
  BY <1>1, NibIs
<1>4. PICK c : c = Len(b)
  OBVIOUS
<1>5. /\ c = 1 + x + y + l /\ b[1] = g * 16 + h
      /\ (d > 12 => b[2] = d - 13 /\ x = 1) /\ (l > 12 => b[2 + x] = l - 13 /\ y = 1)
      /\ \A j \in 1..l : b[1 + x + y + j] = v[j]
  <2>1. c = 1 + x + y + l /\ b[1] = g * 16 + h
    BY <1>0, <1>2, <1>3, <1>4 DEF OptionLaid
  <2>2. d > 12 => b[2] = d - 13 /\ x = 1
    BY <1>2 DEF OptionLaid, More
  <2>3. l > 12 => b[2 + x] = l - 13
    BY <1>0, <1>2 DEF OptionLaid
  <2>4. l > 12 => y = 1
    BY <1>2 DEF More
  <2>5. \A j \in 1..l : b[1 + x + y + j] = v[j]
    BY <1>0, <1>2 DEF OptionLaid
  <2> QED BY <2>1, <2>2, <2>3, <2>4, <2>5
<1>6. \A i \in Nat : i < m => Byte(i) = wire[i + 1] /\ Byte(i) \in Nat
  <2> SUFFICES ASSUME NEW i \in Nat, i < m PROVE Byte(i) = wire[i + 1] /\ Byte(i) \in Nat
    OBVIOUS
  <2>1. i + 1 \in 1..Len(wire)
    BY <1>0
  <2>2. wire[i + 1] \in Nat
    BY <2>1, ElementOfSeq
  <2> QED BY <2>2, <1>0 DEF Byte
<1>7. \A i \in Nat : ~(i < m) => Byte(i) = 0
  BY <1>0 DEF Byte
<1>8. ASSUME NEW j \in 0..c - 1, p + j < m PROVE Byte(p + j) = b[j + 1]
  <2>1. p + j \in Nat /\ j + 1 \in 1..c /\ p + (j + 1) <= m /\ p + j + 1 = p + (j + 1)
    BY <1>4, <1>8, <1>0
  <2>2. wire[p + (j + 1)] = b[j + 1]
    BY <2>1, <1>0, <1>4 DEF StandsAt
  <2> QED BY <2>1, <2>2, <1>6, <1>8
<1>9. c \in Nat /\ c >= 1
  BY <1>4, <1>5
<1>10. Byte(p) = g * 16 + h
  <2>1. 0 \in 0..c - 1 /\ p + 0 < m /\ p + 0 = p /\ 0 + 1 = 1
    BY <1>0, <1>9
  <2> QED BY <2>1, <1>5, <1>8
<1>11. Byte(p) \div 16 = g /\ Byte(p) % 16 = h /\ Byte(p) # Marker /\ g # 15 /\ h # 15
  <2>1. PICK u \in Int : u = g * 16 + h
    OBVIOUS
  <2>2. u = 16 * g + h /\ 0 <= h /\ h < 16 /\ g \in Int /\ h \in Int
    BY <2>1
  <2>3. u \div 16 = g /\ u % 16 = h
    <3>1. PICK t \in Nat \ {0} : t = 16
      OBVIOUS
    <3>2. u = t * g + h /\ h < t
      BY <2>2, <3>1
    <3>3. u \div t = g /\ u % t = h
      BY <2>2, <3>2, DivisionIs
    <3> QED BY <3>1, <3>3
  <2>4. u # 255
    BY <2>1
  <2> QED BY <2>1, <2>3, <2>4, <1>10 DEF Marker
<1>12. /\ LengthAt(p) = p + 1 + x /\ ValueAt(p) = p + 1 + x + y
       /\ StepAt(p) = IF d > 12 THEN 13 + Byte(p + 1) ELSE d
       /\ SizeAt(p) = IF l > 12 THEN 13 + Byte(p + 1 + x) ELSE l
  <2>1. LengthAt(p) = p + 1 + x
    BY <1>2, <1>3, <1>11, NibIs DEF LengthAt
  <2>2. ValueAt(p) = p + 1 + x + y
    BY <2>1, <1>1, <1>2, <1>3, <1>11, NibIs DEF ValueAt
  <2>3. StepAt(p) = IF d > 12 THEN 13 + Byte(p + 1) ELSE d
    BY <1>3, <1>11, NibIs DEF StepAt
  <2>4. SizeAt(p) = IF l > 12 THEN 13 + Byte(p + 1 + x) ELSE l
    BY <2>1, <1>1, <1>3, <1>11, NibIs DEF SizeAt
  <2> QED BY <2>1, <2>2, <2>3, <2>4
<1>13. p + 1 + x < m => SizeAt(p) = l
  <2> SUFFICES ASSUME p + 1 + x < m PROVE SizeAt(p) = l
    OBVIOUS
  <2>1. CASE l > 12
    <3>1. 1 + x \in 0..c - 1 /\ p + (1 + x) < m /\ p + (1 + x) = p + 1 + x /\ 1 + x + 1 = 2 + x
      BY <2>1, <1>5
    <3>2. Byte(p + 1 + x) = b[2 + x]
      BY <3>1, <1>8
    <3>3. 13 + (l - 13) = l
      OBVIOUS
    <3> QED BY <2>1, <3>2, <3>3, <1>5, <1>12
  <2>2. CASE ~(l > 12)
    BY <2>2, <1>12
  <2> QED BY <2>1, <2>2
<1>14. ~(l > 12) => SizeAt(p) = l
  BY <1>12
<1>15. ASSUME p + c <= m
       PROVE  StepAt(p) = d /\ ValueAt(p) + SizeAt(p) = p + c /\ BytesAt(p) = v
  <2>1. SizeAt(p) = l
    <3>1. l > 12 => p + 1 + x < m
      BY <1>5, <1>15
    <3> QED BY <3>1, <1>13, <1>14
  <2>2. StepAt(p) = d
    <3>1. CASE d > 12
      <4>1. 1 \in 0..c - 1 /\ p + 1 < m /\ 1 + 1 = 2
        BY <3>1, <1>5, <1>15
      <4>2. Byte(p + 1) = b[2]
        BY <4>1, <1>8
      <4>3. 13 + (d - 13) = d
        OBVIOUS
      <4> QED BY <3>1, <4>2, <4>3, <1>5, <1>12
    <3>2. CASE ~(d > 12)
      BY <3>2, <1>12
    <3> QED BY <3>1, <3>2
  <2>3. ValueAt(p) + SizeAt(p) = p + c
    <3>1. ValueAt(p) = p + 1 + x + y
      BY <1>12
    <3>2. p + 1 + x + y + l = p + c
      BY <1>5
    <3> QED BY ONLY <2>1, <3>1, <3>2
  <2>4. ASSUME NEW k \in 1..l PROVE Byte(ValueAt(p) + k - 1) = v[k]
    <3>1. PICK j : j = x + y + k
      OBVIOUS
    <3>2. j \in 0..c - 1 /\ p + j < m /\ p + 1 + x + y + k - 1 = p + j /\ j + 1 = 1 + x + y + k
      BY <3>1, <1>5, <1>15
    <3>3. Byte(p + j) = b[1 + x + y + k]
      BY <3>2, <1>8
    <3> QED BY <3>2, <3>3, <1>5, <1>12
  <2>5. BytesAt(p) = v
    <3>1. BytesAt(p) = [k \in 1..l |-> v[k]]
      BY <2>1, <2>4 DEF BytesAt
    <3>2. v \in [1..l -> Nat]
      BY <1>0, LenProperties
    <3> QED BY <3>1, <3>2
  <2> QED BY <2>2, <2>3, <2>5
<1>16. ASSUME p + c > m PROVE ValueAt(p) + SizeAt(p) > m
  <2>1. CASE l > 12 /\ ~(p + 1 + x < m)
    <3>1. Byte(p + 1 + x) = 0
      BY <2>1, <1>7
    <3>2. SizeAt(p) = 13
      BY <2>1, <3>1, <1>12
    <3> QED BY <2>1, <3>2, <1>12
  <2>2. CASE ~(l > 12) \/ p + 1 + x < m
    <3>1. SizeAt(p) = l
      BY <2>2, <1>13, <1>14
    <3>2. ValueAt(p) = p + 1 + x + y
      BY <1>12
    <3>3. p + 1 + x + y + l > m
      BY <1>5, <1>16
    <3> QED BY ONLY <3>1, <3>2, <3>3
  <2> QED BY <2>1, <2>2
<1> QED BY <1>0, <1>4, <1>11, <1>15, <1>16 DEF Found

\* The reader after k options, and what a datagram laid out at e may have been read as.
ReadSum(k) == IF k = 0 THEN 0 ELSE options[k].number
Midway(e, k) ==
  [at |-> "options", pos |-> e[k], sum |-> ReadSum(k), options |-> SubSeq(options, 1, k), payload |-> <<>>]
AsBuilt(a) == [at |-> a, pos |-> 0, sum |-> 0, options |-> <<>>, payload |-> <<>>]

ReadPart ==
  /\ \E k \in 0..Len(options) : reading.options = SubSeq(options, 1, k)
  /\ \E k \in 0..Len(payload) : reading.payload = SubSeq(payload, 1, k)
ReadingOK(e) ==
  \/ reading \in {AsBuilt("sent"), AsBuilt("header")}
  \/ \E k \in 0..Len(options) : reading = Midway(e, k) /\ e[k] <= Len(wire)
  \/ reading.at = "invalid" /\ Len(wire) # WholeLength(e)
  \/ /\ reading.at = "read" /\ ReadPart
     /\ Len(wire) = WholeLength(e) => reading.options = options /\ reading.payload = payload

\* Before it is serialized nothing is read of a message; then what is read is laid out.
Unsent == reading = NotRead \/ reading.at = "not sent"
ReadingInv == Plain => \E e : Laid(e, wire) /\ ReadingOK(e)
IsReading(r) == \E a, p, s, o, q : r = [at |-> a, pos |-> p, sum |-> s, options |-> o, payload |-> q]
MessageInv ==
  /\ OptionsType /\ OptionsInv /\ IsReading(reading)
  /\ Unsent \/ (reading.at # "building" /\ ReadingInv)

LEMMA ReadingSteps ==
  ASSUME OptionsType, NEW e, Laid(e, wire), NEW k \in 0..Len(options), e[k] <= Len(wire), Plain
  PROVE  /\ k = Len(options) /\ e[k] < Len(wire) => Byte(e[k]) = Marker
         /\ k < Len(options) => /\ e[k] < e[k + 1]
                                /\ e[k] < Len(wire) => Found(e[k], e[k + 1], Delta(k + 1), options[k + 1].value)
<1>1. PICK n, m \in Nat : n = Len(options) /\ m = Len(wire)
  BY LenProperties DEF OptionsType, Laid
<1>2. e[k] \in Nat /\ wire \in Seq(Nat)
  BY EndsRise DEF Laid
<1>3. ASSUME k = n, e[k] < m PROVE Byte(e[k]) = Marker
  BY <1>1, <1>3 DEF Byte, Laid
<1>4. ASSUME k < n PROVE e[k] < e[k + 1] /\ (e[k] < m => Found(e[k], e[k + 1], Delta(k + 1), options[k + 1].value))
  <2>1. PICK i : i = k + 1
    OBVIOUS
  <2>2. i \in 1..n /\ i - 1 = k
    BY <1>4, <2>1
  <2>3. PICK b : b = Written(i)
    OBVIOUS
  <2>4. /\ Len(b) \in Nat \ {0} /\ OptionLaid(b, Delta(i), options[i].value)
        /\ options[i].value \in Seq(Nat) /\ Delta(i) \in 0..268
    BY <1>1, <2>2, <2>3, WrittenAre, ValuesAre
  <2>5. Len(options[i].value) <= 268
    BY <1>1, <2>2 DEF Plain
  <2>6. e[i] = e[k] + Len(b) /\ \A j \in 1..Len(b) : e[k] + j <= m => wire[e[k] + j] = b[j]
    BY <1>1, <2>2, <2>3 DEF Laid
  <2>7. e[k] < e[i]
    BY <1>2, <2>4, <2>6
  <2>8. StandsAt(b, e[k])
    BY <2>6, <1>1 DEF StandsAt
  <2>9. e[k] < m => Found(e[k], e[k] + Len(b), Delta(i), options[i].value)
    BY <1>1, <1>2, <2>4, <2>5, <2>8, OptionFound
  <2> QED BY <2>1, <2>6, <2>7, <2>9
<1> QED BY <1>1, <1>3, <1>4


\* The three steps of the reader, and the datagram cut.
LEMMA ArriveKeeps ==
  ASSUME OptionsType, NEW e, Laid(e, wire), ReadingOK(e), NEW n \in 1..Len(wire), Arrive(n)
  PROVE  wire' = SubSeq(wire, 1, n) /\ Laid(e, wire') /\ reading' = AsBuilt("header")
<1>1. Laid(e, SubSeq(wire, 1, n))
  BY CutLaid
<1>2. reading.at = "sent"
  BY DEF Arrive
<1>3. reading = AsBuilt("sent")
  BY <1>2 DEF ReadingOK, AsBuilt, Midway
<1>4. reading' = [reading EXCEPT !.at = "header"] /\ wire' = SubSeq(wire, 1, n)
  BY DEF Arrive
<1> QED BY <1>1, <1>3, <1>4 DEF AsBuilt

LEMMA HeaderKeeps ==
  ASSUME OptionsType, NEW e, Laid(e, wire), ReadingOK(e), ReadHeader
  PROVE  \/ reading' = Midway(e, 0) /\ e[0] <= Len(wire)
         \/ reading' = AsBuilt("invalid") /\ Len(wire) # WholeLength(e)
         \/ /\ reading' = AsBuilt("read")
            /\ Len(wire) = WholeLength(e) => options = <<>> /\ payload = <<>>
<1>1. reading = AsBuilt("header")
  <2>1. reading.at = "header"
    BY DEF ReadHeader
  <2> QED BY <2>1 DEF ReadingOK, AsBuilt, Midway
<1>2. PICK n, m \in Nat : n = Len(options) /\ m = Len(wire)
  BY LenProperties DEF OptionsType, Laid
<1>3. m >= 1 /\ wire[1] = 4 /\ e[0] = 8
  BY <1>2 DEF Laid
<1>4. 4 + Byte(0) = 8
  BY <1>2, <1>3 DEF Byte
<1>5. reading' = CASE m < 4 -> [reading EXCEPT !.at = "invalid"]
                   [] m >= 4 /\ 8 >= m -> [reading EXCEPT !.at = "read"]
                   [] OTHER -> [reading EXCEPT !.at = "options", !.pos = 8]
  BY <1>2, <1>4 DEF ReadHeader, ReadingDone
<1>6. PICK t, w \in Nat : t = e[n] /\ w = WholeLength(e) /\ 8 <= t /\ t <= w /\ (0 < n => 8 < t)
  BY <1>2, <1>3, EndsRise, WholeIs
<1>7. CASE m < 4
  BY <1>1, <1>2, <1>5, <1>6, <1>7 DEF AsBuilt
<1>8. CASE m >= 4 /\ 8 >= m
  <2>1. reading' = AsBuilt("read")
    BY <1>1, <1>5, <1>8 DEF AsBuilt
  <2>2. ASSUME m = w PROVE options = <<>> /\ payload = <<>>
    <3>1. n = 0 /\ t = w
      BY <1>6, <1>8, <2>2
    <3>2. options = <<>>
      BY <3>1, <1>2, EmptySeq DEF OptionsType
    <3>3. payload = <<>>
      <4>1. ASSUME payload # <<>> PROVE w = t + 1 + Len(payload)
        BY <4>1, <1>2, <1>6, WholeIs
      <4>2. Len(payload) \in Nat
        BY LenProperties DEF OptionsType
      <4> QED BY <3>1, <4>1, <4>2
    <3> QED BY <3>2, <3>3
  <2> QED BY <2>1, <2>2, <1>2, <1>6
<1>9. CASE m > 8
  <2>1. reading' = [reading EXCEPT !.at = "options", !.pos = 8]
    BY <1>5, <1>9
  <2>2. SubSeq(options, 1, 0) = <<>>
    <3>1. PICK s : s = SubSeq(options, 1, 0)
      OBVIOUS
    <3>2. s \in Seq(Option) /\ Len(s) = 0
      BY <3>1, <1>2, Initial DEF OptionsType
    <3> QED BY <3>1, <3>2, EmptySeq
  <2>3. reading' = [at |-> "options", pos |-> 8, sum |-> 0, options |-> <<>>, payload |-> <<>>]
    BY <1>1, <2>1 DEF AsBuilt
  <2>4. reading' = Midway(e, 0)
    BY <2>2, <2>3, <1>3 DEF Midway, ReadSum
  <2> QED BY <2>4, <1>2, <1>3, <1>9
<1>10. m < 4 \/ (m >= 4 /\ 8 >= m) \/ m > 8
  BY <1>2
<1> QED BY <1>7, <1>8, <1>9, <1>10

LEMMA WholeInitial ==
  ASSUME NEW S, NEW seq \in Seq(S)
  PROVE  SubSeq(seq, 1, Len(seq)) = seq
<1>1. PICK s : s = SubSeq(seq, 1, Len(seq))
  OBVIOUS
<1>2. PICK n \in Nat : n = Len(seq)
  BY LenProperties
<1>3. s \in Seq(S) /\ Len(s) = n /\ \A i \in 1..n : s[i] = seq[i]
  <2>1. n \in 0..Len(seq)
    BY <1>2
  <2> QED BY <1>1, <1>2, <2>1, Initial
<1>4. s = seq
  BY <1>2, <1>3, SeqEqual
<1> QED BY <1>1, <1>4

LEMMA OptionKeeps ==
  ASSUME OptionsType, Plain, NEW e, Laid(e, wire), ReadingOK(e), ReadOption
  PROVE  \/ \E k \in 0..Len(options) : reading' = Midway(e, k) /\ e[k] <= Len(wire)
         \/ reading'.at = "invalid" /\ Len(wire) # WholeLength(e)
<1>1. PICK k \in 0..Len(options) : reading = Midway(e, k) /\ e[k] <= Len(wire)
  <2>1. reading.at = "options"
    BY DEF ReadOption
  <2> QED BY <2>1 DEF ReadingOK, AsBuilt, Midway
<1>2. PICK n, m \in Nat : n = Len(options) /\ m = Len(wire)
  BY LenProperties DEF OptionsType, Laid
<1>3. PICK p \in Nat : p = e[k]
  BY EndsRise
<1>4. reading.at = "options" /\ reading.pos = p /\ reading.sum = ReadSum(k)
      /\ reading.options = SubSeq(options, 1, k) /\ reading.payload = <<>>
  BY <1>1, <1>3 DEF Midway
<1>5. p < m /\ Byte(p) # Marker
  BY <1>2, <1>4 DEF ReadOption
<1>6. k < n
  BY <1>1, <1>2, <1>3, <1>5, ReadingSteps
<1>7. PICK i : i = k + 1
  OBVIOUS
<1>8. i \in 1..n /\ i \in 0..n /\ i - 1 = k
  BY <1>2, <1>6, <1>7
<1>9. PICK q \in Nat : q = e[i]
  BY <1>2, <1>8, EndsRise
<1>10. Found(p, q, Delta(i), options[i].value)
  BY <1>1, <1>2, <1>3, <1>5, <1>6, <1>7, <1>9, ReadingSteps
<1>11. reading' = IF Byte(p) \div 16 = 15 \/ Byte(p) % 16 = 15 \/ ValueAt(p) + SizeAt(p) > m
                  THEN ReadingDone("invalid")
                  ELSE [reading EXCEPT !.pos = ValueAt(p) + SizeAt(p), !.sum = reading.sum + StepAt(p),
                          !.options = IF Len(@) < MaxOptions
                                      THEN Append(@, [number |-> reading.sum + StepAt(p), value |-> BytesAt(p)])
                                      ELSE @]
  BY <1>2, <1>4 DEF ReadOption, StepAt, SizeAt, BytesAt, ValueAt, LengthAt
<1>12. ASSUME q > m PROVE reading'.at = "invalid" /\ Len(wire) # WholeLength(e)
  <2>1. reading' = ReadingDone("invalid")
    BY <1>2, <1>10, <1>11, <1>12 DEF Found
  <2>2. reading'.at = "invalid"
    BY <1>1, <2>1 DEF ReadingDone, Midway
  <2>3. PICK t, w \in Nat : t = e[n] /\ w = WholeLength(e) /\ q <= t /\ t <= w
    BY <1>2, <1>8, <1>9, EndsRise, WholeIs
  <2> QED BY <2>2, <2>3, <1>2, <1>12
<1>13. ASSUME q <= m PROVE reading' = Midway(e, i)
  <2>1. /\ StepAt(p) = Delta(i) /\ ValueAt(p) + SizeAt(p) = q /\ BytesAt(p) = options[i].value
        /\ Byte(p) \div 16 # 15 /\ Byte(p) % 16 # 15
    BY <1>2, <1>10, <1>13 DEF Found
  <2>2. reading.sum + Delta(i) = options[i].number
    <3>1. Delta(i) = options[i].number - ReadSum(k)
      BY <1>2, <1>8 DEF Delta, ReadSum
    <3>2. ReadSum(k) \in Int
      BY <1>2, ValuesAre DEF ReadSum
    <3>3. PICK x \in Int : x = options[i].number
      BY <1>2, <1>8, ValuesAre
    <3>4. PICK y \in Int : y = ReadSum(k)
      BY <3>2
    <3>5. y + (x - y) = x
      OBVIOUS
    <3> QED BY <3>1, <3>3, <3>4, <3>5, <1>4
  <2>3. PICK u \in Option : u = options[i]
    BY <1>2, <1>8, ElementOfSeq DEF OptionsType
  <2>4. u = [number |-> options[i].number, value |-> options[i].value]
    BY <2>3 DEF Option
  <2>5. PICK s : s = SubSeq(options, 1, k)
    OBVIOUS
  <2>6. Len(s) = k /\ k < MaxOptions
    <3>1. Len(s) = k
      BY <1>2, <2>5, Initial DEF OptionsType
    <3>2. n <= MaxOptions /\ MaxOptions \in Nat
      BY <1>2, MessageAssumption DEF OptionsType
    <3> QED BY <3>1, <3>2, <1>6
  <2>7. Append(s, u) = SubSeq(options, 1, i)
    <3>1. k \in 0..Len(options) - 1
      BY <1>2, <1>6
    <3> QED BY <3>1, <2>3, <2>5, <1>7, InitialNext DEF OptionsType
  <2>8. ~(q > m)
    BY <1>13
  <2>9. reading' = [reading EXCEPT !.pos = q, !.sum = options[i].number,
                      !.options = IF Len(@) < MaxOptions
                                  THEN Append(@, [number |-> options[i].number, value |-> options[i].value])
                                  ELSE @]
    BY <1>11, <2>1, <2>2, <2>8
  <2>10. reading = [at |-> "options", pos |-> p, sum |-> ReadSum(k), options |-> s, payload |-> <<>>]
    BY <1>1, <1>3, <2>5 DEF Midway
  <2>11. reading' = [at |-> "options", pos |-> q, sum |-> options[i].number, options |-> Append(s, u), payload |-> <<>>]
    BY <2>4, <2>6, <2>9, <2>10
  <2>12. ReadSum(i) = options[i].number
    BY <1>8 DEF ReadSum
  <2> QED BY <2>7, <2>11, <2>12, <1>9 DEF Midway
<1> QED BY <1>2, <1>8, <1>9, <1>12, <1>13

LEMMA PayloadKeeps ==
  ASSUME OptionsType, Plain, NEW e, Laid(e, wire), ReadingOK(e), ReadPayload
  PROVE  /\ reading'.at = "read"
         /\ \E k \in 0..Len(options) : reading'.options = SubSeq(options, 1, k)
         /\ \E k \in 0..Len(payload) : reading'.payload = SubSeq(payload, 1, k)
         /\ Len(wire) = WholeLength(e) => reading'.options = options /\ reading'.payload = payload
<1>1. PICK k \in 0..Len(options) : reading = Midway(e, k) /\ e[k] <= Len(wire)
  <2>1. reading.at = "options"
    BY DEF ReadPayload
  <2> QED BY <2>1 DEF ReadingOK, AsBuilt, Midway
<1>2. PICK n, m, z \in Nat : n = Len(options) /\ m = Len(wire) /\ z = Len(payload)
  BY LenProperties DEF OptionsType, Laid
<1>3. PICK p, t, w \in Nat : p = e[k] /\ t = e[n] /\ w = WholeLength(e) /\ p <= t /\ t <= w /\ (k < n => p < t)
  BY <1>2, EndsRise, WholeIs
<1>4. m <= w
  BY <1>2, <1>3 DEF Laid
<1>5. reading = [at |-> "options", pos |-> p, sum |-> ReadSum(k), options |-> SubSeq(options, 1, k), payload |-> <<>>]
  BY <1>1, <1>3 DEF Midway
<1>6. PICK a : a = SubSeq(wire, p + 2, m)
  OBVIOUS
<1>7. reading' = [at |-> "read", pos |-> p, sum |-> ReadSum(k), options |-> SubSeq(options, 1, k), payload |-> a]
  BY <1>2, <1>5, <1>6 DEF ReadPayload
<1>8. p = m \/ (p < m /\ Byte(p) = Marker)
  BY <1>1, <1>2, <1>3, <1>5 DEF ReadPayload
<1>9. SubSeq(options, 1, n) = options /\ SubSeq(payload, 1, z) = payload
  BY <1>2, WholeInitial DEF OptionsType
<1>10. wire \in Seq(Nat) /\ payload \in Seq(Nat)
  BY RestIs DEF Laid
<1>11. /\ a \in Seq(Nat) /\ Len(a) = IF p + 2 <= m THEN m - (p + 2) + 1 ELSE 0
       /\ \A i \in 1..m - (p + 2) + 1 : a[i] = wire[p + 2 + i - 1]
  <2>1. \A i \in p + 2..m : wire[i] \in Nat
    <3> SUFFICES ASSUME NEW i \in p + 2..m PROVE wire[i] \in Nat
      OBVIOUS
    <3>1. i \in 1..Len(wire)
      BY <1>2
    <3> QED BY <3>1, <1>10, ElementOfSeq
  <2>2. PICK g \in Nat : g = p + 2
    OBVIOUS
  <2>3. /\ SubSeq(wire, g, m) \in Seq(Nat)
        /\ Len(SubSeq(wire, g, m)) = IF g <= m THEN m - g + 1 ELSE 0
        /\ \A i \in 1..m - g + 1 : SubSeq(wire, g, m)[i] = wire[g + i - 1]
    BY <2>1, <2>2, SubSeqProperties
  <2> QED BY <2>2, <2>3, <1>6
<1>12. ASSUME p = m
       PROVE  /\ \E j \in 0..z : a = SubSeq(payload, 1, j)
              /\ m = w => k = n /\ a = payload
  <2>1. Len(a) = 0
    BY <1>11, <1>12
  <2>2. a = <<>>
    BY <2>1, <1>11, EmptySeq
  <2>3. SubSeq(payload, 1, 0) = <<>>
    <3>1. PICK s : s = SubSeq(payload, 1, 0)
      OBVIOUS
    <3>2. s \in Seq(Nat) /\ Len(s) = 0
      BY <3>1, <1>2, <1>10, Initial
    <3> QED BY <3>1, <3>2, EmptySeq
  <2>4. ASSUME m = w PROVE k = n /\ payload = <<>>
    <3>1. t = p /\ w = t
      BY <2>4, <1>3, <1>12
    <3>2. k = n
      BY <3>1, <1>2, <1>3
    <3>3. ASSUME payload # <<>> PROVE w = t + 1 + z
      BY <3>3, <1>2, <1>3, WholeIs
    <3> QED BY <3>1, <3>2, <3>3
  <2> QED BY <2>2, <2>3, <2>4
<1>13. ASSUME p < m, Byte(p) = Marker
       PROVE  /\ k = n /\ \E j \in 0..z : a = SubSeq(payload, 1, j)
              /\ m = w => a = payload
  <2>1. k = n
    <3>1. ASSUME k < n PROVE Byte(p) # Marker
      BY <3>1, <1>1, <1>2, <1>3, <1>13, ReadingSteps DEF Found
    <3> QED BY <3>1, <1>2, <1>13
  <2>2. p = t
    BY <2>1, <1>3
  <2>3. w = t + 1 + z
    <3>1. payload # <<>>
      BY <2>2, <1>2, <1>3, <1>4, <1>13, WholeIs
    <3> QED BY <3>1, <1>2, <1>3, WholeIs
  <2>4. PICK j : j = m - p - 1
    OBVIOUS
  <2>5. j \in 0..z /\ (m = w => j = z)
    BY <2>2, <2>3, <2>4, <1>4, <1>13
  <2>6. Len(a) = j
    BY <2>4, <2>5, <1>11
  <2>7. ASSUME NEW i \in 1..j PROVE a[i] = payload[i]
    <3>1. i \in 1..m - (p + 2) + 1 /\ p + 2 + i - 1 = t + 1 + i /\ t + 1 + i <= m /\ i \in 1..z
      BY <2>2, <2>4, <2>5
    <3>2. wire[t + 1 + i] = payload[i]
      BY <3>1, <1>2, <1>3 DEF Laid
    <3> QED BY <3>1, <3>2, <1>11
  <2>8. a = SubSeq(payload, 1, j)
    <3>1. PICK s : s = SubSeq(payload, 1, j)
      OBVIOUS
    <3>2. s \in Seq(Nat) /\ Len(s) = j /\ \A i \in 1..j : s[i] = payload[i]
      BY <3>1, <2>5, <1>2, <1>10, Initial
    <3>3. \A i \in 1..j : a[i] = s[i]
      BY <2>7, <3>2
    <3> QED BY <3>1, <3>2, <3>3, <2>6, <1>11, SeqEqual
  <2>9. m = w => a = payload
    BY <2>5, <2>8, <1>9
  <2> QED BY <2>1, <2>5, <2>8, <2>9
<1>14. reading'.at = "read" /\ reading'.options = SubSeq(options, 1, k) /\ reading'.payload = a
  BY <1>7
<1>15. (\E j \in 0..z : a = SubSeq(payload, 1, j)) /\ (m = w => k = n /\ a = payload)
  BY <1>8, <1>12, <1>13
<1> QED BY <1>2, <1>3, <1>9, <1>14, <1>15

\* The message does not change after it was built.
LEMMA LaidKept ==
  ASSUME options' = options, payload' = payload, NEW e, NEW w, Laid(e, w)
  PROVE  Laid(e, w)'
<1>1. \A k : Written(k)' = Written(k)
  BY DEF Written
<1>2. OptionsWritten' = OptionsWritten
  BY <1>1 DEF OptionsWritten
<1>3. WholeLength(e)' = WholeLength(e)
  BY DEF WholeLength
<1> QED BY <1>1, <1>2, <1>3 DEF Laid

LEMMA BuiltKept ==
  ASSUME options' = options, added' = added
  PROVE  /\ OptionsInv => OptionsInv'
         /\ Plain' <=> Plain
<1>1. Ordered' = Ordered
  BY DEF Ordered, FoldLeft, MapThenFoldSet
<1>2. PutBeforeTwo' <=> PutBeforeTwo
  BY DEF PutBeforeTwo
<1>3. \A k : Delta(k)' = Delta(k)
  BY DEF Delta
<1> QED BY <1>1, <1>2, <1>3 DEF OptionsInv, Plain, Rising, Source

LEMMA ReadKept ==
  ASSUME options' = options, payload' = payload, NEW e
  PROVE  /\ \A k : Midway(e, k)' = Midway(e, k)
         /\ WholeLength(e)' = WholeLength(e)
<1>1. \A k : ReadSum(k)' = ReadSum(k)
  BY DEF ReadSum
<1> QED BY <1>1 DEF Midway, WholeLength

\* What a step of the reader has to show.
LEMMA ReadingChanged ==
  ASSUME NEW r, IsReading(r), NEW t, NEW a, NEW p, NEW s, NEW o, NEW q,
         \/ t = [r EXCEPT !.at = a]
         \/ t = [r EXCEPT !.at = a, !.pos = p]
         \/ t = [r EXCEPT !.at = a, !.payload = q]
         \/ t = [r EXCEPT !.pos = p, !.sum = s, !.options = o]
  PROVE  IsReading(t) /\ t.at \in {a, r.at}
<1>1. PICK c, d, f, g, i : r = [at |-> c, pos |-> d, sum |-> f, options |-> g, payload |-> i]
  BY DEF IsReading
<1>2. CASE t = [r EXCEPT !.at = a]
  <2>1. t = [at |-> a, pos |-> d, sum |-> f, options |-> g, payload |-> i]
    BY <1>1, <1>2
  <2> QED BY <2>1 DEF IsReading
<1>3. CASE t = [r EXCEPT !.at = a, !.pos = p]
  <2>1. t = [at |-> a, pos |-> p, sum |-> f, options |-> g, payload |-> i]
    BY <1>1, <1>3
  <2> QED BY <2>1 DEF IsReading
<1>4. CASE t = [r EXCEPT !.at = a, !.payload = q]
  <2>1. t = [at |-> a, pos |-> d, sum |-> f, options |-> g, payload |-> q]
    BY <1>1, <1>4
  <2> QED BY <2>1 DEF IsReading
<1>5. CASE t = [r EXCEPT !.pos = p, !.sum = s, !.options = o]
  <2>1. t = [at |-> c, pos |-> p, sum |-> s, options |-> o, payload |-> i]
    BY <1>1, <1>5
  <2>2. t.at = r.at
    BY <1>1, <2>1
  <2> QED BY <2>1, <2>2 DEF IsReading
<1> QED BY <1>2, <1>3, <1>4, <1>5

LEMMA ReaderKeeps ==
  ASSUME OptionsType, OptionsInv, IsReading(reading'), Plain => \E e : Laid(e, wire') /\ ReadingOK(e)', reading'.at # "building",
         options' = options, added' = added, payload' = payload
  PROVE  MessageInv'
<1>1. OptionsType'
  BY DEF OptionsType
<1>2. OptionsInv' /\ (Plain' <=> Plain)
  BY BuiltKept
<1>3. PICK w : w = wire'
  OBVIOUS
<1>4. ASSUME Plain PROVE \E e : Laid(e, wire)' /\ ReadingOK(e)'
  <2>1. PICK e : Laid(e, w) /\ ReadingOK(e)'
    BY <1>3, <1>4
  <2>2. Laid(e, w)'
    BY <2>1, LaidKept
  <2>3. Laid(e, wire)'
    BY <2>2, <1>3 DEF Laid
  <2> QED BY <2>1, <2>3
<1>5. ReadingInv'
  BY <1>2, <1>4 DEF ReadingInv
<1> QED BY <1>1, <1>2, <1>5 DEF MessageInv, IsReading

LEMMA ReadsNothing ==
  ASSUME OptionsType, options' = options, payload' = payload, reading' = AsBuilt("read")
  PROVE  ReadPart'
<1>1. ASSUME NEW S, NEW s \in Seq(S) PROVE 0 \in 0..Len(s) /\ SubSeq(s, 1, 0) = <<>>
  <2>1. PICK n \in Nat : n = Len(s)
    BY LenProperties
  <2>2. PICK t : t = SubSeq(s, 1, 0)
    OBVIOUS
  <2>3. t \in Seq(S) /\ Len(t) = 0
    BY <2>1, <2>2, Initial
  <2> QED BY <2>1, <2>2, <2>3, EmptySeq
<1>2. 0 \in 0..Len(options) /\ SubSeq(options, 1, 0) = <<>>
  BY <1>1 DEF OptionsType
<1>3. 0 \in 0..Len(payload) /\ SubSeq(payload, 1, 0) = <<>>
  BY <1>1 DEF OptionsType
<1>4. reading'.options = <<>> /\ reading'.payload = <<>>
  BY DEF AsBuilt
<1> QED BY <1>2, <1>3, <1>4 DEF ReadPart

LEMMA BuildingKeeps ==
  ASSUME OptionsType', OptionsInv', MessageInv, reading.at = "building", reading' = reading
  PROVE  MessageInv'
BY DEF MessageInv, Unsent, IsReading

LEMMA SerializeKeeps ==
  ASSUME MessageInv, Serialize
  PROVE  MessageInv'
<1>1. OptionsType /\ OptionsInv
  BY DEF MessageInv
<1>2. options' = options /\ added' = added /\ payload' = payload
  BY DEF Serialize
<1>3. reading = NotRead
  BY DEF MessageInv, Unsent, Serialize
<1>4. CASE Len(Header) + Len(OptionsWritten) > SendBuffer
  <2>1. reading'.at = "not sent"
    BY <1>3, <1>4 DEF Serialize, NotRead
  <2>2. OptionsType'
    BY <1>1, <1>2 DEF OptionsType
  <2>3. OptionsInv'
    BY <1>1, <1>2, BuiltKept
  <2>4. IsReading(reading')
    BY <1>3, <1>4 DEF Serialize, NotRead, IsReading
  <2> QED BY <2>1, <2>2, <2>3, <2>4 DEF MessageInv, Unsent, IsReading
<1>5. CASE ~(Len(Header) + Len(OptionsWritten) > SendBuffer)
  <2>1. wire' = Header \o OptionsWritten \o Rest
    BY <1>5 DEF Serialize, Rest
  <2>2. reading' = AsBuilt("sent")
    BY <1>3, <1>5 DEF Serialize, NotRead, AsBuilt
  <2>3. PICK e : Laid(e, wire')
    BY <1>1, <2>1, SerializedLaid
  <2>4. ReadingOK(e)'
    BY <2>2 DEF ReadingOK, AsBuilt
  <2>5. reading'.at # "building" /\ IsReading(reading')
    BY <2>2 DEF AsBuilt, IsReading
  <2> QED BY <1>1, <1>2, <2>3, <2>4, <2>5, ReaderKeeps
<1> QED BY <1>4, <1>5

LEMMA NextKeeps ==
  ASSUME MessageInv, MessageNext
  PROVE  MessageInv'
<1>1. OptionsType /\ OptionsInv
  BY DEF MessageInv
<1>2. ASSUME NEW o \in Options, AddOption(o) PROVE MessageInv'
  <2>1. OptionsType' /\ OptionsInv'
    BY <1>1, <1>2, AddOptionType, AddOptionKeeps
  <2>2. reading.at = "building" /\ reading' = reading
    BY <1>2 DEF AddOption
  <2> QED BY <2>1, <2>2, BuildingKeeps
<1>3. ASSUME NEW p \in Payloads, SetPayload(p) PROVE MessageInv'
  <2>1. options' = options /\ added' = added /\ payload' = p /\ reading.at = "building" /\ reading' = reading
    BY <1>3 DEF SetPayload
  <2>2. OptionsType'
    BY <2>1, <1>1, OptionTypes DEF OptionsType
  <2>3. OptionsInv'
    BY <2>1, <1>1, BuiltKept
  <2> QED BY <2>1, <2>2, <2>3, BuildingKeeps
<1>4. CASE Serialize
  BY <1>4, SerializeKeeps
<1>5. ASSUME (\E n \in 1..Len(wire) : Arrive(n)) \/ ReadHeader \/ ReadOption \/ ReadPayload
      PROVE  MessageInv'
  <2>1. options' = options /\ added' = added /\ payload' = payload
    BY <1>5 DEF Arrive, ReadHeader, ReadOption, ReadPayload
  <2>2. reading.at # "building" /\ reading.at # "not sent"
    BY <1>5 DEF Arrive, ReadHeader, ReadOption, ReadPayload
  <2>3. ReadingInv
    <3>0. NotRead.at = "building"
      BY DEF NotRead
    <3>1. ~Unsent
      BY <2>2, <3>0 DEF Unsent
    <3> QED BY <3>1 DEF MessageInv
  <2>4. reading'.at # "building" /\ IsReading(reading')
    <3>1. IsReading(reading)
      BY DEF MessageInv
    <3>2. ASSUME NEW n \in 1..Len(wire), Arrive(n) PROVE reading'.at # "building" /\ IsReading(reading')
      <4>1. reading' = [reading EXCEPT !.at = "header"]
        BY <3>2 DEF Arrive
      <4>2. IsReading(reading') /\ reading'.at \in {"header", reading.at}
        BY <4>1, <3>1, ReadingChanged
      <4> QED BY <4>2, <2>2
    <3>3. CASE ReadHeader
      <4>1. PICK p : p = 4 + Byte(0)
        OBVIOUS
      <4>2. \/ reading' = [reading EXCEPT !.at = "invalid"] \/ reading' = [reading EXCEPT !.at = "read"]
            \/ reading' = [reading EXCEPT !.at = "options", !.pos = p]
        BY <3>3, <4>1 DEF ReadHeader, ReadingDone
      <4>3. IsReading(reading') /\ reading'.at \in {"invalid", "read", "options", reading.at}
        BY <4>2, <3>1, ReadingChanged
      <4> QED BY <4>3, <2>2
    <3>4. CASE ReadOption
      <4>1. \/ reading' = [reading EXCEPT !.at = "invalid"]
            \/ \E p, s, o : reading' = [reading EXCEPT !.pos = p, !.sum = s, !.options = o]
        BY <3>4 DEF ReadOption, ReadingDone
      <4>2. IsReading(reading') /\ reading'.at \in {"invalid", reading.at}
        <5>1. CASE reading' = [reading EXCEPT !.at = "invalid"]
          BY <5>1, <3>1, ReadingChanged
        <5>2. CASE \E p, s, o : reading' = [reading EXCEPT !.pos = p, !.sum = s, !.options = o]
          <6>1. PICK p, s, o : reading' = [reading EXCEPT !.pos = p, !.sum = s, !.options = o]
            BY <5>2
          <6> QED BY <6>1, <3>1, ReadingChanged
        <5> QED BY <4>1, <5>1, <5>2
      <4> QED BY <4>2, <2>2
    <3>5. CASE ReadPayload
      <4>1. PICK q : q = SubSeq(wire, reading.pos + 2, Len(wire))
        OBVIOUS
      <4>2. reading' = [reading EXCEPT !.at = "read", !.payload = q]
        BY <3>5, <4>1 DEF ReadPayload
      <4>3. IsReading(reading') /\ reading'.at \in {"read", reading.at}
        BY <4>2, <3>1, ReadingChanged
      <4> QED BY <4>3, <2>2
    <3> QED BY <1>5, <3>2, <3>3, <3>4, <3>5
  <2>5. ASSUME Plain PROVE \E e : Laid(e, wire') /\ ReadingOK(e)'
    <3>1. PICK e : Laid(e, wire) /\ ReadingOK(e)
      BY <2>3, <2>5 DEF ReadingInv
    <3>2. (\A k : Midway(e, k)' = Midway(e, k)) /\ WholeLength(e)' = WholeLength(e)
      BY <2>1, ReadKept
    <3>3. ASSUME NEW n \in 1..Len(wire), Arrive(n) PROVE Laid(e, wire') /\ ReadingOK(e)'
      BY <1>1, <3>1, <3>3, ArriveKeeps DEF ReadingOK
    <3>4. CASE ReadHeader
      <4>1. wire' = wire
        BY <3>4 DEF ReadHeader
      <4>2. CASE reading' = Midway(e, 0) /\ e[0] <= Len(wire)
        <5>1. 0 \in 0..Len(options)
          BY <1>1, LenProperties DEF OptionsType
        <5>2. \E k \in 0..Len(options) : reading' = Midway(e, k) /\ e[k] <= Len(wire)
          BY <4>2, <5>1
        <5> QED BY <2>1, <3>1, <3>2, <4>1, <5>2 DEF ReadingOK
      <4>3. CASE reading' = AsBuilt("invalid") /\ Len(wire) # WholeLength(e)
        BY <3>1, <3>2, <4>1, <4>3 DEF ReadingOK, AsBuilt
      <4>4. CASE reading' = AsBuilt("read") /\ (Len(wire) = WholeLength(e) => options = <<>> /\ payload = <<>>)
        <5>1. ReadPart'
          BY <1>1, <2>1, <4>4, ReadsNothing
        <5>2. reading'.at = "read" /\ reading'.options = <<>> /\ reading'.payload = <<>>
          BY <4>4 DEF AsBuilt
        <5> QED BY <2>1, <3>1, <3>2, <4>1, <4>4, <5>1, <5>2 DEF ReadingOK
      <4> QED BY <1>1, <3>1, <3>4, <4>2, <4>3, <4>4, HeaderKeeps
    <3>5. CASE ReadOption
      <4>1. wire' = wire
        BY <3>5 DEF ReadOption
      <4>2. \/ \E k \in 0..Len(options) : reading' = Midway(e, k) /\ e[k] <= Len(wire)
            \/ reading'.at = "invalid" /\ Len(wire) # WholeLength(e)
        BY <1>1, <2>5, <3>1, <3>5, OptionKeeps
      <4> QED BY <2>1, <3>1, <3>2, <4>1, <4>2 DEF ReadingOK
    <3>6. CASE ReadPayload
      <4>1. wire' = wire
        BY <3>6 DEF ReadPayload
      <4>2. /\ reading'.at = "read"
            /\ \E k \in 0..Len(options) : reading'.options = SubSeq(options, 1, k)
            /\ \E k \in 0..Len(payload) : reading'.payload = SubSeq(payload, 1, k)
            /\ Len(wire) = WholeLength(e) => reading'.options = options /\ reading'.payload = payload
        BY <1>1, <2>5, <3>1, <3>6, PayloadKeeps
      <4>3. ReadPart'
        BY <2>1, <4>2 DEF ReadPart
      <4> QED BY <2>1, <3>1, <3>2, <4>1, <4>2, <4>3 DEF ReadingOK
    <3> QED BY <1>5, <3>1, <3>3, <3>4, <3>5, <3>6
  <2> QED BY <1>1, <2>1, <2>4, <2>5, ReaderKeeps
<1> QED BY <1>2, <1>3, <1>4, <1>5 DEF MessageNext

LEMMA StutterKeeps ==
  ASSUME MessageInv, UNCHANGED messageVars
  PROVE  MessageInv'
<1>1. /\ options' = options /\ added' = added /\ payload' = payload
      /\ wire' = wire /\ reading' = reading
  BY DEF messageVars
<1>2. OptionsType /\ OptionsInv /\ IsReading(reading)
  BY DEF MessageInv
<1>3. OptionsType' /\ OptionsInv' /\ IsReading(reading)'
  BY <1>1, <1>2, BuiltKept DEF OptionsType, IsReading
<1>4. CASE Unsent
  BY <1>1, <1>3, <1>4 DEF MessageInv, Unsent
<1>5. CASE reading.at # "building" /\ ReadingInv
  <2>1. ASSUME Plain PROVE \E e : Laid(e, wire') /\ ReadingOK(e)'
    <3>1. PICK e : Laid(e, wire) /\ ReadingOK(e)
      BY <1>5, <2>1 DEF ReadingInv
    <3>2. (\A k : Midway(e, k)' = Midway(e, k)) /\ WholeLength(e)' = WholeLength(e)
      BY <1>1, ReadKept
    <3>3. ReadPart' <=> ReadPart
      BY <1>1 DEF ReadPart
    <3> QED BY <1>1, <3>1, <3>2, <3>3 DEF ReadingOK
  <2> QED BY <1>1, <1>2, <1>5, <2>1, ReaderKeeps
<1> QED BY <1>4, <1>5 DEF MessageInv

LEMMA InitialIsPrefix ==
  ASSUME NEW S, NEW seq \in Seq(S), NEW k \in 0..Len(seq)
  PROVE  IsPrefix(SubSeq(seq, 1, k), seq)
<1>1. PICK s : s = SubSeq(seq, 1, k)
  OBVIOUS
<1>2. s \in Seq(S) /\ Len(s) = k
  BY <1>1, Initial
<1>3. SubSeq(s, 1, Len(s)) = s
  BY <1>2, WholeInitial
<1>4. k <= Len(seq)
  BY LenProperties
<1> QED BY <1>1, <1>2, <1>3, <1>4 DEF IsPrefix

LEMMA ReadBack == MessageInv => MessageReadBack
<1> SUFFICES ASSUME MessageInv, reading.at \in {"read", "invalid"}, ~PutBeforeTwo, ~LongForm
             PROVE  LET whole == Len(wire) = Len(Header) + Len(OptionsWritten)
                                             + (IF payload = <<>> THEN 0 ELSE 1 + Len(payload))
                    IN /\ reading.at = "read" => /\ IsPrefix(reading.options, Ordered)
                                                 /\ IsPrefix(reading.payload, payload)
                       /\ whole => /\ reading.at = "read"
                                   /\ reading.options = Ordered
                                   /\ reading.payload = payload
  BY DEF MessageReadBack
<1>1. OptionsType /\ options = Ordered /\ Rising(options)
  BY DEF MessageInv, OptionsInv
<1>2. PICK n, z \in Nat : n = Len(options) /\ z = Len(payload)
  BY <1>1, LenProperties DEF OptionsType
<1>3. Plain
  <2> SUFFICES ASSUME NEW k \in 1..n PROVE Len(options[k].value) <= 268 /\ Delta(k) <= 268
    BY <1>1, <1>2 DEF Plain
  <2>1. k \in DOMAIN Ordered
    BY <1>1, <1>2, LenProperties DEF OptionsType
  <2>2. ~(Len(options[k].value) > 268) /\ ~(Delta(k) > 268)
    BY <1>1, <2>1 DEF LongForm, Delta
  <2>3. Delta(k) \in Int /\ options[k].value \in Seq(Nat)
    BY <1>1, <1>2, ValuesAre
  <2>4. PICK x \in Int : x = Delta(k)
    BY <2>3
  <2>5. PICK y \in Nat : y = Len(options[k].value)
    BY <2>3, LenProperties
  <2> QED BY <2>2, <2>4, <2>5
<1>4. PICK e : Laid(e, wire) /\ ReadingOK(e)
  <2>0. NotRead.at = "building"
    BY DEF NotRead
  <2>1. ~Unsent
    BY <2>0 DEF Unsent
  <2> QED BY <2>1, <1>3 DEF MessageInv, ReadingInv
<1>5. \/ reading.at = "invalid" /\ Len(wire) # WholeLength(e)
      \/ /\ reading.at = "read" /\ ReadPart
         /\ Len(wire) = WholeLength(e) => reading.options = options /\ reading.payload = payload
  BY <1>4 DEF ReadingOK, AsBuilt, Midway
<1>6. ASSUME ReadPart PROVE IsPrefix(reading.options, options) /\ IsPrefix(reading.payload, payload)
  BY <1>1, <1>6, InitialIsPrefix DEF ReadPart, OptionsType
<1>7. Len(Header) + Len(OptionsWritten) + (IF payload = <<>> THEN 0 ELSE 1 + Len(payload)) = WholeLength(e)
  <2>1. Len(Header) = 8
    BY DEF Header
  <2>2. PICK t \in Nat : t = e[n] /\ Len(OptionsWritten) = t - 8
    <3>1. n \in 0..Len(options)
      BY <1>2
    <3>2. e[n] \in Nat
      BY <1>1, <1>4, <3>1, EndsRise
    <3>3. Len(OptionsWritten) = e[n] - 8
      BY <1>2, <1>4 DEF Laid
    <3> QED BY <3>2, <3>3
  <2>3. PICK r \in Nat : r = IF payload = <<>> THEN 0 ELSE 1 + Len(payload)
    BY <1>2
  <2>4. WholeLength(e) = t + r
    BY <1>2, <2>2, <2>3 DEF WholeLength
  <2>5. 8 + (t - 8) + r = t + r
    OBVIOUS
  <2> QED BY <2>1, <2>2, <2>3, <2>4, <2>5
<1>8. reading.at = "read" => IsPrefix(reading.options, Ordered) /\ IsPrefix(reading.payload, payload)
  BY <1>1, <1>5, <1>6
<1>9. Len(wire) = WholeLength(e) => reading.at = "read" /\ reading.options = Ordered /\ reading.payload = payload
  BY <1>1, <1>5
<1>10. Len(wire) = Len(Header) + Len(OptionsWritten) + (IF payload = <<>> THEN 0 ELSE 1 + Len(payload))
         => reading.at = "read" /\ reading.options = Ordered /\ reading.payload = payload
  <2>1. PICK x : x = Len(Header) + Len(OptionsWritten) + (IF payload = <<>> THEN 0 ELSE 1 + Len(payload))
    OBVIOUS
  <2>2. x = WholeLength(e)
    BY <1>7, <2>1
  <2>3. Len(wire) = x => reading.at = "read" /\ reading.options = Ordered /\ reading.payload = payload
    BY ONLY <2>2, <1>9
  <2> QED BY ONLY <2>1, <2>3
<1> QED BY <1>8, <1>10

LEMMA InitKeeps == MessageInit => MessageInv
<1> SUFFICES ASSUME MessageInit PROVE MessageInv
  OBVIOUS
<1>1. options = <<>> /\ added = <<>> /\ payload = <<>> /\ reading = NotRead
  BY DEF MessageInit
<1>2. OptionsType
  <2>1. <<>> \in Seq(Option) /\ <<>> \in Seq(Octets) /\ Len(<<>>) = 0
    BY EmptySeq
  <2>2. 0 <= MaxOptions
    BY MessageAssumption
  <2> QED BY <1>1, <2>1, <2>2 DEF OptionsType
<1>3. OptionsInv
  <2>1. Ordered = <<>>
    <3>1. PICK F : Run(F, Seq(Option), <<>>, Insertions, added) /\ F[Len(added)] = Ordered
      BY <1>1, <1>2, OrderedRuns DEF RunsTo, AddedType, OrderedIs, OptionsType
    <3>2. Len(added) = 0
      BY <1>1, EmptySeq
    <3> QED BY <3>1, <3>2 DEF Run
  <2>2. Len(options) = 0 /\ Len(added) = 0
    BY <1>1, EmptySeq
  <2>3. Rising(options)
    BY <2>2 DEF Rising
  <2>4. Source([k \in 1..0 |-> k], options, added)
    BY <2>2 DEF Source
  <2> QED BY <2>1, <2>3, <2>4, <1>1 DEF OptionsInv
<1>4. IsReading(reading) /\ Unsent
  BY <1>1 DEF IsReading, NotRead, Unsent
<1> QED BY <1>2, <1>3, <1>4 DEF MessageInv

\* A message read back is the message built.  Whatever options are added, as long as none
\* is put before two others and none needs the two-byte form, tc_iot_coap_deserialize finds
\* in the whole datagram every option with its number and value, in the order of the
\* numbers, and the payload; a datagram that was cut at any byte is found invalid or yields
\* the first of the options and the first bytes of the payload.
THEOREM MessagesAreReadBack == CoapSpec => []MessageReadBack
<1>1. MessageInit => MessageInv
  BY InitKeeps
<1>2. MessageInv /\ [MessageNext]_messageVars => MessageInv'
  <2> SUFFICES ASSUME MessageInv, [MessageNext]_messageVars PROVE MessageInv'
    OBVIOUS
  <2>1. CASE MessageNext
    BY <2>1, NextKeeps
  <2>2. CASE UNCHANGED messageVars
    BY <2>2, StutterKeeps
  <2> QED BY <2>1, <2>2
<1>3. MessageInv => MessageReadBack
  BY ReadBack
<1> QED BY <1>1, <1>2, <1>3, PTL DEF CoapSpec
=============================================================================
