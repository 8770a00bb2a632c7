-------------------------- MODULE SubDeviceProofs --------------------------
(***************************************************************************)
(* Theorems about SubDevice, for any devices, properties and orders, and   *)
(* any number of commands handled inside each other.                       *)
(***************************************************************************)
EXTENDS SubDevice, SequenceTheorems, WellFoundedInduction, TLAPS

-----------------------------------------------------------------------------
(* The inductive invariant *)

Calls == [at : {"report", "confirm", "done"}, waits : BOOLEAN]
Entries == [sequence : Nat, value : [Props -> Int], reported : SUBSET Props, desired : SUBSET Props]
States == [sequence : Nat, reported : [Props -> Int], desired : [Props -> Int]]

TypeInv ==
  /\ table \in [Devices -> Entries] /\ server \in [Devices -> States]
  /\ frames \in Seq(Calls)

\* What a document says of a device is what the server desired when it wrote it; under the
\* device's current sequence that is all it desires still.
Current(s, now) ==
  /\ s.sequence <= now.sequence
  /\ s.sequence = now.sequence =>
       \A p \in Props : now.desired[p] # NoOrder => s.desired[p] = now.desired[p]
DocOk(doc, state) ==
  \A d \in Devices : \A e \in Found(doc, d) :
    \E s \in States : e = Wish(d, s) /\ Current(s, state[d])
DocsInv == \E Docs : down \in Seq(Docs) /\ \A doc \in Docs : DocOk(doc, server)

\* A device whose sequence is the server's has taken over all that is desired of it, and
\* what it has not reported yet is marked for it.
Knows(t, s) ==
  t.sequence = s.sequence =>
    \A p \in Props : s.desired[p] # NoOrder =>
      /\ t.value[p] = s.desired[p]
      /\ p \in t.reported \/ s.reported[p] = s.desired[p]
KnowsInv == \A d \in Devices : Knows(table[d], server[d])

\* Marks for a report are only set by the call that is about to report.
MarksInv == (\E d \in Devices : table[d].reported # {}) => At("report")

SequenceInv == \A d \in Devices : table[d].sequence <= server[d].sequence

IInv ==
  /\ TypeInv /\ DocsInv /\ SequenceInv /\ MarksInv
  /\ "unsent" \notin faults => KnowsInv /\ ~early

-----------------------------------------------------------------------------
(* Devices, documents and what the server takes over *)

LEMMA DeviceNames ==
  /\ \A d \in Devices : d = [product |-> d.product, name |-> d.name]
<1>1. Declared \in Seq([product : STRING, name : STRING])
  BY TableAssumption
<1> SUFFICES ASSUME NEW d \in Devices PROVE d = [product |-> d.product, name |-> d.name]
  OBVIOUS
<1>2. PICK i \in DOMAIN Registered : d = Registered[i]
  BY DEF Devices, Range
<1> DEFINE m == Min({Capacity, Len(Declared)})
<1>3. m \in {Capacity, Len(Declared)} /\ \A y \in {Capacity, Len(Declared)} : m <= y
  <2>1. Capacity \in Nat /\ Len(Declared) \in Nat
    BY <1>1, TableAssumption
  <2>2. \E x \in {Capacity, Len(Declared)} : \A y \in {Capacity, Len(Declared)} : x <= y
    <3>1. CASE Capacity <= Len(Declared)
      BY <2>1, <3>1
    <3>2. CASE Len(Declared) <= Capacity
      BY <2>1, <3>2
    <3> QED BY <2>1, <3>1, <3>2
  <2> QED BY <2>2 DEF Min
<1>4. m \in Nat /\ m <= Len(Declared)
  BY <1>1, <1>3, TableAssumption
<1>5. Registered = SubSeq(Declared, 1, m)
  BY DEF Registered
<1>6. DOMAIN Registered = 1..m /\ \A k \in 1..m : Registered[k] = Declared[k]
  <2> HIDE DEF m
  <2> QED BY <1>1, <1>4, <1>5
<1>7. d = Declared[i] /\ i \in 1..Len(Declared)
  <2> HIDE DEF m
  <2> QED BY <1>1, <1>2, <1>4, <1>6
<1> DEFINE Names == [product : STRING, name : STRING]
<1>8. d \in Names
  <2>1. Declared \in Seq(Names)
    BY <1>1
  <2> HIDE DEF Names
  <2> QED BY <1>7, <2>1
<1> QED BY <1>8

\* A document in which the server lists what it desires says just that.
LEMMA FoundPending ==
  ASSUME NEW state, NEW ds \in SUBSET Devices, NEW d \in Devices, NEW e \in Found(Pending(state, ds), d)
  PROVE  d \in ds /\ e = Wish(d, state[d])
<1>1. PICK x \in Pending(state, ds) :
        x.product = d.product /\ \E k \in Reached(x.devices) : x.devices[k].name = d.name /\ e = x.devices[k]
  BY DEF Found
<1>2. PICK c \in ds : x = [product |-> c.product, devices |-> <<Wish(c, state[c])>>]
  BY <1>1 DEF Pending
<1>3. PICK k \in Reached(x.devices) : x.devices[k].name = d.name /\ e = x.devices[k]
  BY <1>1
<1>4. k = 1 /\ x.devices[k] = Wish(c, state[c])
  BY <1>2, <1>3 DEF Reached
<1>5. c.name = d.name /\ c.product = d.product
  BY <1>1, <1>2, <1>3, <1>4 DEF Wish
<1>6. c = d
  BY <1>5, DeviceNames
<1> QED BY <1>3, <1>4, <1>6

LEMMA ItemFields ==
  \A product, name, holder, property, value, sequence :
    LET i == Item(product, name, holder, property, value, sequence)
    IN /\ i.device = [product |-> product, name |-> name] /\ i.holder = holder
       /\ i.property = property /\ i.value = value /\ i.sequence = sequence
BY DEF Item

LEMMA ListedItems == \A ds \in SUBSET Devices : \A i \in Listed(ds) : i.holder = "listed"
<1> SUFFICES ASSUME NEW ds \in SUBSET Devices, NEW d \in ds
             PROVE  Item(d.product, d.name, "listed", None, 0, 0).holder = "listed"
  BY DEF Listed
<1> QED BY DEF Item

LEMMA WantedItems ==
  ASSUME NEW holder \in {"reported", "desired"}, NEW i \in Wanted(holder), i.holder # "listed"
  PROVE  /\ i.holder = holder
         /\ \E d \in Devices : \E p \in Marks(d, holder) :
              /\ i.device = d /\ i.property = p
              /\ holder = "reported" => i.value = table[d].value[p]
              /\ holder = "desired" => i.sequence = table[d].sequence
<1>1. i \notin Listed(Marked(holder))
  BY ListedItems DEF Marked
<1> DEFINE Made(d, p) ==
      Item(d.product, d.name, holder, p, IF holder = "reported" THEN table[d].value[p] ELSE 0,
           IF holder = "desired" THEN table[d].sequence ELSE 0)
<1>2. PICK d \in Devices : \E p \in Marks(d, holder) : i = Made(d, p)
  BY <1>1 DEF Wanted
<1>4. PICK p \in Marks(d, holder) : i = Made(d, p)
  BY <1>2
<1>3. d = [product |-> d.product, name |-> d.name]
  BY DeviceNames
<1> QED BY <1>4, <1>3, ItemFields

LEMMA WantedReported ==
  ASSUME NEW d \in Devices, NEW p \in Marks(d, "reported")
  PROVE  \E i \in Wanted("reported") : i.device = d /\ i.holder = "reported" /\ i.property = p
<1> DEFINE i == Item(d.product, d.name, "reported", p, table[d].value[p], 0)
<1>1. i \in Wanted("reported")
  BY DEF Wanted
<1>2. d = [product |-> d.product, name |-> d.name]
  BY DeviceNames
<1> QED BY <1>1, <1>2, ItemFields

\* A list of devices tells the server nothing, a report the marked values, and a
\* confirmation drops what is marked under the sequence of its device.
LEMMA TakenListed ==
  ASSUME TypeInv
  PROVE  Taken(Listed(Devices)) = server
<1>1. \A i \in Listed(Devices) : i.holder # "reported" /\ i.holder # "desired"
  BY ListedItems
<1>2. \A d \in Devices : server[d] \in States
  BY DEF TypeInv
<1>3. ASSUME NEW d \in Devices PROVE Taken(Listed(Devices))[d] = server[d]
  <2> PICK x : x = server[d]
    OBVIOUS
  <2>1. x \in States
    BY <1>2
  <2>2. Taken(Listed(Devices))[d] =
          [x EXCEPT !.reported = [p \in Props |-> x.reported[p]],
                    !.desired = [p \in Props |-> x.desired[p]]]
    BY <1>1 DEF Taken
  <2>3. x.reported = [p \in Props |-> x.reported[p]] /\ x.desired = [p \in Props |-> x.desired[p]]
    BY <2>1 DEF States
  <2>4. [x EXCEPT !.reported = x.reported, !.desired = x.desired] = x
    BY <2>1 DEF States
  <2> QED BY <2>2, <2>3, <2>4
<1> QED BY <1>3 DEF TypeInv, Taken

LEMMA TakenReported ==
  ASSUME TypeInv, NEW d \in Devices
  PROVE  LET s == Taken(Wanted("reported"))[d]
         IN /\ s \in States /\ s.sequence = server[d].sequence /\ s.desired = server[d].desired
            /\ \A p \in Props : s.reported[p] = IF p \in table[d].reported THEN table[d].value[p]
                                                ELSE server[d].reported[p]
<1> DEFINE of(holder) == {i \in Wanted("reported") : i.device = d /\ i.holder = holder}
<1>1. of("desired") = {}
  BY WantedItems
<1>2. ASSUME NEW i \in of("reported")
      PROVE  i.property \in table[d].reported /\ i.value = table[d].value[i.property]
  <2>1. i \in Wanted("reported") /\ i.holder # "listed" /\ i.device = d
    BY <1>2
  <2>2. PICK c \in Devices : \E p \in Marks(c, "reported") :
          i.device = c /\ i.property = p /\ i.value = table[c].value[p]
    BY <2>1, WantedItems
  <2> QED BY <2>1, <2>2 DEF Marks
<1>3. ASSUME NEW p \in table[d].reported PROVE \E i \in of("reported") : i.property = p
  BY <1>3, WantedReported DEF Marks
<1>4. server[d] \in States /\ table[d] \in Entries
  BY DEF TypeInv
<1> DEFINE now == [p \in Props |-> IF \E i \in of("reported") : i.property = p
                                  THEN (CHOOSE i \in of("reported") : i.property = p).value
                                  ELSE server[d].reported[p]]
           kept == [p \in Props |-> IF \E i \in of("desired") :
                                          i.property = p /\ i.sequence = server[d].sequence
                                   THEN NoOrder ELSE server[d].desired[p]]
<1>5. Taken(Wanted("reported"))[d] = [server[d] EXCEPT !.reported = now, !.desired = kept]
  BY DEF Taken
<1>6. kept = server[d].desired
  BY <1>1, <1>4 DEF States
<1>7. ASSUME NEW p \in Props
      PROVE  now[p] = IF p \in table[d].reported THEN table[d].value[p] ELSE server[d].reported[p]
  <2>1. CASE p \in table[d].reported
    <3>1. \E i \in of("reported") : i.property = p
      BY <1>3, <2>1
    <3>2. PICK i \in of("reported") :
            i.property = p /\ now[p] = i.value
      BY <3>1
    <3> QED BY <1>2, <2>1, <3>2
  <2>2. CASE p \notin table[d].reported
    <3>1. ~\E i \in of("reported") : i.property = p
      BY <1>2, <2>2
    <3> QED BY <2>2, <3>1
  <2> QED BY <2>1, <2>2
<1>8. now \in [Props -> Int]
  <2>1. \A p \in Props : now[p] \in Int
    BY <1>4, <1>7 DEF States, Entries
  <2> QED BY <2>1
<1> HIDE DEF now, kept
<1>9. PICK s \in States : s = Taken(Wanted("reported"))[d] /\ s.sequence = server[d].sequence
                           /\ s.desired = server[d].desired /\ s.reported = now
  BY <1>4, <1>5, <1>6, <1>8 DEF States
<1>10. \A p \in Props : s.reported[p] = IF p \in table[d].reported THEN table[d].value[p]
                                      ELSE server[d].reported[p]
  BY <1>7, <1>9
<1> QED BY <1>9, <1>10

LEMMA TakenDesired ==
  ASSUME TypeInv, NEW d \in Devices
  PROVE  LET s == Taken(Wanted("desired"))[d]
         IN /\ s \in States /\ s.sequence = server[d].sequence /\ s.reported = server[d].reported
            /\ \A p \in Props :
                 \/ s.desired[p] = server[d].desired[p]
                 \/ s.desired[p] = NoOrder /\ table[d].sequence = server[d].sequence
<1> DEFINE of(holder) == {i \in Wanted("desired") : i.device = d /\ i.holder = holder}
<1>1. of("reported") = {}
  BY WantedItems
<1>2. ASSUME NEW i \in of("desired") PROVE i.sequence = table[d].sequence
  <2>1. i \in Wanted("desired") /\ i.holder # "listed" /\ i.device = d
    BY <1>2
  <2>2. PICK c \in Devices : \E p \in Marks(c, "desired") :
          i.device = c /\ i.sequence = table[c].sequence
    BY <2>1, WantedItems
  <2> QED BY <2>1, <2>2
<1>4. server[d] \in States
  BY DEF TypeInv
<1> DEFINE now == [p \in Props |-> IF \E i \in of("reported") : i.property = p
                                  THEN (CHOOSE i \in of("reported") : i.property = p).value
                                  ELSE server[d].reported[p]]
           kept == [p \in Props |-> IF \E i \in of("desired") :
                                          i.property = p /\ i.sequence = server[d].sequence
                                   THEN NoOrder ELSE server[d].desired[p]]
<1>5. Taken(Wanted("desired"))[d] = [server[d] EXCEPT !.reported = now, !.desired = kept]
  BY DEF Taken
<1>6. now = server[d].reported
  BY <1>1, <1>4 DEF States
<1>7. \A p \in Props : \/ kept[p] = server[d].desired[p]
                       \/ kept[p] = NoOrder /\ table[d].sequence = server[d].sequence
  BY <1>2
<1>8. kept \in [Props -> Int]
  BY <1>4 DEF States, NoOrder
<1> HIDE DEF now, kept
<1> QED BY <1>4, <1>5, <1>6, <1>7, <1>8 DEF States

-----------------------------------------------------------------------------
(* The steps *)

LEMMA TopIs ==
  ASSUME TypeInv, frames # <<>>
  PROVE  /\ Top \in Calls /\ Len(frames) \in Nat \ {0}
         /\ \A c \in Calls : Replace(c) \in Seq(Calls) /\ Replace(c) # <<>>
         /\ Front(frames) \in Seq(Calls)
<1>1. frames \in Seq(Calls) /\ Len(frames) \in Nat \ {0}
  BY DEF TypeInv
<1>2. Front(frames) = SubSeq(frames, 1, Len(frames) - 1)
  BY DEF Front
<1> HIDE DEF Calls
<1>3. Top \in Calls
  BY <1>1 DEF Top
<1>4. \A c \in Calls : Replace(c) \in Seq(Calls) /\ Len(Replace(c)) = Len(frames)
  BY <1>1 DEF Replace
<1>5. Front(frames) \in Seq(Calls)
  BY <1>1, <1>2
<1> QED BY <1>1, <1>3, <1>4, <1>5

LEMMA CallTypes ==
  \A at \in {"report", "confirm", "done"}, waits \in BOOLEAN : Call(at, waits) \in Calls
BY DEF Call, Calls

\* The server at a later time: it only moves on.
MovesOn(s, t) ==
  /\ s.sequence <= t.sequence
  /\ s.sequence = t.sequence =>
       \A p \in Props : t.desired[p] = s.desired[p] \/ t.desired[p] = NoOrder

LEMMA CurrentLater ==
  ASSUME NEW s \in States, NEW now \in States, NEW next \in States, Current(s, now), MovesOn(now, next)
  PROVE  Current(s, next)
BY DEF Current, MovesOn, States, NoOrder

LEMMA DocLater ==
  ASSUME TypeInv, server' \in [Devices -> States], NEW doc, DocOk(doc, server),
         \A d \in Devices : MovesOn(server[d], server'[d])
  PROVE  DocOk(doc, server')
<1> SUFFICES ASSUME NEW d \in Devices, NEW e \in Found(doc, d)
             PROVE  \E s \in States : e = Wish(d, s) /\ Current(s, server'[d])
  BY DEF DocOk
<1>1. PICK s \in States : e = Wish(d, s) /\ Current(s, server[d])
  BY DEF DocOk
<1>2. server[d] \in States /\ server'[d] \in States
  BY DEF TypeInv
<1> QED BY <1>1, <1>2, CurrentLater

LEMMA PendingOk ==
  ASSUME NEW state \in [Devices -> States], NEW ds \in SUBSET Devices
  PROVE  DocOk(Pending(state, ds), state)
<1> SUFFICES ASSUME NEW d \in Devices, NEW e \in Found(Pending(state, ds), d)
             PROVE  \E s \in States : e = Wish(d, s) /\ Current(s, state[d])
  BY DEF DocOk
<1>1. e = Wish(d, state[d]) /\ state[d] \in States
  BY FoundPending
<1>2. Current(state[d], state[d])
  BY <1>1 DEF Current, States
<1> QED BY <1>1, <1>2

\* Documents on their way stay true when one is added, taken off or left.
LEMMA DocsKept ==
  ASSUME TypeInv, DocsInv, server' \in [Devices -> States],
         \A d \in Devices : MovesOn(server[d], server'[d]),
         \/ down' = down
         \/ down # <<>> /\ down' = Tail(down)
         \/ \E doc : DocOk(doc, server') /\ down' = Append(down, doc)
  PROVE  DocsInv'
<1>1. PICK Docs : down \in Seq(Docs) /\ \A doc \in Docs : DocOk(doc, server)
  BY DEF DocsInv
<1>2. \A doc \in Docs : DocOk(doc, server')
  BY <1>1, DocLater
<1>3. CASE down' = down
  BY <1>1, <1>2, <1>3 DEF DocsInv
<1>4. CASE down # <<>> /\ down' = Tail(down)
  <2>1. down' \in Seq(Docs)
    BY <1>1, <1>4
  <2> QED BY <1>2, <2>1 DEF DocsInv
<1>5. ASSUME NEW doc, DocOk(doc, server'), down' = Append(down, doc) PROVE DocsInv'
  <2> DEFINE More == Docs \cup {doc}
  <2>1. down \in Seq(More) /\ doc \in More
    BY <1>1
  <2>2. down' \in Seq(More)
    <3> HIDE DEF More
    <3> QED BY <1>5, <2>1
  <2> QED BY <1>2, <1>5, <2>2 DEF DocsInv
<1> QED BY <1>3, <1>4, <1>5

LEMMA MovesReflexive == \A s \in States : MovesOn(s, s)
BY DEF MovesOn, States

\* What a document of the server does to a device.
LEMMA WishProcessed ==
  ASSUME NEW d \in Devices, NEW t \in Entries, NEW s \in States, NEW now \in States,
         Current(s, now)
  PROVE  LET next == ProcessDevice(t, Wish(d, s))
         IN next \in Entries /\ next.sequence <= now.sequence /\ Knows(next, now)
<1> DEFINE ps == {q \in Props : s.desired[q] # NoOrder}
           Field(p) == <<p, s.desired[p]>>
           fields == {Field(p) : p \in ps}
           next == ProcessDevice(t, Wish(d, s))
<1>a. \A p : Field(p)[1] = p /\ Field(p)[2] = s.desired[p]
  OBVIOUS
<1>1. {f[1] : f \in fields} \cap Props = ps
  <2> HIDE DEF Field
  <2>1. \A x : x \in {f[1] : f \in fields} <=> x \in ps
    BY <1>a
  <2>2. ps \subseteq Props
    OBVIOUS
  <2> QED BY <2>1, <2>2
<1>2. \A p \in ps : (CHOOSE f \in fields : f[1] = p)[2] = s.desired[p]
  <2> SUFFICES ASSUME NEW p \in ps PROVE (CHOOSE f \in fields : f[1] = p)[2] = s.desired[p]
    OBVIOUS
  <2> HIDE DEF Field
  <2>1. \E f \in fields : f[1] = p
    BY <1>a
  <2>2. PICK f \in fields : f = (CHOOSE g \in fields : g[1] = p) /\ f[1] = p
    BY <2>1
  <2>3. f[2] = s.desired[p]
    BY <1>a, <2>2
  <2> QED BY <2>2, <2>3
<1> DEFINE value == [p \in Props |-> IF p \in ps THEN (CHOOSE f \in fields : f[1] = p)[2]
                                               ELSE t.value[p]]
<1>3. /\ Wish(d, s).sequence = s.sequence /\ Wish(d, s).holds /\ Wish(d, s).desired = fields
  BY DEF Wish
<1>4. next = [sequence |-> s.sequence, value |-> value, reported |-> t.reported \cup ps,
              desired |-> t.desired \cup ps]
  <2> HIDE DEF ps, fields
  <2>1. next = MarkConfirm(SetFields(MarkReport(SequenceReceived(t, s.sequence), ps), fields, ps), ps)
    BY <1>1, <1>3 DEF ProcessDevice, SetPoints
  <2>2. SequenceReceived(t, s.sequence) = [sequence |-> s.sequence, value |-> t.value,
                                           reported |-> t.reported, desired |-> t.desired]
    BY DEF SequenceReceived, Entries
  <2>3. MarkReport(SequenceReceived(t, s.sequence), ps) =
          [sequence |-> s.sequence, value |-> t.value,
           reported |-> t.reported \cup ps, desired |-> t.desired]
    BY <2>2 DEF MarkReport
  <2>4. SetFields(MarkReport(SequenceReceived(t, s.sequence), ps), fields, ps) =
          [sequence |-> s.sequence, value |-> value,
           reported |-> t.reported \cup ps, desired |-> t.desired]
    <3> HIDE DEF value
    <3>1. value = [p \in Props |-> IF p \in ps THEN (CHOOSE f \in fields : f[1] = p)[2] ELSE t.value[p]]
      BY DEF value
    <3> DEFINE r == MarkReport(SequenceReceived(t, s.sequence), ps)
    <3>2. SetFields(r, fields, ps) =
            [r EXCEPT !.value = [p \in Props |-> IF p \in ps THEN (CHOOSE f \in fields : f[1] = p)[2]
                                                 ELSE r.value[p]]]
      BY DEF SetFields
    <3>3. r.value = t.value
      BY <2>3
    <3>4. SetFields(r, fields, ps) = [r EXCEPT !.value = value]
      BY <3>1, <3>2, <3>3
    <3>5. r = [sequence |-> s.sequence, value |-> t.value,
               reported |-> t.reported \cup ps, desired |-> t.desired]
      BY <2>3
    <3> HIDE DEF r
    <3>6. [r EXCEPT !.value = value] =
            [sequence |-> s.sequence, value |-> value,
             reported |-> t.reported \cup ps, desired |-> t.desired]
      BY <3>5
    <3> QED BY <3>4, <3>6 DEF r
  <2>5. MarkConfirm([sequence |-> s.sequence, value |-> value,
                     reported |-> t.reported \cup ps, desired |-> t.desired], ps) =
          [sequence |-> s.sequence, value |-> value,
           reported |-> t.reported \cup ps, desired |-> t.desired \cup ps]
    <3> HIDE DEF value, ps
    <3>1. PICK x : x = [sequence |-> s.sequence, value |-> value,
                        reported |-> t.reported \cup ps, desired |-> t.desired]
      OBVIOUS
    <3>2. MarkConfirm(x, ps) = [x EXCEPT !.desired = t.desired \cup ps]
      BY <3>1 DEF MarkConfirm
    <3>3. [x EXCEPT !.desired = t.desired \cup ps] =
            [sequence |-> s.sequence, value |-> value,
             reported |-> t.reported \cup ps, desired |-> t.desired \cup ps]
      BY <3>1
    <3> QED BY <3>1, <3>2, <3>3
  <2> HIDE DEF value, next
  <2> QED BY <2>1, <2>4, <2>5
<1>5. \A p \in Props : value[p] = IF p \in ps THEN s.desired[p] ELSE t.value[p]
  BY <1>2
<1>6. value \in [Props -> Int]
  <2>1. \A p \in Props : value[p] \in Int
    <3> HIDE DEF value, ps
    <3> QED BY <1>5 DEF States, Entries
  <2> HIDE DEF ps, fields
  <2> QED BY <2>1
<1>7. next \in Entries
  <2> HIDE DEF value, next
  <2> QED BY <1>4, <1>6 DEF Entries, States
<1>8. next.sequence <= now.sequence
  <2> HIDE DEF value, next, ps
  <2> QED BY <1>4 DEF Current
<1>9. Knows(next, now)
  <2> HIDE DEF value, next, fields
  <2> QED BY <1>4, <1>5 DEF Knows, Current
<1> QED BY <1>7, <1>8, <1>9

LEMMA ApplicationKeeps == IInv /\ Application => IInv'
<1> SUFFICES ASSUME IInv, Application PROVE IInv'
  OBVIOUS
<1>1. TypeInv /\ DocsInv /\ SequenceInv /\ MarksInv
  BY DEF IInv
<1>2. server' = server /\ (~early => ~early') /\ ("unsent" \notin faults' => "unsent" \notin faults)
  <2>1. Publish(Listed(Devices))
    BY DEF Application
  <2>2. Taken(Listed(Devices)) = server
    BY <1>1, TakenListed
  <2>3. CASE /\ server' = Taken(Listed(Devices)) /\ UNCHANGED faults
             /\ early' = (early \/ \E d \in Devices, p \in Props :
                                /\ server[d].desired[p] # server'[d].desired[p]
                                /\ server[d].desired[p] # server[d].reported[p])
    BY <2>2, <2>3
  <2>4. CASE faults' = faults \cup {"unsent"} /\ UNCHANGED <<server, early>>
    BY <2>4
  <2> QED BY <2>1, <2>3, <2>4 DEF Publish
<1>3. table' = table /\ frames = <<>> /\ frames' = <<Call("done", TRUE)>>
  BY DEF Application
<1>4. TypeInv'
  <2> DEFINE c == Call("done", TRUE)
  <2>1. c \in Calls /\ frames' = <<c>>
    BY <1>3, CallTypes
  <2>2. frames' \in Seq(Calls)
    <3> HIDE DEF c
    <3> QED BY <2>1
  <2> QED BY <1>1, <1>2, <1>3, <2>2 DEF TypeInv
<1>5. DocsInv'
  <2>1. \A d \in Devices : server[d] \in States
    BY <1>1 DEF TypeInv
  <2>2. \A d \in Devices : MovesOn(server[d], server'[d])
    BY <1>2, <2>1, MovesReflexive
  <2>3. DocOk(Pending(server, Unsettled), server')
    BY <1>1, <1>2, PendingOk DEF TypeInv, Unsettled
  <2>4. down' = down \/ down' = Append(down, Pending(server, Unsettled))
    BY DEF Application
  <2> QED BY <1>1, <1>4, <2>2, <2>3, <2>4, DocsKept DEF TypeInv
<1>6. SequenceInv' /\ MarksInv'
  BY <1>1, <1>2, <1>3 DEF SequenceInv, MarksInv, At
<1>7. "unsent" \notin faults' => KnowsInv' /\ ~early'
  BY <1>2, <1>3 DEF IInv, KnowsInv
<1> QED BY <1>4, <1>5, <1>6, <1>7 DEF IInv

LEMMA ReceiveKeeps == IInv /\ Receive => IInv'
<1> SUFFICES ASSUME IInv, Receive PROVE IInv'
  OBVIOUS
<1>1. TypeInv /\ DocsInv /\ SequenceInv /\ MarksInv
  BY DEF IInv
<1>2. /\ down # <<>> /\ table' = Processed(Head(down)) /\ down' = Tail(down)
      /\ frames' = Append(frames, Call("report", FALSE))
      /\ UNCHANGED <<server, early, faults>>
  BY DEF Receive
<1>3. DocOk(Head(down), server)
  <2>1. PICK Docs : down \in Seq(Docs) /\ \A doc \in Docs : DocOk(doc, server)
    BY <1>1 DEF DocsInv
  <2>2. Head(down) \in Docs
    BY <1>2, <2>1
  <2> QED BY <2>1, <2>2
<1>4. ASSUME NEW d \in Devices
      PROVE  /\ table'[d] \in Entries /\ table'[d].sequence <= server[d].sequence
             /\ KnowsInv => Knows(table'[d], server[d])
  <2>1. table[d] \in Entries /\ server[d] \in States /\ table[d].sequence <= server[d].sequence
    BY <1>1 DEF TypeInv, SequenceInv
  <2>2. CASE Found(Head(down), d) = {}
    <3>1. table'[d] = table[d]
      BY <1>2, <2>2 DEF Processed
    <3> QED BY <2>1, <3>1 DEF KnowsInv
  <2>3. CASE Found(Head(down), d) # {}
    <3>1. PICK e \in Found(Head(down), d) : table'[d] = ProcessDevice(table[d], e)
      BY <1>2, <2>3 DEF Processed
    <3>2. PICK s \in States : e = Wish(d, s) /\ Current(s, server[d])
      BY <1>3 DEF DocOk
    <3> QED BY <2>1, <3>1, <3>2, WishProcessed
  <2> QED BY <2>2, <2>3
<1>5. TypeInv'
  <2>1. table' = [d \in Devices |-> table'[d]]
    BY <1>2 DEF Processed
  <2>2. table' \in [Devices -> Entries]
    BY <1>4, <2>1
  <2>3. frames' \in Seq(Calls)
    <3> DEFINE c == Call("report", FALSE)
    <3>1. c \in Calls /\ frames \in Seq(Calls) /\ frames' = Append(frames, c)
      BY <1>1, <1>2, CallTypes DEF TypeInv
    <3> HIDE DEF c
    <3> QED BY <3>1
  <2> QED BY <1>1, <1>2, <2>2, <2>3 DEF TypeInv
<1>6. DocsInv'
  <2>1. \A d \in Devices : MovesOn(server[d], server'[d])
    BY <1>1, <1>2, MovesReflexive DEF TypeInv
  <2> QED BY <1>1, <1>2, <1>5, <2>1, DocsKept DEF TypeInv
<1>7. SequenceInv'
  BY <1>2, <1>4 DEF SequenceInv
<1>8. MarksInv'
  <2>1. frames' # <<>> /\ frames'[Len(frames')] = Call("report", FALSE)
    <3> DEFINE c == Call("report", FALSE)
    <3>1. frames \in Seq(Calls) /\ c \in Calls /\ frames' = Append(frames, c)
      BY <1>1, <1>2, CallTypes DEF TypeInv
    <3> HIDE DEF c, Calls
    <3>2. frames' # <<>> /\ frames'[Len(frames')] = c
      BY <3>1
    <3> QED BY <3>2 DEF c
  <2> QED BY <2>1 DEF MarksInv, At, Top
<1>9. "unsent" \notin faults' => KnowsInv' /\ ~early'
  BY <1>2, <1>4 DEF IInv, KnowsInv
<1> QED BY <1>5, <1>6, <1>7, <1>8, <1>9 DEF IInv

LEMMA ReportKeeps == IInv /\ Report => IInv'
<1> SUFFICES ASSUME IInv, Report PROVE IInv'
  OBVIOUS
<1>1. TypeInv /\ DocsInv /\ SequenceInv /\ MarksInv
  BY DEF IInv
<1>2. frames # <<>> /\ Tell("reported", "confirm")
  BY DEF Report, At
<1>3. \A d \in Devices : table[d] \in Entries /\ server[d] \in States
  BY <1>1 DEF TypeInv
<1>4. frames' \in Seq(Calls) /\ frames' # <<>>
  <2>1. PICK c \in Calls : frames' = Replace(c)
    BY <1>2, CallTypes DEF Tell
  <2> QED BY <1>1, <1>2, <2>1, TopIs
<1>5. CASE Marked("reported") = {}
  <2>1. UNCHANGED <<table, server, down, early, faults>>
    BY <1>2, <1>5 DEF Tell
  <2>2. \A d \in Devices : table'[d].reported = {}
    BY <1>5, <2>1 DEF Marked, Marks
  <2>3. TypeInv' /\ SequenceInv' /\ MarksInv'
    BY <1>1, <1>4, <2>1, <2>2 DEF TypeInv, SequenceInv, MarksInv
  <2>4. DocsInv'
    BY <1>1, <2>1 DEF DocsInv, DocOk
  <2> QED BY <2>1, <2>3, <2>4 DEF IInv, KnowsInv
<1>6. CASE Marked("reported") # {}
  <2>1. table' = Cleared("reported") /\ Publish(Wanted("reported")) /\ down' = down
    BY <1>2, <1>6 DEF Tell
  <2>2. ASSUME NEW d \in Devices
        PROVE  /\ table'[d] \in Entries /\ table'[d].reported = {}
               /\ table'[d].sequence = table[d].sequence /\ table'[d].value = table[d].value
    BY <1>3, <2>1 DEF Cleared, Entries
  <2>3. table' \in [Devices -> Entries]
    BY <2>1, <2>2 DEF Cleared
  <2>4. MarksInv'
    BY <2>2 DEF MarksInv
  <2>5. CASE "unsent" \in faults' /\ UNCHANGED server
    <3>1. TypeInv' /\ SequenceInv'
      BY <1>1, <1>4, <2>2, <2>3, <2>5 DEF TypeInv, SequenceInv
    <3>2. DocsInv'
      BY <1>1, <2>1, <2>5 DEF DocsInv, DocOk
    <3> QED BY <2>4, <2>5, <3>1, <3>2 DEF IInv
  <2>6. CASE /\ server' = Taken(Wanted("reported")) /\ UNCHANGED faults
             /\ early' = (early \/ \E d \in Devices, p \in Props :
                                /\ server[d].desired[p] # server'[d].desired[p]
                                /\ server[d].desired[p] # server[d].reported[p])
    <3>1. \A d \in Devices :
            /\ server'[d] \in States /\ server'[d].sequence = server[d].sequence
            /\ server'[d].desired = server[d].desired
            /\ \A p \in Props : server'[d].reported[p] = IF p \in table[d].reported
                                                        THEN table[d].value[p]
                                                        ELSE server[d].reported[p]
      <4>1. server' = Taken(Wanted("reported"))
        BY <2>6
      <4> TAKE d \in Devices
      <4> PICK x : x = Taken(Wanted("reported"))[d]
        OBVIOUS
      <4>2. /\ x \in States /\ x.sequence = server[d].sequence /\ x.desired = server[d].desired
            /\ \A p \in Props : x.reported[p] = IF p \in table[d].reported THEN table[d].value[p]
                                                ELSE server[d].reported[p]
        BY <1>1, TakenReported
      <4> QED BY <4>1, <4>2
    <3>2. server' \in [Devices -> States]
      BY <2>6, <3>1 DEF Taken
    <3>3. TypeInv' /\ SequenceInv'
      BY <1>1, <1>4, <2>2, <2>3, <3>1, <3>2 DEF TypeInv, SequenceInv
    <3>4. DocsInv'
      <4>1. \A d \in Devices : MovesOn(server[d], server'[d])
        BY <1>3, <3>1 DEF MovesOn, States
      <4> QED BY <1>1, <2>1, <3>2, <4>1, DocsKept
    <3>5. ASSUME KnowsInv, NEW d \in Devices PROVE Knows(table'[d], server'[d])
      <4>1. Knows(table[d], server[d])
        BY <3>5 DEF KnowsInv
      <4> QED BY <2>2, <3>1, <4>1 DEF Knows
    <3>6. ~early => ~early'
      BY <2>6, <3>1
    <3> QED BY <2>4, <2>6, <3>3, <3>4, <3>5, <3>6 DEF IInv, KnowsInv
  <2> QED BY <2>1, <2>5, <2>6 DEF Publish
<1> QED BY <1>5, <1>6

LEMMA ConfirmKeeps == IInv /\ Confirm => IInv'
<1> SUFFICES ASSUME IInv, Confirm PROVE IInv'
  OBVIOUS
<1>1. TypeInv /\ DocsInv /\ SequenceInv /\ MarksInv
  BY DEF IInv
<1>2. frames # <<>> /\ Tell("desired", "done") /\ ~At("report")
  BY DEF Confirm, At, Call
<1>3. \A d \in Devices : table[d] \in Entries /\ server[d] \in States /\ table[d].reported = {}
  BY <1>1, <1>2 DEF TypeInv, MarksInv
<1>4. frames' \in Seq(Calls) /\ frames' # <<>>
  <2>1. PICK c \in Calls : frames' = Replace(c)
    BY <1>2, CallTypes DEF Tell
  <2> QED BY <1>1, <1>2, <2>1, TopIs
<1>5. CASE Marked("desired") = {}
  <2>1. UNCHANGED <<table, server, down, early, faults>>
    BY <1>2, <1>5 DEF Tell
  <2>2. TypeInv' /\ SequenceInv' /\ MarksInv'
    BY <1>1, <1>3, <1>4, <2>1 DEF TypeInv, SequenceInv, MarksInv
  <2>3. DocsInv'
    BY <1>1, <2>1 DEF DocsInv, DocOk
  <2> QED BY <2>1, <2>2, <2>3 DEF IInv, KnowsInv
<1>6. CASE Marked("desired") # {}
  <2>1. table' = Cleared("desired") /\ Publish(Wanted("desired")) /\ down' = down
    BY <1>2, <1>6 DEF Tell
  <2>2. ASSUME NEW d \in Devices
        PROVE  /\ table'[d] \in Entries /\ table'[d].reported = {}
               /\ table'[d].sequence = table[d].sequence /\ table'[d].value = table[d].value
    BY <1>3, <2>1 DEF Cleared, Entries
  <2>3. table' \in [Devices -> Entries]
    BY <2>1, <2>2 DEF Cleared
  <2>4. MarksInv'
    BY <2>2 DEF MarksInv
  <2>5. CASE "unsent" \in faults' /\ UNCHANGED server
    <3>1. TypeInv' /\ SequenceInv'
      BY <1>1, <1>4, <2>2, <2>3, <2>5 DEF TypeInv, SequenceInv
    <3>2. DocsInv'
      BY <1>1, <2>1, <2>5 DEF DocsInv, DocOk
    <3> QED BY <2>4, <2>5, <3>1, <3>2 DEF IInv
  <2>6. CASE /\ server' = Taken(Wanted("desired")) /\ UNCHANGED faults
             /\ early' = (early \/ \E d \in Devices, p \in Props :
                                /\ server[d].desired[p] # server'[d].desired[p]
                                /\ server[d].desired[p] # server[d].reported[p])
    <3>1. \A d \in Devices :
            /\ server'[d] \in States /\ server'[d].sequence = server[d].sequence
            /\ server'[d].reported = server[d].reported
            /\ \A p \in Props :
                 \/ server'[d].desired[p] = server[d].desired[p]
                 \/ server'[d].desired[p] = NoOrder /\ table[d].sequence = server[d].sequence
      <4>1. server' = Taken(Wanted("desired"))
        BY <2>6
      <4> TAKE d \in Devices
      <4> PICK x : x = Taken(Wanted("desired"))[d]
        OBVIOUS
      <4>2. /\ x \in States /\ x.sequence = server[d].sequence /\ x.reported = server[d].reported
            /\ \A p \in Props :
                 \/ x.desired[p] = server[d].desired[p]
                 \/ x.desired[p] = NoOrder /\ table[d].sequence = server[d].sequence
        BY <1>1, TakenDesired
      <4> QED BY <4>1, <4>2
    <3>2. server' \in [Devices -> States]
      BY <2>6, <3>1 DEF Taken
    <3>3. TypeInv' /\ SequenceInv'
      BY <1>1, <1>4, <2>2, <2>3, <3>1, <3>2 DEF TypeInv, SequenceInv
    <3>4. DocsInv'
      <4>1. \A d \in Devices : MovesOn(server[d], server'[d])
        BY <1>3, <3>1 DEF MovesOn, States
      <4> QED BY <1>1, <2>1, <3>2, <4>1, DocsKept
    <3>5. ASSUME KnowsInv, NEW d \in Devices PROVE Knows(table'[d], server'[d])
      <4>1. Knows(table[d], server[d])
        BY <3>5 DEF KnowsInv
      <4> QED BY <1>3, <2>2, <3>1, <4>1 DEF Knows
    <3>6. ASSUME KnowsInv, NEW d \in Devices, NEW p \in Props,
                 server[d].desired[p] # server'[d].desired[p]
          PROVE  server[d].desired[p] = server[d].reported[p]
      <4>1. Knows(table[d], server[d])
        BY <3>6 DEF KnowsInv
      <4> QED BY <1>3, <3>1, <3>6, <4>1 DEF Knows
    <3>7. KnowsInv /\ ~early => ~early'
      BY <2>6, <3>6
    <3> QED BY <2>4, <2>6, <3>3, <3>4, <3>5, <3>7 DEF IInv, KnowsInv
  <2> QED BY <2>1, <2>5, <2>6 DEF Publish
<1> QED BY <1>5, <1>6

LEMMA OrderKeeps == IInv /\ (\E o \in Orders : Order(o)) => IInv'
<1> SUFFICES ASSUME IInv, NEW o \in Orders, Order(o) PROVE IInv'
  OBVIOUS
<1>1. TypeInv /\ DocsInv /\ SequenceInv /\ MarksInv
  BY DEF IInv
<1>2. /\ UNCHANGED <<table, frames, early, faults>>
      /\ down' = Append(down, Pending(server', {x.device : x \in o}))
  BY DEF Order
<1>3. \A x \in o : x.device \in Devices /\ x.value \in Int
  BY ServerAssumption
<1>4. ASSUME NEW d \in Devices
      PROVE  /\ server'[d] \in States
             /\ server'[d] = server[d] \/ server'[d].sequence = server[d].sequence + 1
  <2> DEFINE mine == {x \in o : x.device = d}
             now == [p \in Props |-> IF \E x \in mine : x.property = p
                                    THEN (CHOOSE x \in mine : x.property = p).value
                                    ELSE server[d].desired[p]]
  <2>1. server[d] \in States
    BY <1>1 DEF TypeInv
  <2>2. server'[d] = IF mine = {} THEN server[d]
                     ELSE [server[d] EXCEPT !.sequence = @ + 1, !.desired = now]
    BY DEF Order
  <2>3. now \in [Props -> Int]
    <3>1. ASSUME NEW p \in Props PROVE now[p] \in Int
      <4>1. CASE \E x \in mine : x.property = p
        <5>1. PICK x \in mine : now[p] = x.value
          BY <4>1
        <5> QED BY <1>3, <5>1
      <4>2. CASE ~\E x \in mine : x.property = p
        BY <2>1, <4>2 DEF States
      <4> QED BY <4>1, <4>2
    <3> QED BY <3>1
  <2> HIDE DEF mine, now
  <2>4. CASE mine = {}
    BY <2>1, <2>2, <2>4
  <2>5. CASE mine # {}
    <3>1. server'[d] = [sequence |-> server[d].sequence + 1, reported |-> server[d].reported,
                        desired |-> now]
      BY <2>1, <2>2, <2>5 DEF States
    <3> QED BY <2>1, <2>3, <3>1 DEF States
  <2> QED BY <2>4, <2>5
<1>5. server' \in [Devices -> States]
  <2>1. server' = [d \in Devices |-> server'[d]]
    BY DEF Order
  <2> QED BY <1>4, <2>1
<1>6. \A d \in Devices : table[d] \in Entries /\ server[d] \in States
  BY <1>1 DEF TypeInv
<1>7. \A d \in Devices : MovesOn(server[d], server'[d])
  BY <1>4, <1>6 DEF MovesOn, States
<1>8. DocsInv'
  <2>1. DocOk(Pending(server', {x.device : x \in o}), server')
    BY <1>3, <1>5, PendingOk
  <2> QED BY <1>1, <1>2, <1>5, <1>7, <2>1, DocsKept
<1>9. TypeInv' /\ MarksInv'
  BY <1>1, <1>2, <1>5 DEF TypeInv, MarksInv, At, Top
<1>10. ASSUME NEW d \in Devices
       PROVE  /\ table[d].sequence <= server'[d].sequence
              /\ KnowsInv => Knows(table[d], server'[d])
  <2>1. table[d].sequence <= server[d].sequence /\ table[d].sequence \in Nat
        /\ server[d].sequence \in Nat
    BY <1>1, <1>6 DEF SequenceInv, Entries, States
  <2>2. CASE server'[d] = server[d]
    BY <2>1, <2>2 DEF KnowsInv
  <2>3. CASE server'[d].sequence = server[d].sequence + 1
    BY <2>1, <2>3 DEF Knows
  <2> QED BY <1>4, <2>2, <2>3
<1> QED BY <1>2, <1>8, <1>9, <1>10 DEF IInv, SequenceInv, KnowsInv

LEMMA OthersKeep ==
  IInv /\ (PublishEnds \/ Return \/ Stop \/ Lose \/ (\E doc \in Junk : Garble(doc)) \/ UNCHANGED vars)
    => IInv'
<1> SUFFICES ASSUME IInv, PublishEnds \/ Return \/ Stop \/ Lose \/ (\E doc \in Junk : Garble(doc))
                          \/ UNCHANGED vars
             PROVE  IInv'
  OBVIOUS
<1>1. TypeInv /\ DocsInv /\ SequenceInv /\ MarksInv
  BY DEF IInv
<1>2. UNCHANGED <<table, server, early>> /\ (faults' = faults \/ faults' = faults \cup {"lost"})
  BY DEF PublishEnds, Return, Stop, Lose, Garble, vars
<1>3. \/ frames' = frames
      \/ ~At("report") /\ frames' \in Seq(Calls)
  <2>1. CASE PublishEnds
    <3>1. frames # <<>> /\ Top.waits /\ frames' = Replace(Call(Top.at, FALSE))
      BY <2>1 DEF PublishEnds
    <3>2. Top \in Calls
      BY <1>1, <3>1, TopIs
    <3>3. Call(Top.at, FALSE) \in Calls
      BY <3>2, CallTypes DEF Calls
    <3>4. ~At("report")
      BY <3>1 DEF At, Call
    <3> QED BY <1>1, <3>1, <3>3, <3>4, TopIs
  <2>2. CASE Return
    BY <1>1, <2>2, TopIs DEF Return, At, Call
  <2>3. CASE Stop \/ Lose \/ (\E doc \in Junk : Garble(doc)) \/ UNCHANGED vars
    BY <2>3 DEF Stop, Lose, Garble, vars
  <2> QED BY <2>1, <2>2, <2>3
<1>4. TypeInv'
  BY <1>1, <1>2, <1>3 DEF TypeInv
<1>5. SequenceInv'
  BY <1>1, <1>2 DEF SequenceInv
<1>6. MarksInv'
  BY <1>1, <1>2, <1>3 DEF MarksInv, At, Top
<1>7. DocsInv'
  <2>1. \A d \in Devices : MovesOn(server[d], server'[d])
    BY <1>1, <1>2, MovesReflexive DEF TypeInv
  <2>2. ASSUME NEW doc \in Junk PROVE DocOk(doc, server')
    BY ServerAssumption DEF DocOk
  <2>3. \/ down' = down
        \/ down # <<>> /\ down' = Tail(down)
        \/ \E doc \in Junk : down' = Append(down, doc)
    BY DEF PublishEnds, Return, Stop, Lose, Garble, vars
  <2> QED BY <1>1, <1>4, <2>1, <2>2, <2>3, DocsKept DEF TypeInv
<1>8. "unsent" \notin faults' => KnowsInv' /\ ~early'
  BY <1>2 DEF IInv, KnowsInv
<1> QED BY <1>4, <1>5, <1>6, <1>7, <1>8 DEF IInv

LEMMA InitIInv == Init => IInv
<1> SUFFICES ASSUME Init PROVE IInv
  OBVIOUS
<1>1. TypeInv
  BY DEF Init, TypeInv, Entries, States, NoOrder
<1>2. DocsInv
  <2>1. down \in Seq({})
    BY DEF Init
  <2> QED BY <2>1 DEF DocsInv
<1>3. SequenceInv /\ MarksInv /\ KnowsInv /\ ~early
  BY DEF Init, SequenceInv, MarksInv, KnowsInv, Knows
<1> QED BY <1>1, <1>2, <1>3 DEF IInv

LEMMA NextIInv == IInv /\ [Next]_vars => IInv'
BY ApplicationKeeps, ReceiveKeeps, ReportKeeps, ConfirmKeeps, OrderKeeps, OthersKeep DEF Next, CallStep

\* The server drops a command only when the device has reported it, as long as no document of
\* the gateway went unsent: for any devices, properties and orders, however many commands
\* are lost or handled inside the publishes of others.
THEOREM ConfirmsReported == Spec => []ConfirmedIsReported
<1>1. IInv => ConfirmedIsReported
  BY DEF IInv, ConfirmedIsReported
<1> QED BY <1>1, InitIInv, NextIInv, PTL DEF Spec

-----------------------------------------------------------------------------
(* Induction, initial pieces of sequences, and folds *)

LEMMA SetInduction ==
  ASSUME NEW S, 0 \in S, \A n \in Nat : n \in S => n + 1 \in S
  PROVE  Nat \subseteq S
<1> DEFINE R == {x \in Nat \X Nat : x[1] < x[2]}
<1>1. IsWellFoundedOn(R, Nat)
  BY NatLessThanWellFounded DEF OpToRel
<1>2. SUFFICES ASSUME Nat \ S # {} PROVE FALSE
  OBVIOUS
<1>3. PICK x \in Nat \ S : \A y \in Nat \ S : <<y, x>> \notin R
  <2> HIDE DEF R
  <2>1. Nat \ S \subseteq Nat
    OBVIOUS
  <2> QED BY <1>1, <1>2, <2>1, WFMin
<1>4. x - 1 \in Nat /\ x - 1 + 1 = x
  BY <1>3
<1>5. x - 1 \notin S
  BY <1>4
<1>6. <<x - 1, x>> \in R
  BY <1>4
<1> QED BY <1>3, <1>4, <1>5, <1>6

LEMMA Initial ==
  ASSUME NEW S, NEW seq \in Seq(S), NEW k \in 0..Len(seq)
  PROVE  /\ SubSeq(seq, 1, k) \in Seq(S) /\ Len(SubSeq(seq, 1, k)) = k
         /\ \A i \in 1..k : SubSeq(seq, 1, k)[i] = seq[i]
<1>1. k \in Int /\ 1 \in Int /\ Len(seq) \in Nat
  BY LenProperties
<1>2. \A i \in 1..k : seq[i] \in S
  BY <1>1, ElementOfSeq
<1>3. /\ SubSeq(seq, 1, k) \in Seq(S) /\ Len(SubSeq(seq, 1, k)) = IF 1 <= k THEN k - 1 + 1 ELSE 0
      /\ \A i \in 1..k - 1 + 1 : SubSeq(seq, 1, k)[i] = seq[1 + i - 1]
  BY <1>1, <1>2, SubSeqProperties
<1> QED BY <1>1, <1>3

LEMMA InitialNext ==
  ASSUME NEW S, NEW seq \in Seq(S), NEW k \in 0..Len(seq) - 1
  PROVE  Append(SubSeq(seq, 1, k), seq[k + 1]) = SubSeq(seq, 1, k + 1)
<1>0. Len(seq) \in Nat
  BY LenProperties
<1>1. PICK s : s = SubSeq(seq, 1, k)
  OBVIOUS
<1>2. PICK t : t = SubSeq(seq, 1, k + 1)
  OBVIOUS
<1>3. s \in Seq(S) /\ Len(s) = k /\ \A i \in 1..k : s[i] = seq[i]
  BY <1>0, <1>1, Initial
<1>4. k + 1 \in 0..Len(seq)
  BY <1>0
<1>5. t \in Seq(S) /\ Len(t) = k + 1 /\ \A i \in 1..k + 1 : t[i] = seq[i]
  BY <1>4, <1>2, Initial
<1>6. seq[k + 1] \in S
  BY <1>0, <1>4, ElementOfSeq
<1>7. PICK u : u = Append(s, seq[k + 1])
  OBVIOUS
<1>8. u \in Seq(S) /\ Len(u) = k + 1 /\ (\A i \in 1..k : u[i] = s[i]) /\ u[k + 1] = seq[k + 1]
  BY <1>3, <1>6, <1>7, AppendProperties
<1>9. \A i \in 1..Len(u) : u[i] = t[i]
  BY <1>3, <1>5, <1>8, <1>0
<1>10. u = t
  BY <1>5, <1>8, <1>9, SeqEqual
<1> QED BY <1>1, <1>2, <1>7, <1>10

\* The values a fold of seq goes through.
Run(F, S, base, succ, seq) ==
  /\ F \in [0..Len(seq) -> S] /\ F[0] = base
  /\ \A k \in 1..Len(seq) : F[k] = succ[<<F[k - 1], seq[k]>>]

RunsTo(v, S, base, succ, seq) == \E F : Run(F, S, base, succ, seq) /\ F[Len(seq)] = v

LEMMA MaxOfInitial ==
  ASSUME NEW n \in Nat, NEW s \in SUBSET (1..n), s # {}
  PROVE  Max(s) \in s /\ \A x \in s : x <= Max(s)
<1>1. \E x \in s : \A y \in s : y <= x
  <2> DEFINE A == {k \in Nat : \A t \in SUBSET (1..k) : t # {} => \E x \in t : \A y \in t : y <= x}
  <2>1. 0 \in A
    <3>1. 1..0 = {}
      OBVIOUS
    <3> QED BY <3>1
  <2>2. \A k \in Nat : k \in A => k + 1 \in A
    <3> TAKE k \in Nat
    <3> HAVE k \in A
    <3> SUFFICES ASSUME NEW t \in SUBSET (1..k + 1), t # {} PROVE \E x \in t : \A y \in t : y <= x
      OBVIOUS
    <3>1. CASE k + 1 \in t
      BY <3>1
    <3>2. CASE k + 1 \notin t
      <4>1. t \in SUBSET (1..k)
        BY <3>2
      <4> QED BY <4>1
    <3> QED BY <3>1, <3>2
  <2>3. Nat \subseteq A
    <3> HIDE DEF A
    <3> QED BY <2>1, <2>2, SetInduction
  <2> QED BY <2>3
<1> QED BY <1>1 DEF Max

\* What FoldLeft's iter is of the sets of places of seq.
FoldsSets(g, S, base, succ, seq) ==
  /\ g \in [SUBSET (DOMAIN seq) -> S]
  /\ \A s \in SUBSET (DOMAIN seq) :
       g[s] = IF s = {} THEN base ELSE succ[<<g[s \ {Max(s)}], seq[Max(s)]>>]

LEMMA FoldExists ==
  ASSUME NEW T, NEW S, NEW base \in S, NEW succ \in [S \X T -> S], NEW seq \in Seq(T)
  PROVE  \E g : FoldsSets(g, S, base, succ, seq)
<1>0. PICK n \in Nat : n = Len(seq) /\ DOMAIN seq = 1..n
  BY LenProperties
<1> DEFINE Folds(g, k) ==
             /\ g \in [SUBSET (1..k) -> S]
             /\ \A s \in SUBSET (1..k) :
                  g[s] = IF s = {} THEN base ELSE succ[<<g[s \ {Max(s)}], seq[Max(s)]>>]
           A == {k \in Nat : k <= n => \E g : Folds(g, k)}
<1>1. 0 \in A
  <2>1. \A s \in SUBSET (1..0) : s = {}
    OBVIOUS
  <2>2. Folds([s \in SUBSET (1..0) |-> base], 0)
    BY <2>1
  <2> QED BY <2>2
<1>2. \A k \in Nat : k \in A => k + 1 \in A
  <2> TAKE k \in Nat
  <2> HAVE k \in A
  <2> SUFFICES ASSUME k + 1 <= n PROVE \E h : Folds(h, k + 1)
    <3> HIDE DEF Folds
    <3> QED OBVIOUS
  <2>1. PICK g : Folds(g, k)
    <3> HIDE DEF Folds
    <3> QED OBVIOUS
  <2>2. seq[k + 1] \in T
    <3>1. k + 1 \in 1..n
      OBVIOUS
    <3> QED BY <3>1, <1>0, ElementOfSeq
  <2> DEFINE h == [s \in SUBSET (1..k + 1) |->
                    IF k + 1 \in s THEN succ[<<g[s \ {k + 1}], seq[k + 1]>>] ELSE g[s]]
  <2>3. ASSUME NEW s \in SUBSET (1..k + 1) 
        PROVE  /\ s \ {k + 1} \in SUBSET (1..k)
               /\ k + 1 \notin s => s \in SUBSET (1..k)
    <3>1. \A x \in s : x # k + 1 => x \in 1..k
      OBVIOUS
    <3> QED BY <3>1, Zenon
  <2>4. ASSUME NEW s \in SUBSET (1..k + 1) PROVE h[s] \in S
    <3>1. CASE k + 1 \in s
      <4>1. g[s \ {k + 1}] \in S
        BY <2>1, <2>3
      <4> QED BY <3>1, <4>1, <2>2
    <3>2. CASE k + 1 \notin s
      BY <3>2, <2>1, <2>3
    <3> QED BY <3>1, <3>2
  <2>5. ASSUME NEW s \in SUBSET (1..k + 1)
        PROVE  h[s] = IF s = {} THEN base ELSE succ[<<h[s \ {Max(s)}], seq[Max(s)]>>]
    <3>1. CASE k + 1 \in s
      <4>0. k + 1 \in Nat /\ s # {}
        BY <3>1
      <4>1. Max(s) \in s /\ \A x \in s : x <= Max(s)
        BY <4>0, MaxOfInitial
      <4>2. Max(s) = k + 1
        <5>1. Max(s) \in 1..k + 1 /\ k + 1 <= Max(s)
          BY <4>1, <3>1
        <5> QED BY <5>1
      <4>3. s \ {k + 1} \in SUBSET (1..k + 1) /\ k + 1 \notin s \ {k + 1}
        OBVIOUS
      <4>4. h[s \ {k + 1}] = g[s \ {k + 1}]
        BY <4>3
      <4> QED BY <3>1, <4>2, <4>4
    <3>2. CASE k + 1 \notin s
      <4>0. s \in SUBSET (1..k)
        BY <3>2, <2>3
      <4>1. h[s] = g[s]
        BY <3>2
      <4>2. CASE s = {}
        BY <4>0, <4>1, <4>2, <2>1
      <4>3. CASE s # {}
        <5>1. h[s \ {Max(s)}] = g[s \ {Max(s)}]
          BY <3>2
        <5>2. g[s] = succ[<<g[s \ {Max(s)}], seq[Max(s)]>>]
          BY <4>0, <4>3, <2>1
        <5> QED BY <4>1, <4>3, <5>1, <5>2
      <4> QED BY <4>2, <4>3
    <3> QED BY <3>1, <3>2
  <2>6. h \in [SUBSET (1..k + 1) -> S]
    BY <2>4
  <2> HIDE DEF h
  <2> QED BY <2>5, <2>6
<1>3. Nat \subseteq A
  <2> HIDE DEF A
  <2> QED BY <1>1, <1>2, SetInduction
<1>4. \E g : Folds(g, n)
  <2> HIDE DEF Folds
  <2> QED BY <1>3
<1> QED BY <1>0, <1>4 DEF FoldsSets

\* The fold's values at the initial pieces of the sequence.
LEMMA FoldRuns ==
  ASSUME NEW T, NEW S, NEW base \in S, NEW succ, NEW seq \in Seq(T),
         \A v \in S : \A t \in T : succ[<<v, t>>] \in S,
         NEW iter,
         iter = [s \in SUBSET (DOMAIN seq) |->
                   IF s = {} THEN base ELSE succ[<<iter[s \ {Max(s)}], seq[Max(s)]>>]]
  PROVE  RunsTo(iter[DOMAIN seq], S, base, succ, seq)
<1>0. PICK n \in Nat : n = Len(seq) /\ DOMAIN seq = 1..n
  BY LenProperties
<1> DEFINE F == [k \in 0..n |-> iter[1..k]]
<1>1. F[0] = base /\ 1..0 = {}
  BY <1>0
<1>2. ASSUME NEW k \in 1..n PROVE F[k] = succ[<<F[k - 1], seq[k]>>]
  <2>a. k \in 1..k /\ \A i \in 1..k : i \in 1..n
    OBVIOUS
  <2>1. 1..k \in SUBSET (1..n) /\ 1..k # {} /\ k \in 1..k
    BY <2>a, Zenon
  <2>2. Max(1..k) \in 1..k /\ k <= Max(1..k)
    BY <2>1, MaxOfInitial
  <2>3. Max(1..k) = k
    BY <2>2
  <2>4. (1..k) \ {k} = 1..k - 1
    OBVIOUS
  <2>5. iter[1..k] = succ[<<iter[1..k - 1], seq[k]>>]
    BY <2>1, <2>3, <2>4, <1>0
  <2>6. k \in 0..n /\ k - 1 \in 0..n
    OBVIOUS
  <2> QED BY <2>5, <2>6
<1> DEFINE A == {k \in Nat : k <= n => F[k] \in S}
<1>3. 0 \in A
  BY <1>1
<1>4. \A k \in Nat : k \in A => k + 1 \in A
  <2> HIDE DEF F
  <2> TAKE k \in Nat
  <2> HAVE k \in A
  <2> SUFFICES ASSUME k + 1 <= n PROVE F[k + 1] \in S
    OBVIOUS
  <2>1. k + 1 \in 1..n /\ F[k] \in S /\ (k + 1) - 1 = k
    OBVIOUS
  <2>2. seq[k + 1] \in T
    BY <2>1, <1>0, ElementOfSeq
  <2> QED BY <2>1, <2>2, <1>2
<1>5. Nat \subseteq A
  <2> HIDE DEF A
  <2> QED BY <1>3, <1>4, SetInduction
<1>6. F \in [0..n -> S]
  <2>1. \A k \in 0..n : F[k] \in S
    <3> HIDE DEF F
    <3> QED BY <1>5
  <2> QED BY <2>1
<1>7. F[n] = iter[DOMAIN seq]
  BY <1>0
<1> HIDE DEF F
<1>8. Run(F, S, base, succ, seq)
  BY <1>0, <1>1, <1>2, <1>6 DEF Run
<1> QED BY <1>7, <1>8, <1>0 DEF RunsTo

\* Only the values that occur matter.
Agree(succ, other, S, T) == \A x \in S : \A t \in T : succ[<<x, t>>] = other[<<x, t>>]

LEMMA RunsByOther ==
  ASSUME NEW T, NEW S, NEW base \in S, NEW succ, NEW other, NEW seq \in Seq(T), NEW v,
         RunsTo(v, S, base, succ, seq), Agree(succ, other, S, T)
  PROVE  RunsTo(v, S, base, other, seq)
<1>1. PICK F : Run(F, S, base, succ, seq) /\ F[Len(seq)] = v
  BY DEF RunsTo
<1>2. ASSUME NEW k \in 1..Len(seq) PROVE F[k] = other[<<F[k - 1], seq[k]>>]
  <2>1. seq[k] \in T /\ k - 1 \in 0..Len(seq)
    BY ElementOfSeq
  <2>2. F[k - 1] \in S /\ F[k] = succ[<<F[k - 1], seq[k]>>]
    BY <1>1, <2>1 DEF Run
  <2> QED BY <2>1, <2>2 DEF Agree
<1>3. Run(F, S, base, other, seq)
  BY <1>1, <1>2 DEF Run
<1> QED BY <1>1, <1>3 DEF RunsTo

\* A longer sequence with the same beginning is run through in the same way.
SameUpTo(n, s, t) == \A k \in 1..n : s[k] = t[k]

LEMMA RunsAgree ==
  ASSUME NEW S, NEW base, NEW succ, NEW s, NEW t, NEW F, NEW G, NEW n \in Nat,
         Len(s) \in Nat, Len(t) \in Nat, n <= Len(s), n <= Len(t),
         Run(F, S, base, succ, s), Run(G, S, base, succ, t), SameUpTo(n, s, t)
  PROVE  F[n] = G[n]
<1> DEFINE A == {k \in Nat : k <= n => F[k] = G[k]}
<1>1. 0 \in A
  BY DEF Run
<1>2. \A k \in Nat : k \in A => k + 1 \in A
  <2> TAKE k \in Nat
  <2> HAVE k \in A
  <2> SUFFICES ASSUME k + 1 <= n PROVE F[k + 1] = G[k + 1]
    OBVIOUS
  <2>1. k + 1 \in 1..Len(s) /\ k + 1 \in 1..Len(t) /\ k + 1 \in 1..n /\ (k + 1) - 1 = k /\ F[k] = G[k]
    OBVIOUS
  <2>2. F[k + 1] = succ[<<F[k], s[k + 1]>>]
    BY <2>1 DEF Run
  <2>3. G[k + 1] = succ[<<G[k], t[k + 1]>>]
    BY <2>1 DEF Run
  <2>4. s[k + 1] = t[k + 1]
    BY <2>1 DEF SameUpTo
  <2> QED BY <2>1, <2>2, <2>3, <2>4
<1>3. Nat \subseteq A
  <2> HIDE DEF A
  <2> QED BY <1>1, <1>2, SetInduction
<1> QED BY <1>3

-----------------------------------------------------------------------------
(* Reading a document token by token *)

Kinds == {"object", "array", "leaf", "close"}
\* The names in documents, the holders among them, and what leaves hold.
Words ==
  {None, "method", "sub_dev", "product", "device_list", "dev_name", "sequence", "state",
   "reported", "desired", "listed", "passthrough", "sid", "sign", "timestamp", "nonce", "metadata"}
  \cup Props
Values ==
  Words \cup {"online", "get", "stopped"} \cup Int
  \cup {d.product : d \in Devices} \cup {d.name : d \in Devices}
Tokens == Kinds \X Words \X Values
Items == [device : [product : Values, name : Values], holder : Words, property : Words,
          value : Values, sequence : Values]
Readers == [path : Seq(Words), product : Values, name : Values, sequence : Values,
            items : SUBSET Items]
ReaderAt(path, product, name, sequence, items) ==
  [path |-> path, product |-> product, name |-> name, sequence |-> sequence, items |-> items]

NothingRead == ReaderAt(<<>>, None, None, 0, {})
ReadOf(doc) == FoldLeft(ReadToken, NothingRead, doc)
Reads == [z \in Readers \X Tokens |-> ReadToken(z[1], z[2])]
Onto(r, path) == [r EXCEPT !.path = path]

LEMMA PlainValues ==
  /\ \A n \in Int : n \in Values
  /\ \A s \in Words : s \in Values
  /\ \A d \in Devices : d.product \in Values /\ d.name \in Values
  /\ \A m \in {"online", "get", "stopped"} : m \in Values
BY Zenon DEF Values

LEMMA PlainWords ==
  /\ None \in Words /\ Props \subseteq Words
  /\ "method" \in Words /\ "sub_dev" \in Words /\ "product" \in Words /\ "device_list" \in Words
  /\ "dev_name" \in Words /\ "sequence" \in Words /\ "state" \in Words /\ "reported" \in Words
  /\ "desired" \in Words /\ "listed" \in Words /\ "passthrough" \in Words /\ "sid" \in Words
  /\ "sign" \in Words /\ "timestamp" \in Words /\ "nonce" \in Words /\ "metadata" \in Words
BY DEF Words

LEMMA ReaderFields ==
  ASSUME NEW r \in Readers
  PROVE  /\ r.path \in Seq(Words) /\ r.product \in Values /\ r.name \in Values
         /\ r.sequence \in Values /\ r.items \in SUBSET Items
         /\ r = ReaderAt(r.path, r.product, r.name, r.sequence, r.items)
BY DEF Readers, ReaderAt

LEMMA ReaderIs ==
  ASSUME NEW p \in Seq(Words), NEW a \in Values, NEW b \in Values, NEW c \in Values, NEW i \in SUBSET Items
  PROVE  /\ ReaderAt(p, a, b, c, i) \in Readers
         /\ ReaderAt(p, a, b, c, i).path = p
         /\ ReaderAt(p, a, b, c, i).items = i
BY DEF Readers, ReaderAt

LEMMA OntoIs ==
  ASSUME NEW r \in Readers, NEW p \in Seq(Words)
  PROVE  /\ Onto(r, p) \in Readers /\ Onto(r, p).path = p /\ Onto(r, p).items = r.items
         /\ Onto(r, p) = ReaderAt(p, r.product, r.name, r.sequence, r.items)
         /\ \A q \in Seq(Words) : Onto(Onto(r, p), q) = Onto(r, q)
<1>1. \A q : Onto(r, q) = ReaderAt(q, r.product, r.name, r.sequence, r.items)
  <2> TAKE q
  <2>1. PICK o, a, b, c, i : r = [path |-> o, product |-> a, name |-> b, sequence |-> c, items |-> i]
    BY DEF Readers
  <2>2. PICK t : t = [r EXCEPT !.path = q]
    OBVIOUS
  <2>3. t = [path |-> q, product |-> a, name |-> b, sequence |-> c, items |-> i]
    BY <2>1, <2>2
  <2>4. r.product = a /\ r.name = b /\ r.sequence = c /\ r.items = i
    BY <2>1
  <2> QED BY <2>2, <2>3, <2>4 DEF Onto, ReaderAt
<1>2. /\ r.product \in Values /\ r.name \in Values /\ r.sequence \in Values /\ r.items \in SUBSET Items
  BY ReaderFields
<1>3. PICK a, b, c, i : a = r.product /\ b = r.name /\ c = r.sequence /\ i = r.items
  OBVIOUS
<1>4. PICK s : s = ReaderAt(p, a, b, c, i)
  OBVIOUS
<1>5. s \in Readers /\ s.path = p /\ s.items = i
  BY <1>2, <1>3, <1>4, ReaderIs
<1>6. s.product = a /\ s.name = b /\ s.sequence = c
  BY <1>4 DEF ReaderAt
<1>7. Onto(r, p) = s
  BY <1>1, <1>3, <1>4
<1>8. ASSUME NEW q \in Seq(Words) PROVE Onto(s, q) = Onto(r, q)
  <2>1. PICK t : t = [s EXCEPT !.path = q]
    OBVIOUS
  <2>2. t = ReaderAt(q, a, b, c, i)
    BY <2>1, <1>4 DEF ReaderAt
  <2> QED BY <2>1, <2>2, <1>1, <1>3 DEF Onto
<1> QED BY <1>3, <1>4, <1>5, <1>7, <1>8

LEMMA ItemIs ==
  ASSUME NEW a \in Values, NEW b \in Values, NEW h \in Words, NEW p \in Words,
         NEW v \in Values, NEW q \in Values
  PROVE  Item(a, b, h, p, v, q) \in Items
BY DEF Item, Items

LEMMA FrontIs ==
  ASSUME NEW S, NEW s \in Seq(S)
  PROVE  Front(s) \in Seq(S)
<1>1. CASE s = <<>>
  <2>1. Front(s) = <<>>
    BY <1>1 DEF Front
  <2> QED BY <2>1
<1>2. CASE s # <<>>
  <2>1. Len(s) \in Nat /\ Len(s) - 1 \in 0..Len(s)
    BY <1>2, LenProperties, EmptySeq
  <2> QED BY <2>1, Initial DEF Front
<1> QED BY <1>1, <1>2

LEMMA Opened ==
  ASSUME NEW r \in Readers, NEW t \in Tokens, t[1] \in {"object", "array"}
  PROVE  /\ ReadToken(r, t) = Onto(r, Append(r.path, t[2]))
         /\ ReadToken(r, t) \in Readers
<1>1. t[2] \in Words
  BY DEF Tokens
<1>2. r.path \in Seq(Words)
  BY ReaderFields
<1>3. Append(r.path, t[2]) \in Seq(Words)
  BY <1>1, <1>2, AppendProperties
<1>4. ReadToken(r, t) = Onto(r, Append(r.path, t[2]))
  BY DEF ReadToken, Onto
<1> QED BY <1>3, <1>4, OntoIs

LEMMA Closed ==
  ASSUME NEW r \in Readers, NEW t \in Tokens, t[1] = "close"
  PROVE  /\ ReadToken(r, t) = Onto(r, Front(r.path))
         /\ ReadToken(r, t) \in Readers
<1>2. r.path \in Seq(Words)
  BY ReaderFields
<1>3. Front(r.path) \in Seq(Words)
  BY <1>2, FrontIs
<1>4. ReadToken(r, t) = Onto(r, Front(r.path))
  BY DEF ReadToken, Onto
<1> QED BY <1>3, <1>4, OntoIs

\* What a leaf tells depends on where it is.
Fields == InDevice \o <<"state">>
LEMMA LeafRead ==
  ASSUME NEW r \in Readers, NEW t \in Tokens, t[1] = "leaf"
  PROVE  ReadToken(r, t) =
           IF r.path = InProduct /\ t[2] = "product"
           THEN ReaderAt(r.path, t[3], r.name, r.sequence, r.items)
           ELSE IF r.path = InDevice /\ t[2] = "sequence"
           THEN ReaderAt(r.path, r.product, r.name, t[3], r.items)
           ELSE IF r.path = InDevice /\ t[2] = "dev_name"
           THEN ReaderAt(r.path, r.product, t[3], 0,
                         r.items \cup {Item(r.product, t[3], "listed", None, 0, 0)})
           ELSE IF t[2] \in Props /\ Len(r.path) = 7 /\ SubSeq(r.path, 1, 6) = Fields
           THEN ReaderAt(r.path, r.product, r.name, r.sequence,
                         r.items \cup {Item(r.product, r.name, r.path[7], t[2], t[3], r.sequence)})
           ELSE r
<1>1. PICK p, a, b, c, i : r = [path |-> p, product |-> a, name |-> b, sequence |-> c, items |-> i]
  BY DEF Readers
<1>2. r.path = p /\ r.product = a /\ r.name = b /\ r.sequence = c /\ r.items = i
  BY <1>1
<1>3. t[1] \notin {"object", "array"} /\ t[1] # "close"
  OBVIOUS
<1>4. ReadToken(r, t) =
        IF p = InProduct /\ t[2] = "product" THEN [r EXCEPT !.product = t[3]]
        ELSE IF p = InDevice /\ t[2] = "sequence" THEN [r EXCEPT !.sequence = t[3]]
        ELSE IF p = InDevice /\ t[2] = "dev_name"
        THEN [r EXCEPT !.name = t[3], !.sequence = 0,
                       !.items = @ \cup {Item(a, t[3], "listed", None, 0, 0)}]
        ELSE IF t[2] \in Props /\ Len(p) = 7 /\ SubSeq(p, 1, 6) = Fields
        THEN [r EXCEPT !.items = @ \cup {Item(a, b, p[7], t[2], t[3], c)}]
        ELSE r
  BY <1>2, <1>3 DEF ReadToken, Fields
<1>5. /\ [r EXCEPT !.product = t[3]] = ReaderAt(p, t[3], b, c, i)
      /\ [r EXCEPT !.sequence = t[3]] = ReaderAt(p, a, b, t[3], i)
  <2>1. PICK u : u = [r EXCEPT !.product = t[3]]
    OBVIOUS
  <2>2. PICK v : v = [r EXCEPT !.sequence = t[3]]
    OBVIOUS
  <2>3. u = ReaderAt(p, t[3], b, c, i)
    BY <2>1, <1>1 DEF ReaderAt
  <2>4. v = ReaderAt(p, a, b, t[3], i)
    BY <2>2, <1>1 DEF ReaderAt
  <2> QED BY <2>1, <2>2, <2>3, <2>4
<1>6. ASSUME NEW x PROVE [r EXCEPT !.items = @ \cup x] = ReaderAt(p, a, b, c, i \cup x)
  <2>1. PICK u : u = [r EXCEPT !.items = @ \cup x]
    OBVIOUS
  <2>2. u = ReaderAt(p, a, b, c, i \cup x)
    BY <2>1, <1>1 DEF ReaderAt
  <2> QED BY <2>1, <2>2
<1>7. ASSUME NEW x 
      PROVE  [r EXCEPT !.name = t[3], !.sequence = 0, !.items = @ \cup x] = ReaderAt(p, a, t[3], 0, i \cup x)
  <2>1. PICK u : u = [r EXCEPT !.name = t[3], !.sequence = 0, !.items = @ \cup x]
    OBVIOUS
  <2>2. u = ReaderAt(p, a, t[3], 0, i \cup x)
    BY <2>1, <1>1 DEF ReaderAt
  <2> QED BY <2>1, <2>2
<1> QED BY <1>2, <1>4, <1>5, <1>6, <1>7

LEMMA LeafKeeps ==
  ASSUME NEW r \in Readers, NEW t \in Tokens, t[1] = "leaf"
  PROVE  ReadToken(r, t) \in Readers /\ ReadToken(r, t).path = r.path
<1>1. /\ r.path \in Seq(Words) /\ r.product \in Values /\ r.name \in Values
      /\ r.sequence \in Values /\ r.items \in SUBSET Items
  BY ReaderFields
<1>2. t[2] \in Words /\ t[3] \in Values
  BY DEF Tokens
<1>3. "listed" \in Words /\ None \in Words /\ 0 \in Values
  BY PlainWords, PlainValues
<1>4. Item(r.product, t[3], "listed", None, 0, 0) \in Items
  BY <1>1, <1>2, <1>3, ItemIs, Zenon
<1>5. Len(r.path) = 7 => Item(r.product, r.name, r.path[7], t[2], t[3], r.sequence) \in Items
  <2>1. Len(r.path) = 7 => r.path[7] \in Words
    BY <1>1, ElementOfSeq
  <2> QED BY <2>1, <1>1, <1>2, ItemIs
<1>6. CASE r.path = InProduct /\ t[2] = "product"
  <2>1. ReadToken(r, t) = ReaderAt(r.path, t[3], r.name, r.sequence, r.items)
    BY <1>6, LeafRead
  <2> QED BY <1>1, <1>2, <2>1, ReaderIs
<1>7. CASE ~(r.path = InProduct /\ t[2] = "product") /\ r.path = InDevice /\ t[2] = "sequence"
  <2>1. ReadToken(r, t) = ReaderAt(r.path, r.product, r.name, t[3], r.items)
    BY <1>7, LeafRead
  <2> QED BY <1>1, <1>2, <2>1, ReaderIs
<1>8. CASE /\ ~(r.path = InProduct /\ t[2] = "product") /\ ~(r.path = InDevice /\ t[2] = "sequence")
           /\ r.path = InDevice /\ t[2] = "dev_name"
  <2>1. r.items \cup {Item(r.product, t[3], "listed", None, 0, 0)} \in SUBSET Items
    BY <1>1, <1>4
  <2>2. ReadToken(r, t) = ReaderAt(r.path, r.product, t[3], 0,
                                   r.items \cup {Item(r.product, t[3], "listed", None, 0, 0)})
    BY <1>8, LeafRead
  <2> QED BY <1>1, <1>2, <1>3, <2>1, <2>2, ReaderIs
<1>9. CASE /\ ~(r.path = InProduct /\ t[2] = "product") /\ ~(r.path = InDevice /\ t[2] = "sequence")
           /\ ~(r.path = InDevice /\ t[2] = "dev_name")
           /\ t[2] \in Props /\ Len(r.path) = 7 /\ SubSeq(r.path, 1, 6) = Fields
  <2>1. r.items \cup {Item(r.product, r.name, r.path[7], t[2], t[3], r.sequence)} \in SUBSET Items
    BY <1>1, <1>5, <1>9
  <2>2. ReadToken(r, t) = ReaderAt(r.path, r.product, r.name, r.sequence,
                            r.items \cup {Item(r.product, r.name, r.path[7], t[2], t[3], r.sequence)})
    BY <1>9, LeafRead
  <2> QED BY <1>1, <2>1, <2>2, ReaderIs
<1>10. CASE /\ ~(r.path = InProduct /\ t[2] = "product") /\ ~(r.path = InDevice /\ t[2] = "sequence")
            /\ ~(r.path = InDevice /\ t[2] = "dev_name")
            /\ ~(t[2] \in Props /\ Len(r.path) = 7 /\ SubSeq(r.path, 1, 6) = Fields)
  <2>1. ReadToken(r, t) = r
    BY <1>10, LeafRead
  <2> QED BY <2>1
<1> QED BY <1>6, <1>7, <1>8, <1>9, <1>10

LEMMA ReadTyped ==
  ASSUME NEW r \in Readers, NEW t \in Tokens
  PROVE  ReadToken(r, t) \in Readers
<1>1. t[1] \in {"object", "array", "leaf", "close"}
  BY DEF Tokens, Kinds
<1> QED BY <1>1, Opened, Closed, LeafKeeps

LEMMA NothingTyped == NothingRead \in Readers
<1>1. <<>> \in Seq(Words) /\ None \in Words /\ 0 \in Values /\ {} \in SUBSET Items
  BY PlainWords, PlainValues
<1>2. None \in Values
  BY <1>1, PlainValues
<1> QED BY <1>1, <1>2, ReaderIs DEF NothingRead

LEMMA ReadRuns ==
  ASSUME NEW doc \in Seq(Tokens)
  PROVE  RunsTo(ReadOf(doc), Readers, NothingRead, Reads, doc)
<1> DEFINE D == SUBSET (DOMAIN doc)
<1>0. PICK n \in Nat : n = Len(doc) /\ DOMAIN doc = 1..n
  BY LenProperties
<1>1. Reads \in [Readers \X Tokens -> Readers]
  BY ReadTyped DEF Reads
<1>2. PICK g : FoldsSets(g, Readers, NothingRead, Reads, doc)
  BY <1>1, NothingTyped, FoldExists
<1>3. \A s \in D : s # {} => Max(s) \in s /\ doc[Max(s)] \in Tokens /\ s \ {Max(s)} \in D
  <2> TAKE s \in D
  <2> HAVE s # {}
  <2>1. s \in SUBSET (1..n)
    BY <1>0
  <2>2. Max(s) \in s
    BY <2>1, MaxOfInitial
  <2> QED BY <2>2, <1>0, ElementOfSeq
<1> DEFINE iter == CHOOSE f : f = [s \in D |-> IF s = {} THEN NothingRead
                                               ELSE ReadToken(f[s \ {Max(s)}], doc[Max(s)])]
<1>4. g = [s \in D |-> IF s = {} THEN NothingRead ELSE ReadToken(g[s \ {Max(s)}], doc[Max(s)])]
  <2>1. ASSUME NEW s \in D, s # {} PROVE g[s] = ReadToken(g[s \ {Max(s)}], doc[Max(s)])
    <3>1. g[s \ {Max(s)}] \in Readers /\ g[s] = Reads[<<g[s \ {Max(s)}], doc[Max(s)]>>]
      BY <2>1, <1>2, <1>3 DEF FoldsSets
    <3> QED BY <3>1, <2>1, <1>3 DEF Reads
  <2>2. g[{}] = NothingRead
    BY <1>2 DEF FoldsSets
  <2>3. g = [s \in D |-> g[s]]
    BY <1>2 DEF FoldsSets
  <2> QED BY <2>1, <2>2, <2>3
<1>5. iter = [s \in D |-> IF s = {} THEN NothingRead ELSE ReadToken(iter[s \ {Max(s)}], doc[Max(s)])]
  BY <1>4
<1>6. ReadOf(doc) = iter[DOMAIN doc]
  BY DEF ReadOf, FoldLeft, MapThenFoldSet
<1> HIDE DEF iter
<1> DEFINE V == Readers \cup {iter[s] : s \in D}
           succ == [z \in V \X Tokens |-> ReadToken(z[1], z[2])]
<1>7. iter = [s \in D |-> IF s = {} THEN NothingRead ELSE succ[<<iter[s \ {Max(s)}], doc[Max(s)]>>]]
  <2>1. ASSUME NEW s \in D, s # {} PROVE iter[s] = succ[<<iter[s \ {Max(s)}], doc[Max(s)]>>]
    BY <2>1, <1>3, <1>5
  <2>2. iter[{}] = NothingRead /\ iter = [s \in D |-> iter[s]]
    BY <1>5
  <2> QED BY <2>1, <2>2
<1>8. ASSUME NEW x \in Readers, NEW t \in Tokens
      PROVE  succ[<<x, t>>] = ReadToken(x, t) /\ succ[<<x, t>>] \in Readers
  <2>1. x \in V
    OBVIOUS
  <2>2. succ[<<x, t>>] = ReadToken(x, t)
    <3> HIDE DEF V
    <3> QED BY <2>1
  <2> HIDE DEF succ
  <2> QED BY <2>2, ReadTyped
<1>9. RunsTo(iter[DOMAIN doc], Readers, NothingRead, succ, doc)
  <2> HIDE DEF succ
  <2> QED BY <1>7, <1>8, NothingTyped, FoldRuns
<1>10. Agree(succ, Reads, Readers, Tokens)
  BY <1>8 DEF Reads, Agree
<1> HIDE DEF succ
<1>11. RunsTo(iter[DOMAIN doc], Readers, NothingRead, Reads, doc)
  BY <1>9, <1>10, NothingTyped, RunsByOther
<1> QED BY <1>6, <1>11

LEMMA ReadNext ==
  /\ ReadOf(<<>>) = NothingRead
  /\ \A doc \in Seq(Tokens) : ReadOf(doc) \in Readers
  /\ \A doc \in Seq(Tokens) : \A t \in Tokens :
       ReadOf(Append(doc, t)) = ReadToken(ReadOf(doc), t)
<1>1. ASSUME NEW doc \in Seq(Tokens)
      PROVE  \E F : Run(F, Readers, NothingRead, Reads, doc) /\ F[Len(doc)] = ReadOf(doc)
  BY ReadRuns DEF RunsTo
<1>2. ReadOf(<<>>) = NothingRead
  <2>1. <<>> \in Seq(Tokens) /\ Len(<<>>) = 0
    OBVIOUS
  <2> QED BY <2>1, <1>1 DEF Run
<1>3. ASSUME NEW doc \in Seq(Tokens) PROVE ReadOf(doc) \in Readers
  <2>1. PICK F : Run(F, Readers, NothingRead, Reads, doc) /\ F[Len(doc)] = ReadOf(doc)
    BY <1>1
  <2>2. Len(doc) \in 0..Len(doc)
    BY LenProperties
  <2> QED BY <2>1, <2>2 DEF Run
<1>4. ASSUME NEW doc \in Seq(Tokens), NEW t \in Tokens
      PROVE  ReadOf(Append(doc, t)) = ReadToken(ReadOf(doc), t)
  <2>1. PICK longer : longer = Append(doc, t)
    OBVIOUS
  <2>2. PICK n : n = Len(doc)
    OBVIOUS
  <2>3. n \in Nat /\ longer \in Seq(Tokens) /\ Len(longer) = n + 1 /\ longer[n + 1] = t
        /\ \A k \in 1..n : longer[k] = doc[k]
    BY <2>1, <2>2, AppendProperties, LenProperties
  <2>4. PICK F : Run(F, Readers, NothingRead, Reads, doc) /\ F[n] = ReadOf(doc)
    BY <1>1, <2>2
  <2>5. PICK G : Run(G, Readers, NothingRead, Reads, longer) /\ G[n + 1] = ReadOf(longer)
    BY <1>1, <2>3
  <2>6. SameUpTo(n, doc, longer)
    BY <2>3 DEF SameUpTo
  <2>7. F[n] = G[n]
    BY <2>2, <2>3, <2>4, <2>5, <2>6, RunsAgree
  <2>8. G[n + 1] = Reads[<<G[n], longer[n + 1]>>]
    <3>1. n + 1 \in 1..Len(longer) /\ (n + 1) - 1 = n
      BY <2>3
    <3> QED BY <3>1, <2>5 DEF Run
  <2>9. ReadOf(doc) \in Readers
    BY <1>3
  <2>10. G[n + 1] = ReadToken(ReadOf(doc), t)
    BY <2>3, <2>4, <2>7, <2>8, <2>9 DEF Reads
  <2> QED BY <2>1, <2>5, <2>10
<1> QED BY <1>2, <1>3, <1>4

-----------------------------------------------------------------------------
(* Adding to a document *)

\* A document under construction: a body and as many closing brackets as are open in it.
\* The reader that comes to the end of the body is r.
Closes(n) == [i \in 1..n |-> Close]
Stands(doc, body, r) ==
  /\ body \in Seq(Tokens) /\ body # <<>> /\ body[Len(body)] # Close
  /\ ReadOf(body) = r /\ r \in Readers
  /\ Len(r.path) \in 1..15
  /\ doc = body \o Closes(Len(r.path))
Reaches(doc, r) == \E body : Stands(doc, body, r)

LEMMA CloseIs == Close \in Tokens /\ Close[1] = "close"
BY PlainWords, PlainValues DEF Close, Tokens, Kinds

LEMMA ClosesIs ==
  ASSUME NEW n \in Nat
  PROVE  /\ Closes(n) \in Seq(Tokens) /\ Len(Closes(n)) = n
         /\ \A i \in 1..n : Closes(n)[i] = Close
<1>1. PICK s : s = Closes(n)
  OBVIOUS
<1>2. s \in [1..n -> Tokens] /\ \A i \in 1..n : s[i] = Close
  BY <1>1, CloseIs DEF Closes
<1>3. s \in Seq(Tokens) /\ Len(s) = n
  BY <1>2
<1> QED BY <1>1, <1>2, <1>3

LEMMA FrontOfInitial ==
  ASSUME NEW S, NEW s \in Seq(S), NEW k \in 1..Len(s)
  PROVE  Front(SubSeq(s, 1, k)) = SubSeq(s, 1, k - 1)
<1>0. Len(s) \in Nat
  BY LenProperties
<1>1. PICK t : t = SubSeq(s, 1, k)
  OBVIOUS
<1>2. t \in Seq(S) /\ Len(t) = k /\ \A i \in 1..k : t[i] = s[i]
  BY <1>0, <1>1, Initial
<1>3. PICK u : u = SubSeq(t, 1, k - 1)
  OBVIOUS
<1>4. u \in Seq(S) /\ Len(u) = k - 1 /\ \A i \in 1..k - 1 : u[i] = t[i]
  <2>1. k - 1 \in 0..Len(t)
    BY <1>2, <1>0
  <2> QED BY <2>1, <1>2, <1>3, Initial
<1>5. PICK w : w = SubSeq(s, 1, k - 1)
  OBVIOUS
<1>6. w \in Seq(S) /\ Len(w) = k - 1 /\ \A i \in 1..k - 1 : w[i] = s[i]
  <2>1. k - 1 \in 0..Len(s)
    BY <1>0
  <2> QED BY <2>1, <1>5, Initial
<1>7. u = w
  <2>1. \A i \in 1..Len(u) : u[i] = w[i]
    BY <1>2, <1>4, <1>6, <1>0
  <2> QED BY <2>1, <1>4, <1>6, SeqEqual
<1> QED BY <1>1, <1>2, <1>3, <1>5, <1>7 DEF Front

\* Closing brackets only shorten the path.
CutTo(r, n) == Onto(r, SubSeq(r.path, 1, n))
LEMMA CutIs ==
  ASSUME NEW r \in Readers, NEW n \in 0..Len(r.path)
  PROVE  /\ CutTo(r, n) \in Readers /\ CutTo(r, n).items = r.items
         /\ CutTo(r, n).path = SubSeq(r.path, 1, n)
         /\ Len(CutTo(r, n).path) = n
<1>1. r.path \in Seq(Words)
  BY ReaderFields
<1>2. SubSeq(r.path, 1, n) \in Seq(Words) /\ Len(SubSeq(r.path, 1, n)) = n
  BY <1>1, Initial
<1> QED BY <1>2, OntoIs DEF CutTo

LEMMA ClosesRead ==
  ASSUME NEW body \in Seq(Tokens), NEW r \in Readers, ReadOf(body) = r, NEW n \in 0..Len(r.path)
  PROVE  ReadOf(body \o Closes(n)) = CutTo(r, Len(r.path) - n)
<1>0. r.path \in Seq(Words) /\ Len(r.path) \in Nat
  BY ReaderFields, LenProperties
<1> DEFINE A == {k \in Nat : k <= Len(r.path) => ReadOf(body \o Closes(k)) = CutTo(r, Len(r.path) - k)}
<1>1. 0 \in A
  <2>1. Closes(0) = <<>>
    BY ClosesIs
  <2>2. body \o <<>> = body
    OBVIOUS
  <2>3. SubSeq(r.path, 1, Len(r.path)) = r.path
    BY <1>0
  <2>4. Onto(r, r.path) = r
    BY <1>0, OntoIs, ReaderFields
  <2>5. Len(r.path) - 0 = Len(r.path)
    BY <1>0
  <2>6. CutTo(r, Len(r.path) - 0) = r
    BY <2>3, <2>4, <2>5, Zenon DEF CutTo
  <2>7. ReadOf(body \o Closes(0)) = r
    BY <2>1, <2>2
  <2> QED BY <2>6, <2>7
<1>2. \A k \in Nat : k \in A => k + 1 \in A
  <2> TAKE k \in Nat
  <2> HAVE k \in A
  <2> SUFFICES ASSUME k + 1 <= Len(r.path)
               PROVE  ReadOf(body \o Closes(k + 1)) = CutTo(r, Len(r.path) - (k + 1))
    OBVIOUS
  <2>1. PICK m : m = Len(r.path) - k
    OBVIOUS
  <2>2. m \in 1..Len(r.path) /\ m - 1 = Len(r.path) - (k + 1) /\ k <= Len(r.path)
    BY <1>0, <2>1
  <2>3. PICK doc : doc = body \o Closes(k)
    OBVIOUS
  <2>4. doc \in Seq(Tokens)
    BY <2>3, ClosesIs
  <2>5. body \o Closes(k + 1) = Append(doc, Close)
    <3>1. PICK c : c = Closes(k)
      OBVIOUS
    <3>2. PICK d : d = Closes(k + 1)
      OBVIOUS
    <3>3. c \in Seq(Tokens) /\ Len(c) = k /\ \A i \in 1..k : c[i] = Close
      BY <3>1, ClosesIs
    <3>4. d \in Seq(Tokens) /\ Len(d) = k + 1 /\ \A i \in 1..k + 1 : d[i] = Close
      BY <3>2, ClosesIs
    <3>5. d = Append(c, Close)
      <4>1. PICK e : e = Append(c, Close)
        OBVIOUS
      <4>2. e \in Seq(Tokens) /\ Len(e) = k + 1 /\ (\A i \in 1..k : e[i] = c[i]) /\ e[k + 1] = Close
        BY <4>1, <3>3, CloseIs, AppendProperties
      <4>3. \A i \in 1..Len(d) : d[i] = e[i]
        BY <4>2, <3>3, <3>4
      <4> QED BY <4>1, <4>2, <4>3, <3>4, SeqEqual
    <3>6. body \o Append(c, Close) = Append(body \o c, Close)
      BY <3>3, CloseIs
    <3> QED BY <3>1, <3>2, <3>5, <3>6, <2>3
  <2>6. ReadOf(body \o Closes(k + 1)) = ReadToken(ReadOf(doc), Close)
    BY <2>4, <2>5, ReadNext, CloseIs
  <2>7. PICK c : c = CutTo(r, m)
    OBVIOUS
  <2>8. c \in Readers /\ c.path = SubSeq(r.path, 1, m) /\ ReadOf(doc) = c
    <3>1. m \in 0..Len(r.path)
      BY <2>2, <1>0
    <3> QED BY <3>1, <2>1, <2>2, <2>3, <2>7, CutIs
  <2>9. ReadToken(c, Close) = Onto(c, Front(c.path))
    BY <2>8, Closed, CloseIs
  <2>10. Front(c.path) = SubSeq(r.path, 1, m - 1)
    BY <2>2, <2>8, <1>0, FrontOfInitial
  <2>11. SubSeq(r.path, 1, m - 1) \in Seq(Words) /\ SubSeq(r.path, 1, m) \in Seq(Words)
    <3>1. m \in 0..Len(r.path) /\ m - 1 \in 0..Len(r.path)
      BY <2>2, <1>0
    <3> QED BY <3>1, <1>0, Initial
  <2>12. Onto(c, SubSeq(r.path, 1, m - 1)) = CutTo(r, m - 1)
    BY <2>7, <2>11, OntoIs DEF CutTo
  <2> QED BY <2>2, <2>6, <2>8, <2>9, <2>10, <2>12
<1>3. Nat \subseteq A
  <2> HIDE DEF A
  <2> QED BY <1>1, <1>2, SetInduction
<1> QED BY <1>3

\* So a document says what its reader has read in the body.
LEMMA ReadingIs ==
  ASSUME NEW doc, NEW r, Reaches(doc, r)
  PROVE  Reading(doc) = r.items
<1>1. PICK body : Stands(doc, body, r)
  BY DEF Reaches
<1>2. r \in Readers /\ r.path \in Seq(Words) /\ Len(r.path) \in Nat
  BY <1>1, ReaderFields, LenProperties DEF Stands
<1>3. ReadOf(doc) = CutTo(r, Len(r.path) - Len(r.path))
  <2>1. body \in Seq(Tokens) /\ ReadOf(body) = r /\ doc = body \o Closes(Len(r.path))
    BY <1>1 DEF Stands
  <2>2. PICK n : n = Len(r.path)
    OBVIOUS
  <2>3. n \in 0..Len(r.path)
    BY <1>2, <2>2
  <2>4. ReadOf(body \o Closes(n)) = CutTo(r, Len(r.path) - n)
    BY <1>2, <2>1, <2>3, ClosesRead
  <2> QED BY <2>1, <2>2, <2>4
<1>4. Len(r.path) - Len(r.path) \in 0..Len(r.path)
  BY <1>2
<1>5. ReadOf(doc).items = r.items
  BY <1>2, <1>3, <1>4, CutIs
<1> QED BY <1>5 DEF Reading, ReadOf, NothingRead, ReaderAt

\* The places in a document that stands.
LaidOut(doc, body, r, b, n) ==
  /\ b = Len(body) /\ b > 0 /\ n = Len(r.path) /\ n \in 1..15
  /\ doc \in Seq(Tokens) /\ Len(doc) = b + n
  /\ \A i \in 1..b : doc[i] = body[i]
  /\ doc[b] # Close
  /\ \A i \in b + 1..b + n : doc[i] = Close
LEMMA StandsPlaces ==
  ASSUME NEW doc, NEW body, NEW r, Stands(doc, body, r)
  PROVE  \E b, n \in Nat : LaidOut(doc, body, r, b, n)
<1>1. PICK b : b = Len(body)
  OBVIOUS
<1>2. PICK n : n = Len(r.path)
  OBVIOUS
<1>3. body \in Seq(Tokens) /\ body # <<>> /\ body[b] # Close /\ n \in 1..15 /\ doc = body \o Closes(n)
  BY <1>1, <1>2 DEF Stands
<1>4. b \in Nat /\ b > 0
  BY <1>1, <1>3, LenProperties, EmptySeq
<1>5. n \in Nat
  BY <1>3
<1>6. PICK c : c = Closes(n)
  OBVIOUS
<1>7. c \in Seq(Tokens) /\ Len(c) = n /\ \A i \in 1..n : c[i] = Close
  BY <1>5, <1>6, ClosesIs
<1>8. /\ doc \in Seq(Tokens) /\ Len(doc) = b + n
      /\ \A i \in 1..b + n : doc[i] = IF i <= b THEN body[i] ELSE c[i - b]
  BY <1>1, <1>3, <1>6, <1>7, ConcatProperties
<1>9. \A i \in 1..b : doc[i] = body[i]
  BY <1>4, <1>5, <1>8
<1>10. \A i \in b + 1..b + n : doc[i] = Close
  <2> TAKE i \in b + 1..b + n
  <2>1. i \in 1..b + n /\ ~(i <= b) /\ i - b \in 1..n
    BY <1>4, <1>5
  <2> QED BY <2>1, <1>7, <1>8
<1>11. doc[b] # Close
  <2>1. b \in 1..b
    BY <1>4
  <2> QED BY <2>1, <1>3, <1>9
<1>12. LaidOut(doc, body, r, b, n)
  BY <1>1, <1>2, <1>3, <1>4, <1>8, <1>9, <1>10, <1>11 DEF LaidOut
<1> QED BY <1>4, <1>5, <1>12

\* The depth that is asked for, 0 for the innermost.
Level(r, depth, d) ==
  \/ depth = 0 /\ d = Len(r.path)
  \/ depth = d /\ d \in 1..Len(r.path)

\* The closing brackets counted from the end are the open ones.
LEMMA DepthIs ==
  ASSUME NEW doc, NEW body, NEW r, Stands(doc, body, r), NEW depth, NEW d, Level(r, depth, d)
  PROVE  /\ Depth(doc, depth) = d /\ d \in 1..Len(r.path)
         /\ Closing(doc, d) /\ d < MaxDepth
<1>1. PICK b, n \in Nat : LaidOut(doc, body, r, b, n)
  BY StandsPlaces
<1>a. b \in Nat /\ b > 0 /\ n \in 1..15
  BY <1>1 DEF LaidOut
<1>b. b = Len(body) /\ n = Len(r.path) /\ Len(doc) = b + n
  BY <1>1 DEF LaidOut
<1>c. /\ doc \in Seq(Tokens) /\ doc[b] # Close
      /\ \A i \in 1..b : doc[i] = body[i]
      /\ \A i \in b + 1..b + n : doc[i] = Close
  BY <1>1 DEF LaidOut
<1>2. MaxDepth = 16
  BY DEF MaxDepth
<1>3. ASSUME NEW k \in 0..n PROVE Closing(doc, k)
  <2>1. k <= b + n /\ (b + n) - k + 1 >= b + 1
    BY <1>a
  <2>2. \A i \in (b + n) - k + 1 .. b + n : i \in b + 1..b + n
    BY <1>a
  <2> QED BY <1>b, <1>c, <2>1, <2>2 DEF Closing
<1>4. ASSUME NEW k \in Nat, k > n, Closing(doc, k) PROVE FALSE
  <2>1. k <= b + n /\ \A i \in (b + n) - k + 1 .. b + n : doc[i] = Close
    BY <1>4, <1>b DEF Closing
  <2>2. b \in (b + n) - k + 1 .. b + n
    BY <1>a, <1>4, <2>1
  <2> QED BY <2>1, <2>2, <1>c
<1>5. PICK s : s = {k \in 0..16 : Closing(doc, k)}
  OBVIOUS
<1>6. n \in s /\ \A k \in s : k <= n /\ k \in Nat
  <2>1. n \in 0..16 /\ n \in 0..n
    BY <1>a
  <2>2. \A k \in 0..16 : k \in Nat /\ (k > n \/ k <= n)
    BY <1>a
  <2> QED BY <2>1, <2>2, <1>3, <1>4, <1>5
<1>7. Max(s) = n
  <2>1. \E x \in s : \A y \in s : x >= y
    BY <1>6, <1>a
  <2>2. Max(s) \in s /\ \A y \in s : Max(s) >= y
    BY <2>1 DEF Max
  <2>3. PICK x : x = Max(s)
    OBVIOUS
  <2>4. x \in Nat /\ x <= n /\ x >= n
    BY <2>2, <2>3, <1>6
  <2> QED BY <2>3, <2>4, <1>a
<1>8. Depth(doc, depth) = d /\ d \in 1..n
  <2>1. CASE depth = 0 /\ d = n
    <3>1. d \in 1..n
      BY <2>1, <1>a
    <3>2. Depth(doc, depth) = Max(s)
      BY <2>1, <1>2, <1>5 DEF Depth
    <3> QED BY <2>1, <3>1, <3>2, <1>7
  <2>2. CASE depth = d /\ d \in 1..n
    <3>1. depth > 0
      BY <2>2, <1>a
    <3> QED BY <2>2, <3>1 DEF Depth
  <2> QED BY <2>1, <2>2, <1>b DEF Level
<1>9. d \in 0..n /\ d < 16
  BY <1>8, <1>a
<1>10. Closing(doc, d)
  BY <1>3, <1>9
<1> QED BY <1>b, <1>2, <1>8, <1>9, <1>10

\* Where an entry goes: behind the body and the brackets that are closed before it.
LEMMA AddDataIs ==
  ASSUME NEW doc, NEW body, NEW r, Stands(doc, body, r), NEW depth, NEW d, Level(r, depth, d),
         NEW entry \in Seq(Tokens)
  PROVE  /\ d \in 1..Len(r.path)
         /\ AddData(doc, depth, entry) = (body \o Closes(Len(r.path) - d)) \o entry \o Closes(d)
<1>1. PICK b, n \in Nat : LaidOut(doc, body, r, b, n)
  BY StandsPlaces
<1>a. b \in Nat /\ b > 0 /\ n \in 1..15
  BY <1>1 DEF LaidOut
<1>b. b = Len(body) /\ n = Len(r.path) /\ Len(doc) = b + n
  BY <1>1 DEF LaidOut
<1>c. /\ doc \in Seq(Tokens) /\ doc[b] # Close
      /\ \A i \in 1..b : doc[i] = body[i]
      /\ \A i \in b + 1..b + n : doc[i] = Close
  BY <1>1 DEF LaidOut
<1>2. d \in 1..n
  BY <1>b, DepthIs
<1>3. body \in Seq(Tokens)
  BY DEF Stands
<1>4. AddData(doc, depth, entry) =
        SubSeq(doc, 1, (b + n) - d) \o entry \o SubSeq(doc, (b + n) - d + 1, b + n)
  <2>1. Depth(doc, depth) = d /\ Closing(doc, d) /\ d < MaxDepth
    BY DepthIs
  <2> QED BY <2>1, <1>b DEF AddData
<1>5. PICK u : u = SubSeq(doc, 1, (b + n) - d)
  OBVIOUS
<1>6. PICK w : w = SubSeq(doc, (b + n) - d + 1, b + n)
  OBVIOUS
<1>7. u \in Seq(Tokens) /\ Len(u) = (b + n) - d /\ \A i \in 1..(b + n) - d : u[i] = doc[i]
  <2>1. (b + n) - d \in 0..b + n
    BY <1>a, <1>2
  <2>2. PICK z : z = (b + n) - d
    OBVIOUS
  <2>3. u = SubSeq(doc, 1, z) /\ z \in 0..Len(doc)
    <3>1. u = SubSeq(doc, 1, z)
      BY <2>2, <1>5
    <3>2. 0..Len(doc) = 0..b + n
      BY <1>b, Zenon
    <3>3. z \in 0..b + n
      BY <2>1, <2>2, Zenon
    <3> QED BY <3>1, <3>2, <3>3
  <2>4. u \in Seq(Tokens) /\ Len(u) = z /\ \A i \in 1..z : u[i] = doc[i]
    BY <2>3, <1>c, Initial
  <2> QED BY <2>2, <2>4
<1>8. w \in Seq(Tokens) /\ Len(w) = d /\ \A i \in 1..d : w[i] = doc[b + n - d + i]
  <2>1. PICK x \in Int : x = b + n - d + 1
    BY <1>a, <1>2
  <2>2. PICK y \in Int : y = b + n
    BY <1>a
  <2>3. w = SubSeq(doc, x, y) /\ y - x + 1 = d /\ x <= y /\ x >= 1
    BY <1>a, <1>2, <1>6, <2>1, <2>2
  <2>4. \A i \in x..y : doc[i] \in Tokens
    <3> TAKE i \in x..y
    <3>1. i \in 1..y
      BY <2>3
    <3> QED BY <3>1, <2>2, <1>b, <1>c, ElementOfSeq
  <2>5. /\ w \in Seq(Tokens) /\ Len(w) = IF x <= y THEN y - x + 1 ELSE 0
        /\ \A i \in 1..y - x + 1 : w[i] = doc[x + i - 1]
    BY <2>3, <2>4, SubSeqProperties
  <2>6. \A i \in 1..d : w[i] = doc[b + n - d + i]
    <3> TAKE i \in 1..d
    <3>1. x + i - 1 = b + n - d + i /\ i \in 1..y - x + 1
      BY <1>a, <1>2, <2>1, <2>3
    <3> QED BY <3>1, <2>5
  <2> QED BY <2>3, <2>5, <2>6
<1>9. PICK c : c = Closes(n - d)
  OBVIOUS
<1>10. c \in Seq(Tokens) /\ Len(c) = n - d /\ \A i \in 1..n - d : c[i] = Close
  <2>1. n - d \in Nat
    BY <1>a, <1>2
  <2> QED BY <2>1, <1>9, ClosesIs
<1>11. PICK e : e = Closes(d)
  OBVIOUS
<1>12. e \in Seq(Tokens) /\ Len(e) = d /\ \A i \in 1..d : e[i] = Close
  <2>1. d \in Nat
    BY <1>a, <1>2
  <2> QED BY <2>1, <1>11, ClosesIs
<1>13. w = e
  <2>1. \A i \in 1..d : w[i] = e[i]
    <3> TAKE i \in 1..d
    <3>1. b + n - d + i \in b + 1..b + n
      BY <1>a, <1>2
    <3> QED BY <3>1, <1>c, <1>8, <1>12
  <2> QED BY <2>1, <1>8, <1>12, SeqEqual
<1>14. u = body \o c
  <2>1. PICK x : x = body \o c
    OBVIOUS
  <2>2. /\ x \in Seq(Tokens) /\ Len(x) = b + (n - d)
        /\ \A i \in 1..b + (n - d) : x[i] = IF i <= b THEN body[i] ELSE c[i - b]
    <3>1. /\ x \in Seq(Tokens) /\ Len(x) = Len(body) + Len(c)
          /\ \A i \in 1..Len(body) + Len(c) : x[i] = IF i <= Len(body) THEN body[i] ELSE c[i - Len(body)]
      BY <2>1, <1>3, <1>10, ConcatProperties
    <3>2. Len(body) = b /\ Len(c) = n - d
      BY <1>b, <1>10
    <3> QED BY <3>1, <3>2
  <2>3. Len(x) = Len(u) /\ Len(u) = b + n - d
    BY <2>2, <1>a, <1>2, <1>7
  <2>4. \A i \in 1..Len(u) : u[i] = x[i]
    <3> TAKE i \in 1..Len(u)
    <3>1. i \in 1..b + n - d /\ i \in 1..b + (n - d)
      BY <2>3, <1>a, <1>2
    <3>2. CASE i <= b
      <4>1. i \in 1..b
        BY <3>1, <3>2, <1>a
      <4> QED BY <4>1, <3>1, <3>2, <2>2, <1>c, <1>7
    <3>3. CASE ~(i <= b)
      <4>1. i \in b + 1..b + n /\ i - b \in 1..n - d
        BY <3>1, <3>3, <1>a, <1>2
      <4> QED BY <4>1, <3>1, <3>3, <2>2, <1>c, <1>7, <1>10
    <3> QED BY <3>2, <3>3
  <2> QED BY <2>1, <2>2, <2>3, <2>4, <1>7, SeqEqual
<1>15. d \in 1..Len(r.path) /\ n - d = Len(r.path) - d
  BY <1>b, <1>2
<1> QED BY <1>4, <1>5, <1>6, <1>9, <1>11, <1>13, <1>14, <1>15

Grown(more, body, r, d, t) ==
  /\ more \in Seq(Tokens) /\ more = body \o Closes(Len(r.path) - d)
  /\ ReadOf(more) = CutTo(r, d) /\ CutTo(r, d) \in Readers
  /\ Append(more, t) \in Seq(Tokens) /\ Append(more, t) # <<>>
  /\ Append(more, t)[Len(Append(more, t))] = t
  /\ ReadOf(Append(more, t)) = ReadToken(CutTo(r, d), t)

LEMMA BodyLonger ==
  ASSUME NEW doc, NEW body, NEW r, Stands(doc, body, r), NEW d \in 1..Len(r.path),
         NEW t \in Tokens
  PROVE  \E more : Grown(more, body, r, d, t)
<1>1. body \in Seq(Tokens) /\ r \in Readers /\ ReadOf(body) = r /\ Len(r.path) \in Nat
  BY ReaderFields, LenProperties DEF Stands
<1>2. Len(r.path) - d \in 0..Len(r.path) /\ Len(r.path) - d \in Nat /\ d \in 0..Len(r.path)
      /\ Len(r.path) - (Len(r.path) - d) = d
  BY <1>1
<1>3. PICK more : more = body \o Closes(Len(r.path) - d)
  OBVIOUS
<1>4. more \in Seq(Tokens)
  BY <1>1, <1>2, <1>3, ClosesIs
<1>5. ReadOf(more) = CutTo(r, d) /\ CutTo(r, d) \in Readers
  <2>1. PICK k : k = Len(r.path) - d
    OBVIOUS
  <2>2. k \in 0..Len(r.path) /\ Len(r.path) - k = d
    BY <1>2, <2>1
  <2>3. ReadOf(body \o Closes(k)) = CutTo(r, Len(r.path) - k)
    BY <1>1, <2>2, ClosesRead
  <2>4. CutTo(r, d) \in Readers
    BY <1>1, <1>2, CutIs
  <2>5. ReadOf(more) = CutTo(r, Len(r.path) - k)
    BY <1>3, <2>1, <2>3
  <2> QED BY <2>2, <2>4, <2>5
<1>6. PICK x : x = Append(more, t)
  OBVIOUS
<1>7. x \in Seq(Tokens) /\ Len(x) = Len(more) + 1 /\ x[Len(more) + 1] = t /\ x # <<>>
  BY <1>4, <1>6, AppendProperties
<1>8. ReadOf(x) = ReadToken(CutTo(r, d), t)
  BY <1>4, <1>5, <1>6, ReadNext
<1>9. Len(x) = Len(more) + 1 /\ x[Len(x)] = t
  BY <1>7
<1>10. Grown(more, body, r, d, t)
  BY <1>3, <1>4, <1>5, <1>6, <1>7, <1>8, <1>9 DEF Grown
<1> QED BY <1>10

LEMMA AddLeaf ==
  ASSUME NEW doc, NEW r, Reaches(doc, r), NEW depth, NEW d, Level(r, depth, d),
         NEW t \in Tokens, t[1] = "leaf"
  PROVE  Reaches(AddData(doc, depth, <<t>>), ReadToken(CutTo(r, d), t))
<1>1. PICK body : Stands(doc, body, r)
  BY DEF Reaches
<1>2. r \in Readers /\ Len(r.path) \in 1..15 /\ Len(r.path) \in Nat
  BY <1>1, ReaderFields, LenProperties DEF Stands
<1>3. <<t>> \in Seq(Tokens)
  OBVIOUS
<1>4. /\ d \in 1..Len(r.path)
      /\ AddData(doc, depth, <<t>>) = (body \o Closes(Len(r.path) - d)) \o <<t>> \o Closes(d)
  <2>1. PICK entry : entry = <<t>>
    OBVIOUS
  <2>2. entry \in Seq(Tokens)
    BY <1>3, <2>1
  <2>3. /\ d \in 1..Len(r.path)
        /\ AddData(doc, depth, entry) = (body \o Closes(Len(r.path) - d)) \o entry \o Closes(d)
    BY <1>1, <2>2, AddDataIs
  <2> QED BY <2>1, <2>3
<1>5. PICK more : Grown(more, body, r, d, t)
  BY <1>1, <1>4, BodyLonger
<1>a. /\ more \in Seq(Tokens) /\ more = body \o Closes(Len(r.path) - d)
      /\ ReadOf(more) = CutTo(r, d) /\ CutTo(r, d) \in Readers
      /\ Append(more, t) \in Seq(Tokens) /\ Append(more, t) # <<>>
      /\ Append(more, t)[Len(Append(more, t))] = t
      /\ ReadOf(Append(more, t)) = ReadToken(CutTo(r, d), t)
  BY <1>5 DEF Grown
<1>6. PICK q : q = ReadToken(CutTo(r, d), t)
  OBVIOUS
<1>7. q \in Readers /\ Len(q.path) = d
  <2>1. d \in 0..Len(r.path)
    BY <1>2, <1>4
  <2>2. Len(CutTo(r, d).path) = d
    BY <2>1, <1>2, CutIs
  <2>3. q \in Readers /\ q.path = CutTo(r, d).path
    BY <1>a, <1>6, LeafKeeps
  <2> QED BY <2>2, <2>3
<1>8. AddData(doc, depth, <<t>>) = Append(more, t) \o Closes(Len(q.path))
  <2>1. more \o <<t>> = Append(more, t)
    BY <1>a
  <2> QED BY <2>1, <1>4, <1>a, <1>7
<1>9. t # Close
  BY CloseIs
<1>10. Len(q.path) \in 1..15
  <2>1. PICK n : n = Len(r.path)
    OBVIOUS
  <2>2. n \in 1..15 /\ d \in 1..n
    BY <2>1, <1>2, <1>4
  <2>3. d \in 1..15
    BY ONLY <2>2
  <2> QED BY <2>3, <1>7
<1>11. Stands(AddData(doc, depth, <<t>>), Append(more, t), q)
  BY <1>a, <1>6, <1>7, <1>8, <1>9, <1>10 DEF Stands
<1> QED BY <1>6, <1>11 DEF Reaches

LEMMA AddOpen ==
  ASSUME NEW doc, NEW r, Reaches(doc, r), NEW depth, NEW d, Level(r, depth, d),
         NEW t \in Tokens, t[1] \in {"object", "array"}, d < 15
  PROVE  /\ Reaches(AddData(doc, depth, <<t, Close>>), ReadToken(CutTo(r, d), t))
         /\ ReadToken(CutTo(r, d), t) = Onto(r, Append(SubSeq(r.path, 1, d), t[2]))
<1>1. PICK body : Stands(doc, body, r)
  BY DEF Reaches
<1>2. r \in Readers /\ Len(r.path) \in 1..15 /\ Len(r.path) \in Nat /\ r.path \in Seq(Words)
  BY <1>1, ReaderFields, LenProperties DEF Stands
<1>3. <<t, Close>> \in Seq(Tokens)
  BY CloseIs
<1>4. /\ d \in 1..Len(r.path)
      /\ AddData(doc, depth, <<t, Close>>) = (body \o Closes(Len(r.path) - d)) \o <<t, Close>> \o Closes(d)
  <2>1. PICK entry : entry = <<t, Close>>
    OBVIOUS
  <2>2. entry \in Seq(Tokens)
    BY <1>3, <2>1
  <2>3. /\ d \in 1..Len(r.path)
        /\ AddData(doc, depth, entry) = (body \o Closes(Len(r.path) - d)) \o entry \o Closes(d)
    BY <1>1, <2>2, AddDataIs
  <2> QED BY <2>1, <2>3
<1>5. PICK more : Grown(more, body, r, d, t)
  BY <1>1, <1>4, BodyLonger
<1>a. /\ more \in Seq(Tokens) /\ more = body \o Closes(Len(r.path) - d)
      /\ ReadOf(more) = CutTo(r, d) /\ CutTo(r, d) \in Readers
      /\ Append(more, t) \in Seq(Tokens) /\ Append(more, t) # <<>>
      /\ Append(more, t)[Len(Append(more, t))] = t
      /\ ReadOf(Append(more, t)) = ReadToken(CutTo(r, d), t)
  BY <1>5 DEF Grown
<1>6. PICK q : q = ReadToken(CutTo(r, d), t)
  OBVIOUS
<1>7. PICK p : p = SubSeq(r.path, 1, d)
  OBVIOUS
<1>8. t[2] \in Words
  BY DEF Tokens
<1>9. p \in Seq(Words) /\ Len(p) = d /\ CutTo(r, d).path = p /\ d \in Nat
  <2>1. d \in 0..Len(r.path)
    BY <1>2, <1>4
  <2> QED BY <2>1, <1>2, <1>7, CutIs, Initial
<1>10. Append(p, t[2]) \in Seq(Words) /\ Len(Append(p, t[2])) = d + 1
  BY <1>8, <1>9, AppendProperties
<1>11. q = Onto(r, Append(p, t[2]))
  <2>1. q = Onto(CutTo(r, d), Append(p, t[2]))
    BY <1>a, <1>6, <1>9, Opened
  <2>2. PICK w : w = Append(p, t[2])
    OBVIOUS
  <2>3. Onto(Onto(r, p), w) = Onto(r, w)
    BY <2>2, <1>2, <1>9, <1>10, OntoIs
  <2>4. CutTo(r, d) = Onto(r, p)
    BY <1>7 DEF CutTo
  <2> QED BY <2>1, <2>2, <2>3, <2>4
<1>12. q \in Readers /\ Len(q.path) = d + 1
  BY <1>2, <1>10, <1>11, OntoIs
<1>13. (more \o <<t, Close>>) \o Closes(d) = Append(more, t) \o Closes(d + 1)
  <2>1. PICK c : c = Closes(d)
    OBVIOUS
  <2>2. PICK e : e = Closes(d + 1)
    OBVIOUS
  <2>3. c \in Seq(Tokens) /\ Len(c) = d /\ \A i \in 1..d : c[i] = Close
    BY <1>9, <2>1, ClosesIs
  <2>4. e \in Seq(Tokens) /\ Len(e) = d + 1 /\ \A i \in 1..d + 1 : e[i] = Close
    BY <1>9, <2>2, ClosesIs
  <2>5. e = <<Close>> \o c
    <3>1. PICK x : x = <<Close>> \o c
      OBVIOUS
    <3>2. <<Close>> \in Seq(Tokens) /\ Len(<<Close>>) = 1 /\ <<Close>>[1] = Close
      BY CloseIs
    <3>3. /\ x \in Seq(Tokens) /\ Len(x) = 1 + d
          /\ \A i \in 1..1 + d : x[i] = IF i <= 1 THEN <<Close>>[i] ELSE c[i - 1]
      BY <3>1, <3>2, <2>3, ConcatProperties
    <3>4. \A i \in 1..Len(e) : e[i] = x[i]
      <4> TAKE i \in 1..Len(e)
      <4>0. i \in 1..d + 1
        BY <2>4
      <4>1. i \in 1..d + 1 /\ i \in 1..1 + d /\ (i = 1 \/ (i - 1 \in 1..d /\ ~(i <= 1)))
        BY ONLY <4>0, <1>9
      <4> QED BY <4>1, <3>2, <3>3, <2>3, <2>4
    <3> QED BY <3>1, <3>3, <3>4, <2>4, <1>9, SeqEqual
  <2>6. (more \o <<t, Close>>) \o c = Append(more, t) \o (<<Close>> \o c)
    <3>1. more \o <<t, Close>> = Append(more, t) \o <<Close>>
      BY <1>a, CloseIs
    <3>2. PICK y : y = Append(more, t)
      OBVIOUS
    <3>3. (y \o <<Close>>) \o c = y \o (<<Close>> \o c)
      <4>1. y \in Seq(Tokens) /\ <<Close>> \in Seq(Tokens) /\ c \in Seq(Tokens)
        BY <3>2, <1>a, <2>3, CloseIs
      <4> QED BY <4>1, ConcatAssociative
    <3> QED BY <3>1, <3>2, <3>3
  <2> QED BY <2>1, <2>2, <2>5, <2>6
<1>14. t # Close
  BY CloseIs
<1>15. Len(q.path) \in 1..15
  BY <1>9, <1>12
<1>16. Stands(AddData(doc, depth, <<t, Close>>), Append(more, t), q)
  BY <1>4, <1>a, <1>6, <1>12, <1>13, <1>14, <1>15 DEF Stands
<1> QED BY <1>6, <1>7, <1>11, <1>16 DEF Reaches

-----------------------------------------------------------------------------
(* The parts of a document *)

RootPath == <<None>>
ListPath == <<None, "sub_dev">>
ProductPath == Append(InProduct, "device_list")
HolderPath(h) == Append(Fields, h)

LEMMA Longer ==
  ASSUME NEW q \in Seq(Words), NEW w \in Words, NEW n \in Nat, Len(q) = n, NEW p, p = Append(q, w)
  PROVE  /\ p \in Seq(Words) /\ Len(p) = n + 1 /\ p[n + 1] = w
         /\ SubSeq(p, 1, n) = q
<1>1. p \in Seq(Words) /\ Len(p) = n + 1 /\ (\A i \in 1..n : p[i] = q[i]) /\ p[n + 1] = w
  BY AppendProperties
<1>2. PICK s : s = SubSeq(p, 1, n)
  OBVIOUS
<1>3. n \in 0..Len(p)
  BY <1>1
<1>4. s \in Seq(Words) /\ Len(s) = n /\ \A i \in 1..n : s[i] = p[i]
  BY <1>1, <1>2, <1>3, Initial
<1>5. \A i \in 1..Len(s) : s[i] = q[i]
  BY <1>1, <1>4
<1>6. s = q
  BY <1>4, <1>5, SeqEqual
<1> QED BY <1>1, <1>2, <1>6

LEMMA PathsAre ==
  /\ RootPath \in Seq(Words) /\ Len(RootPath) = 1
  /\ ListPath \in Seq(Words) /\ Len(ListPath) = 2 /\ ListPath = Append(RootPath, "sub_dev")
  /\ InProduct \in Seq(Words) /\ Len(InProduct) = 3 /\ InProduct = Append(ListPath, None)
  /\ ProductPath \in Seq(Words) /\ Len(ProductPath) = 4
  /\ InDevice \in Seq(Words) /\ Len(InDevice) = 5 /\ InDevice = Append(ProductPath, None)
  /\ Fields \in Seq(Words) /\ Len(Fields) = 6 /\ Fields = Append(InDevice, "state")
  /\ \A h \in Words : HolderPath(h) \in Seq(Words) /\ Len(HolderPath(h)) = 7
                      /\ HolderPath(h)[7] = h /\ SubSeq(HolderPath(h), 1, 6) = Fields
<1>1. None \in Words /\ "sub_dev" \in Words /\ "device_list" \in Words /\ "state" \in Words
  BY PlainWords
<1>2. RootPath \in Seq(Words) /\ Len(RootPath) = 1
  BY <1>1 DEF RootPath
<1>3. ListPath \in Seq(Words) /\ Len(ListPath) = 2 /\ ListPath = Append(RootPath, "sub_dev")
  BY <1>1 DEF RootPath, ListPath
<1>4. InProduct \in Seq(Words) /\ Len(InProduct) = 3 /\ InProduct = Append(ListPath, None)
  BY <1>1 DEF InProduct, ListPath
<1>5. ProductPath \in Seq(Words) /\ Len(ProductPath) = 4
  BY <1>1, <1>4, AppendProperties DEF ProductPath
<1>6. InDevice = Append(ProductPath, None)
  BY <1>1, <1>4 DEF InDevice, ProductPath
<1>7. InDevice \in Seq(Words) /\ Len(InDevice) = 5
  <2>1. Len(InDevice) = 4 + 1 /\ InDevice \in Seq(Words)
    BY <1>1, <1>5, <1>6, Longer
  <2> QED BY <2>1
<1>8. Fields = Append(InDevice, "state")
  BY <1>1, <1>7 DEF Fields
<1>9. Fields \in Seq(Words) /\ Len(Fields) = 6
  <2>1. Len(Fields) = 5 + 1 /\ Fields \in Seq(Words)
    BY <1>1, <1>7, <1>8, Longer
  <2> QED BY <2>1
<1>10. ASSUME NEW h \in Words
       PROVE  /\ HolderPath(h) \in Seq(Words) /\ Len(HolderPath(h)) = 7
              /\ HolderPath(h)[7] = h /\ SubSeq(HolderPath(h), 1, 6) = Fields
  <2>1. PICK p : p = Append(Fields, h)
    OBVIOUS
  <2>2. PICK n \in Nat : n = 6
    OBVIOUS
  <2>3. p \in Seq(Words) /\ Len(p) = n + 1 /\ p[n + 1] = h /\ SubSeq(p, 1, n) = Fields
    <3>1. Fields \in Seq(Words) /\ Len(Fields) = n
      BY <1>9, <2>2
    <3> QED BY <3>1, <2>1, Longer
  <2>4. p \in Seq(Words) /\ Len(p) = 7 /\ p[7] = h /\ SubSeq(p, 1, 6) = Fields
    BY <2>2, <2>3
  <2> QED BY <2>1, <2>4 DEF HolderPath
<1> QED BY <1>2, <1>3, <1>4, <1>5, <1>6, <1>7, <1>8, <1>9, <1>10

Begins(p, q) == /\ p \in Seq(Words) /\ q \in Seq(Words) /\ Len(q) <= Len(p)
                /\ SubSeq(p, 1, Len(q)) = q

LEMMA BeginsItself ==
  ASSUME NEW p \in Seq(Words)
  PROVE  Begins(p, p) /\ SubSeq(p, 1, Len(p)) = p
<1>1. Len(p) \in Nat
  BY LenProperties
<1> QED BY <1>1 DEF Begins

LEMMA BeginsShorter ==
  ASSUME NEW p, NEW q \in Seq(Words), NEW w \in Words, Begins(p, Append(q, w))
  PROVE  Begins(p, q)
<1>1. p \in Seq(Words) /\ Append(q, w) \in Seq(Words) /\ Len(Append(q, w)) = Len(q) + 1
      /\ Len(q) + 1 <= Len(p) /\ SubSeq(p, 1, Len(q) + 1) = Append(q, w)
  BY AppendProperties DEF Begins
<1>2. PICK n \in Nat : n = Len(q)
  BY LenProperties
<1>3. PICK m \in Nat : m = Len(p)
  BY <1>1, LenProperties
<1>4. n + 1 <= m
  BY <1>1, <1>2, <1>3
<1>5. n + 1 \in 1..Len(p) /\ (n + 1) - 1 = n /\ n <= m
  BY <1>3, <1>4
<1>6. Front(SubSeq(p, 1, n + 1)) = SubSeq(p, 1, n)
  BY <1>1, <1>5, FrontOfInitial
<1>7. Front(Append(q, w)) = q
  <2>1. PICK t : t = Append(q, w)
    OBVIOUS
  <2>2. t \in Seq(Words) /\ Len(t) = n + 1 /\ \A i \in 1..n : t[i] = q[i]
    BY <1>2, <2>1, AppendProperties
  <2>3. PICK s : s = SubSeq(t, 1, n)
    OBVIOUS
  <2>4. s \in Seq(Words) /\ Len(s) = n /\ \A i \in 1..n : s[i] = t[i]
    <3>1. n \in 0..Len(t)
      BY <2>2
    <3> QED BY <2>2, <2>3, <3>1, Initial
  <2>5. s = q
    BY <1>2, <2>2, <2>4, SeqEqual
  <2>6. Len(t) - 1 = n
    BY <2>2
  <2> QED BY <2>1, <2>3, <2>5, <2>6 DEF Front
<1> QED BY <1>1, <1>2, <1>3, <1>5, <1>6, <1>7 DEF Begins

\* The document that is open at p, when its reader has read the product, name and sequence
\* last and these items.
Holds(doc, p, product, name, sequence, items) ==
  Reaches(doc, ReaderAt(p, product, name, sequence, items))

LEMMA HoldsTypes ==
  ASSUME NEW doc, NEW p, NEW a, NEW b, NEW c, NEW i, Holds(doc, p, a, b, c, i)
  PROVE  /\ doc \in Seq(Tokens) /\ p \in Seq(Words) /\ Len(p) \in 1..15
         /\ a \in Values /\ b \in Values /\ c \in Values /\ i \in SUBSET Items
<1>1. PICK r : r = ReaderAt(p, a, b, c, i)
  OBVIOUS
<1>2. PICK body : Stands(doc, body, r)
  BY <1>1 DEF Holds, Reaches
<1>3. r \in Readers /\ Len(r.path) \in 1..15
  BY <1>2 DEF Stands
<1>4. r.path = p /\ r.product = a /\ r.name = b /\ r.sequence = c /\ r.items = i
  BY <1>1 DEF ReaderAt
<1>5. PICK k, n \in Nat : LaidOut(doc, body, r, k, n)
  BY <1>2, StandsPlaces
<1>6. doc \in Seq(Tokens)
  BY <1>5 DEF LaidOut
<1> QED BY <1>3, <1>4, <1>6, ReaderFields

\* Where an entry is added: at q, the depth being its length or 0 for the innermost.
Goes(depth, p, q) ==
  \/ depth = 0 /\ q = p
  \/ depth = Len(q) /\ depth # 0 /\ Begins(p, q)

LEMMA GoesIs ==
  ASSUME NEW doc, NEW p, NEW a, NEW b, NEW c, NEW i, Holds(doc, p, a, b, c, i),
         NEW depth, NEW q, Goes(depth, p, q)
  PROVE  \E r \in Readers, d \in Nat :
           /\ r = ReaderAt(p, a, b, c, i) /\ Reaches(doc, r) /\ Level(r, depth, d)
           /\ d = Len(q) /\ q \in Seq(Words) /\ d \in 1..15
           /\ SubSeq(r.path, 1, d) = q /\ CutTo(r, d) = ReaderAt(q, a, b, c, i)
           /\ \A w \in Seq(Words) : Onto(r, w) = ReaderAt(w, a, b, c, i)
<1>1. p \in Seq(Words) /\ Len(p) \in 1..15 /\ a \in Values /\ b \in Values /\ c \in Values /\ i \in SUBSET Items
  BY HoldsTypes
<1>2. PICK r : r = ReaderAt(p, a, b, c, i)
  OBVIOUS
<1>3. r \in Readers /\ r.path = p
  BY <1>1, <1>2, ReaderIs
<1>4. r.product = a /\ r.name = b /\ r.sequence = c /\ r.items = i
  BY <1>2 DEF ReaderAt
<1>5. PICK d : d = Len(q)
  OBVIOUS
<1>6. q \in Seq(Words) /\ d \in 1..Len(p) /\ d \in Nat /\ SubSeq(p, 1, d) = q
  <2>1. CASE depth = 0 /\ q = p
    BY <2>1, <1>1, <1>5, BeginsItself
  <2>2. CASE depth = Len(q) /\ depth # 0 /\ Begins(p, q)
    <3>1. q \in Seq(Words) /\ Len(q) \in Nat /\ Len(q) <= Len(p) /\ SubSeq(p, 1, Len(q)) = q
      BY <2>2, LenProperties DEF Begins
    <3>2. d \in Nat /\ d # 0 /\ d <= Len(p)
      BY <2>2, <3>1, <1>5
    <3>3. d \in 1..Len(p)
      BY <3>2, <1>1
    <3> QED BY <3>1, <3>3, <1>5
  <2> QED BY <2>1, <2>2 DEF Goes
<1>7. d \in 1..15
  <2>1. PICK n : n = Len(p)
    OBVIOUS
  <2>2. n \in 1..15 /\ d \in 1..n
    BY <2>1, <1>1, <1>6
  <2> QED BY ONLY <2>2
<1>8. Level(r, depth, d)
  <2>1. CASE depth = 0 /\ q = p
    BY <2>1, <1>3, <1>5 DEF Level
  <2>2. CASE depth = Len(q) /\ depth # 0 /\ Begins(p, q)
    BY <2>2, <1>3, <1>5, <1>6 DEF Level
  <2> QED BY <2>1, <2>2 DEF Goes
<1>9. ASSUME NEW w \in Seq(Words) PROVE Onto(r, w) = ReaderAt(w, a, b, c, i)
  BY <1>3, <1>4, OntoIs
<1>10. CutTo(r, d) = ReaderAt(q, a, b, c, i)
  BY <1>3, <1>6, <1>9 DEF CutTo
<1>11. Reaches(doc, r)
  BY <1>2 DEF Holds
<1> QED BY <1>2, <1>3, <1>5, <1>6, <1>7, <1>8, <1>9, <1>10, <1>11

LEMMA OpenAdded ==
  ASSUME NEW doc, NEW p, NEW a, NEW b, NEW c, NEW i, Holds(doc, p, a, b, c, i),
         NEW depth, NEW q, Goes(depth, p, q), Len(q) < 15, NEW name \in Words
  PROVE  /\ Holds(AddData(doc, depth, Object(name)), Append(q, name), a, b, c, i)
         /\ Holds(AddData(doc, depth, Array(name)), Append(q, name), a, b, c, i)
<1>1. PICK r \in Readers, d \in Nat :
           /\ r = ReaderAt(p, a, b, c, i) /\ Reaches(doc, r) /\ Level(r, depth, d)
           /\ d = Len(q) /\ q \in Seq(Words) /\ d \in 1..15
           /\ SubSeq(r.path, 1, d) = q /\ CutTo(r, d) = ReaderAt(q, a, b, c, i)
           /\ \A w \in Seq(Words) : Onto(r, w) = ReaderAt(w, a, b, c, i)
  BY GoesIs
<1>2. Append(q, name) \in Seq(Words)
  BY <1>1, AppendProperties
<1>3. ASSUME NEW kind \in {"object", "array"}
      PROVE  Holds(AddData(doc, depth, <<<<kind, name, 0>>, Close>>), Append(q, name), a, b, c, i)
  <2>1. PICK t : t = <<kind, name, 0>>
    OBVIOUS
  <2>2. t \in Tokens /\ t[1] \in {"object", "array"} /\ t[2] = name
    <3>1. 0 \in Values
      BY PlainValues
    <3> QED BY <2>1, <3>1 DEF Tokens, Kinds
  <2>3. d < 15
    BY <1>1
  <2>4. /\ Reaches(AddData(doc, depth, <<t, Close>>), ReadToken(CutTo(r, d), t))
        /\ ReadToken(CutTo(r, d), t) = Onto(r, Append(SubSeq(r.path, 1, d), t[2]))
    BY <1>1, <2>2, <2>3, AddOpen
  <2>5. ReadToken(CutTo(r, d), t) = ReaderAt(Append(q, name), a, b, c, i)
    BY <1>1, <1>2, <2>2, <2>4
  <2> QED BY <2>1, <2>4, <2>5 DEF Holds
<1>4. Holds(AddData(doc, depth, Object(name)), Append(q, name), a, b, c, i)
  BY <1>3 DEF Object
<1>5. Holds(AddData(doc, depth, Array(name)), Append(q, name), a, b, c, i)
  BY <1>3 DEF Array
<1> QED BY <1>4, <1>5

LEMMA LeafAdded ==
  ASSUME NEW doc, NEW p, NEW a, NEW b, NEW c, NEW i, Holds(doc, p, a, b, c, i),
         NEW depth, NEW q, Goes(depth, p, q), NEW name \in Words, NEW value \in Values
  PROVE  /\ Reaches(AddData(doc, depth, Leaf(name, value)),
                    IF q = InProduct /\ name = "product" THEN ReaderAt(q, value, b, c, i)
                    ELSE IF q = InDevice /\ name = "sequence" THEN ReaderAt(q, a, b, value, i)
                    ELSE IF q = InDevice /\ name = "dev_name"
                    THEN ReaderAt(q, a, value, 0, i \cup {Item(a, value, "listed", None, 0, 0)})
                    ELSE IF name \in Props /\ Len(q) = 7 /\ SubSeq(q, 1, 6) = Fields
                    THEN ReaderAt(q, a, b, c, i \cup {Item(a, b, q[7], name, value, c)})
                    ELSE ReaderAt(q, a, b, c, i))
<1>1. PICK r \in Readers, d \in Nat :
           /\ r = ReaderAt(p, a, b, c, i) /\ Reaches(doc, r) /\ Level(r, depth, d)
           /\ d = Len(q) /\ q \in Seq(Words) /\ d \in 1..15
           /\ SubSeq(r.path, 1, d) = q /\ CutTo(r, d) = ReaderAt(q, a, b, c, i)
           /\ \A w \in Seq(Words) : Onto(r, w) = ReaderAt(w, a, b, c, i)
  BY GoesIs
<1>2. PICK t : t = <<"leaf", name, value>>
  OBVIOUS
<1>3. t \in Tokens /\ t[1] = "leaf" /\ t[2] = name /\ t[3] = value
  BY <1>2 DEF Tokens, Kinds
<1>4. PICK s : s = ReaderAt(q, a, b, c, i)
  OBVIOUS
<1>5. s \in Readers
  <2>1. a \in Values /\ b \in Values /\ c \in Values /\ i \in SUBSET Items
    BY HoldsTypes
  <2> QED BY <2>1, <1>1, <1>4, ReaderIs
<1>6. s.path = q /\ s.product = a /\ s.name = b /\ s.sequence = c /\ s.items = i
  BY <1>4 DEF ReaderAt
<1>7. Reaches(AddData(doc, depth, <<t>>), ReadToken(s, t))
  BY <1>1, <1>3, <1>4, AddLeaf
<1>8. ReadToken(s, t) =
        IF q = InProduct /\ name = "product" THEN ReaderAt(q, value, b, c, i)
        ELSE IF q = InDevice /\ name = "sequence" THEN ReaderAt(q, a, b, value, i)
        ELSE IF q = InDevice /\ name = "dev_name"
        THEN ReaderAt(q, a, value, 0, i \cup {Item(a, value, "listed", None, 0, 0)})
        ELSE IF name \in Props /\ Len(q) = 7 /\ SubSeq(q, 1, 6) = Fields
        THEN ReaderAt(q, a, b, c, i \cup {Item(a, b, q[7], name, value, c)})
        ELSE ReaderAt(q, a, b, c, i)
  BY <1>3, <1>4, <1>5, <1>6, LeafRead
<1>9. Leaf(name, value) = <<t>>
  BY <1>2 DEF Leaf
<1> QED BY <1>7, <1>8, <1>9

-----------------------------------------------------------------------------
(* Products and devices *)

\* A leaf that is no field of a device is passed over.
LEMMA LeafPassed ==
  ASSUME NEW doc, NEW p, NEW a, NEW b, NEW c, NEW i, Holds(doc, p, a, b, c, i),
         NEW depth, NEW q, Goes(depth, p, q), NEW name \in Words, NEW value \in Values,
         name \notin {"product", "sequence", "dev_name"}, Len(q) # 7
  PROVE  Holds(AddData(doc, depth, Leaf(name, value)), q, a, b, c, i)
<1>1. name # "product" /\ name # "sequence" /\ name # "dev_name"
  OBVIOUS
<1> QED BY <1>1, LeafAdded DEF Holds

ThreeOf(S, t, u, v, w, x, y, z) ==
  /\ x = Append(<<>>, t) /\ y = Append(x, u) /\ z = Append(y, v)
  /\ <<>> \in Seq(S) /\ x \in Seq(S) /\ y \in Seq(S) /\ z \in Seq(S)
  /\ Len(z) = 3 /\ z[3] = v /\ z # <<>>
  /\ <<t>> \o <<u>> \o <<v, w>> \o <<w>> = z \o <<w, w>>

LEMMA OneLonger ==
  ASSUME NEW S, NEW q \in Seq(S), NEW v \in S, NEW n \in Nat, Len(q) = n, NEW p, p = Append(q, v)
  PROVE  p \in Seq(S) /\ Len(p) = n + 1 /\ p[n + 1] = v
BY AppendProperties

LEMMA Three ==
  ASSUME NEW S, NEW t \in S, NEW u \in S, NEW v \in S, NEW w \in S
  PROVE  \E x, y, z : ThreeOf(S, t, u, v, w, x, y, z)
<1>1. PICK x : x = Append(<<>>, t)
  OBVIOUS
<1>2. PICK y : y = Append(x, u)
  OBVIOUS
<1>3. PICK z : z = Append(y, v)
  OBVIOUS
<1>4. <<>> \in Seq(S) /\ Len(<<>>) = 0
  OBVIOUS
<1>a. x \in Seq(S) /\ Len(x) = 0 + 1
  BY <1>1, <1>4, OneLonger
<1>b. x \in Seq(S) /\ Len(x) = 1
  BY <1>a
<1>c. y \in Seq(S) /\ Len(y) = 1 + 1
  <2>1. PICK n \in Nat : n = 1
    OBVIOUS
  <2>2. y \in Seq(S) /\ Len(y) = n + 1
    <3>1. Len(x) = n /\ x \in Seq(S)
      BY <1>b, <2>1
    <3> QED BY ONLY <1>2, <3>1, u \in S, n \in Nat, OneLonger
  <2> QED BY <2>1, <2>2
<1>5. y \in Seq(S) /\ Len(y) = 2
  BY <1>c
<1>d. z \in Seq(S) /\ Len(z) = 2 + 1 /\ z[2 + 1] = v
  <2>1. PICK n \in Nat : n = 2
    OBVIOUS
  <2>2. z \in Seq(S) /\ Len(z) = n + 1 /\ z[n + 1] = v
    <3>1. Len(y) = n /\ y \in Seq(S)
      BY <1>5, <2>1
    <3> QED BY ONLY <1>3, <3>1, v \in S, n \in Nat, OneLonger
  <2> QED BY <2>1, <2>2
<1>e. z \in Seq(S) /\ Len(z) = 3 /\ z[3] = v
  BY <1>d
<1>f. z # <<>>
  BY <1>e
<1>7. x = <<t>>
  BY <1>1
<1>8. y = x \o <<u>>
  BY <1>2, <1>b
<1>9. z = y \o <<v>>
  BY <1>3, <1>5
<1>10. PICK a, b : a = <<v>> /\ b = <<w>>
  OBVIOUS
<1>11. a \in Seq(S) /\ b \in Seq(S) /\ <<v, w>> = a \o b /\ <<w, w>> = b \o b
  <2>1. ASSUME NEW e \in S, NEW f \in S PROVE <<e, f>> = <<e>> \o <<f>>
    <3>1. PICK g : g = <<e>>
      OBVIOUS
    <3>2. g \in Seq(S) /\ <<e, f>> = Append(g, f)
      BY <3>1
    <3>3. g \o <<f>> = Append(g, f)
      BY <3>2
    <3> QED BY <3>1, <3>2, <3>3
  <2>2. <<v, w>> = <<v>> \o <<w>> /\ <<w, w>> = <<w>> \o <<w>>
    BY <2>1
  <2>3. <<v>> \in Seq(S) /\ <<w>> \in Seq(S)
    OBVIOUS
  <2> QED BY <2>2, <2>3, <1>10
<1>12. y \o (a \o b) = (y \o a) \o b
  BY <1>5, <1>11, ConcatAssociative
<1>13. (z \o b) \o b = z \o (b \o b)
  BY <1>e, <1>11, ConcatAssociative
<1>14. <<t>> \o <<u>> \o <<v, w>> \o <<w>> = z \o <<w, w>>
  BY <1>7, <1>8, <1>9, <1>10, <1>11, <1>12, <1>13, Zenon
<1>15. ThreeOf(S, t, u, v, w, x, y, z)
  BY <1>1, <1>2, <1>3, <1>4, <1>b, <1>5, <1>e, <1>f, <1>14, Zenon DEF ThreeOf
<1> QED BY <1>15

LEMMA DocInitHolds ==
  ASSUME NEW method \in Values
  PROVE  Holds(DocInit(method), ListPath, None, None, 0, {})
<1>1. PICK t : t = <<"object", None, 0>>
  OBVIOUS
<1>2. PICK u : u = <<"leaf", "method", method>>
  OBVIOUS
<1>3. PICK v : v = <<"array", "sub_dev", 0>>
  OBVIOUS
<1>4. 0 \in Values /\ None \in Words /\ "method" \in Words /\ "sub_dev" \in Words /\ None \in Values
      /\ {} \in SUBSET Items
  BY PlainValues, PlainWords
<1>5. t \in Tokens /\ t[1] \in {"object", "array"} /\ t[2] = None
  BY <1>1, <1>4 DEF Tokens, Kinds
<1>6. u \in Tokens /\ u[1] = "leaf" /\ u[2] = "method"
  BY <1>2, <1>4 DEF Tokens, Kinds
<1>7. v \in Tokens /\ v[1] \in {"object", "array"} /\ v[1] # "close" /\ v[2] = "sub_dev"
  BY <1>3, <1>4 DEF Tokens, Kinds
<1>8. PICK x, y, z : ThreeOf(Tokens, t, u, v, Close, x, y, z)
  BY <1>5, <1>6, <1>7, CloseIs, Three
<1>11. /\ x = Append(<<>>, t) /\ y = Append(x, u) /\ z = Append(y, v)
       /\ <<>> \in Seq(Tokens) /\ x \in Seq(Tokens) /\ y \in Seq(Tokens) /\ z \in Seq(Tokens)
       /\ Len(z) = 3 /\ z[3] = v /\ z # <<>>
       /\ <<t>> \o <<u>> \o <<v, Close>> \o <<Close>> = z \o <<Close, Close>>
  BY <1>8, Zenon DEF ThreeOf
<1>14. \A p \in Seq(Words) : /\ ReaderAt(p, None, None, 0, {}) \in Readers
                             /\ ReaderAt(p, None, None, 0, {}).path = p
                             /\ \A q \in Seq(Words) : Onto(ReaderAt(p, None, None, 0, {}), q)
                                                      = ReaderAt(q, None, None, 0, {})
  <2> TAKE p \in Seq(Words)
  <2>1. PICK r : r = ReaderAt(p, None, None, 0, {})
    OBVIOUS
  <2>2. r \in Readers /\ r.path = p
    BY <2>1, <1>4, ReaderIs
  <2>3. r.product = None /\ r.name = None /\ r.sequence = 0 /\ r.items = {}
    BY <2>1 DEF ReaderAt
  <2>4. \A q \in Seq(Words) : Onto(r, q) = ReaderAt(q, None, None, 0, {})
    BY <2>2, <2>3, OntoIs
  <2> QED BY <2>1, <2>2, <2>4
<1>15. ReadOf(x) = ReaderAt(RootPath, None, None, 0, {})
  <2>1. ReadOf(x) = ReadToken(NothingRead, t)
    BY <1>5, <1>11, ReadNext, Zenon
  <2>2. <<>> \in Seq(Words) /\ Append(<<>>, None) = RootPath
    BY DEF RootPath
  <2>3. PICK r : r = NothingRead
    OBVIOUS
  <2>4. r \in Readers /\ r.path = <<>> /\ Onto(r, RootPath) = ReaderAt(RootPath, None, None, 0, {})
    BY <2>2, <2>3, <1>14, PathsAre DEF NothingRead
  <2>5. ReadToken(r, t) = Onto(r, Append(<<>>, None))
    BY <2>4, <1>5, Opened
  <2> QED BY <2>1, <2>2, <2>3, <2>4, <2>5
<1>16. ReadOf(y) = ReaderAt(RootPath, None, None, 0, {})
  <2>1. PICK r : r = ReaderAt(RootPath, None, None, 0, {})
    OBVIOUS
  <2>2. r \in Readers /\ r.path = RootPath
    BY <2>1, <1>14, PathsAre
  <2>3. ReadOf(y) = ReadToken(r, u)
    BY <1>6, <1>11, <1>15, <2>1, ReadNext
  <2>4. RootPath # InDevice /\ Len(RootPath) # 7 /\ "method" # "product"
    <3>1. Len(RootPath) = 1 /\ Len(InDevice) = 5
      BY PathsAre, Zenon
    <3> QED BY <3>1
  <2>5. ReadToken(r, u) = r
    BY <2>2, <2>4, <1>6, LeafRead
  <2> QED BY <2>1, <2>3, <2>5
<1>17. ReadOf(z) = ReaderAt(ListPath, None, None, 0, {})
  <2>1. PICK r : r = ReaderAt(RootPath, None, None, 0, {})
    OBVIOUS
  <2>2. r \in Readers /\ r.path = RootPath /\ Onto(r, ListPath) = ReaderAt(ListPath, None, None, 0, {})
    BY <2>1, <1>14, PathsAre
  <2>3. ReadOf(z) = ReadToken(r, v)
    BY <1>7, <1>11, <1>16, <2>1, ReadNext
  <2>4. ReadToken(r, v) = Onto(r, Append(RootPath, "sub_dev"))
    BY <2>2, <1>7, Opened
  <2> QED BY <2>2, <2>3, <2>4, PathsAre
<1>18. DocInit(method) = z \o Closes(2)
  <2>1. DocInit(method) = <<t>> \o <<u>> \o <<v, Close>> \o <<Close>>
    BY <1>1, <1>2, <1>3, Zenon DEF DocInit, Leaf, Array
  <2>2. Closes(2) = <<Close, Close>>
    <3>1. PICK e : e = Closes(2)
      OBVIOUS
    <3>2. e = [i \in 1..2 |-> Close]
      BY <3>1 DEF Closes
    <3>3. e = <<Close, Close>>
      BY <3>2
    <3> QED BY <3>1, <3>3
  <2> QED BY <2>1, <2>2, <1>11, Zenon
<1>19. z # <<>> /\ z[Len(z)] # Close
  <2>1. v # Close
    BY <1>7, CloseIs
  <2> QED BY <2>1, <1>11
<1>20. PICK r : r = ReaderAt(ListPath, None, None, 0, {})
  OBVIOUS
<1>21. r \in Readers /\ r.path = ListPath /\ Len(r.path) = 2
  BY <1>14, <1>20, PathsAre
<1>22. Stands(DocInit(method), z, r)
  <2>1. Len(r.path) \in 1..15
    BY <1>21
  <2>2. DocInit(method) = z \o Closes(Len(r.path))
    BY <1>18, <1>21
  <2> QED BY <2>1, <2>2, <1>11, <1>17, <1>19, <1>20, <1>21, Zenon DEF Stands
<1> QED BY <1>20, <1>22 DEF Holds, Reaches

LEMMA AddProductHolds ==
  ASSUME NEW doc, NEW p, NEW a, NEW b, NEW c, NEW i, Holds(doc, p, a, b, c, i),
         Begins(p, ListPath), NEW product \in Values
  PROVE  Holds(AddProduct(doc, product), ProductPath, product, b, c, i)
<1>1. None \in Words /\ "product" \in Words /\ "device_list" \in Words
  BY PlainWords
<1>2. PICK x : x = AddData(doc, 2, Object(None))
  OBVIOUS
<1>3. Holds(x, InProduct, a, b, c, i)
  <2>1. Goes(2, p, ListPath) /\ Len(ListPath) < 15
    BY PathsAre DEF Goes
  <2>2. Holds(x, Append(ListPath, None), a, b, c, i)
    BY <2>1, <1>1, <1>2, OpenAdded
  <2> QED BY <2>2, PathsAre
<1>4. PICK y : y = AddData(x, 0, Leaf("product", product))
  OBVIOUS
<1>5. Holds(y, InProduct, product, b, c, i)
  <2>1. Goes(0, InProduct, InProduct)
    BY DEF Goes
  <2> QED BY <2>1, <1>1, <1>3, <1>4, LeafAdded DEF Holds
<1>6. Holds(AddData(y, 0, Array("device_list")), Append(InProduct, "device_list"), product, b, c, i)
  <2>1. Goes(0, InProduct, InProduct) /\ Len(InProduct) < 15
    BY PathsAre DEF Goes
  <2> QED BY <2>1, <1>1, <1>5, OpenAdded
<1> QED BY <1>2, <1>4, <1>6 DEF AddProduct, ProductPath

LEMMA AddDeviceHolds ==
  ASSUME NEW doc, NEW p, NEW a, NEW b, NEW c, NEW i, Holds(doc, p, a, b, c, i),
         Begins(p, ProductPath), NEW name \in Values, NEW sequence \in Nat
  PROVE  Holds(AddDevice(doc, name, sequence), InDevice, a, name, sequence,
               i \cup {Item(a, name, "listed", None, 0, 0)})
<1>1. None \in Words /\ "dev_name" \in Words /\ "sequence" \in Words
  BY PlainWords
<1>2. PICK x : x = AddData(doc, 4, Object(None))
  OBVIOUS
<1>3. Holds(x, InDevice, a, b, c, i)
  <2>1. Goes(4, p, ProductPath) /\ Len(ProductPath) < 15
    BY PathsAre DEF Goes
  <2>2. Holds(x, Append(ProductPath, None), a, b, c, i)
    BY <2>1, <1>1, <1>2, OpenAdded
  <2> QED BY <2>2, PathsAre
<1>4. PICK y : y = AddData(x, 0, Leaf("dev_name", name))
  OBVIOUS
<1>5. PICK j : j = i \cup {Item(a, name, "listed", None, 0, 0)}
  OBVIOUS
<1>6. Goes(0, InDevice, InDevice)
  BY DEF Goes
<1>7. Holds(y, InDevice, a, name, 0, j)
  <2>1. "dev_name" # "product" /\ "dev_name" # "sequence"
    OBVIOUS
  <2>2. Reaches(y, ReaderAt(InDevice, a, name, 0, i \cup {Item(a, name, "listed", None, 0, 0)}))
    BY <2>1, <1>1, <1>3, <1>4, <1>6, LeafAdded
  <2> QED BY <2>2, <1>5 DEF Holds
<1>8. CASE sequence > 0
  <2>1. AddDevice(doc, name, sequence) = AddData(y, 0, Leaf("sequence", sequence))
    BY <1>2, <1>4, <1>8 DEF AddDevice
  <2>2. sequence \in Values /\ "sequence" # "product"
    BY PlainValues
  <2>3. Reaches(AddData(y, 0, Leaf("sequence", sequence)), ReaderAt(InDevice, a, name, sequence, j))
    BY <2>2, <1>1, <1>6, <1>7, LeafAdded
  <2> QED BY <2>1, <2>3, <1>5 DEF Holds
<1>9. CASE ~(sequence > 0)
  <2>1. AddDevice(doc, name, sequence) = y
    BY <1>2, <1>4, <1>9 DEF AddDevice
  <2>2. sequence = 0
    BY <1>9
  <2> QED BY <2>1, <2>2, <1>5, <1>7
<1> QED BY <1>8, <1>9

\* Between devices: the product that was opened last is still open, if there was one.
Going(doc, previous, i) ==
  \E p, b, c : /\ Holds(doc, p, previous, b, c, i) /\ Begins(p, ListPath)
               /\ previous # None => Begins(p, ProductPath)

LEMMA GoingFrom ==
  ASSUME NEW doc, NEW a, NEW b, NEW c, NEW i, NEW p,
         p = InDevice \/ \E h \in Words : p = HolderPath(h),
         Holds(doc, p, a, b, c, i)
  PROVE  Going(doc, a, i)
<1>1. Begins(p, InDevice)
  <2>1. CASE p = InDevice
    BY <2>1, PathsAre, BeginsItself
  <2>2. ASSUME NEW h \in Words, p = HolderPath(h) PROVE Begins(p, InDevice)
    <3>1. p = Append(Append(InDevice, "state"), h) /\ p \in Seq(Words) /\ Append(InDevice, "state") \in Seq(Words)
      BY <2>2, PathsAre DEF HolderPath
    <3>2. Begins(p, Append(InDevice, "state"))
      BY <3>1, BeginsItself, BeginsShorter
    <3> QED BY <3>2, PathsAre, PlainWords, BeginsShorter
  <2> QED BY <2>1, <2>2
<1>2. Begins(p, ProductPath)
  BY <1>1, PathsAre, PlainWords, BeginsShorter
<1>3. Begins(p, InProduct)
  BY <1>2, PathsAre, PlainWords, BeginsShorter DEF ProductPath
<1>4. Begins(p, ListPath)
  BY <1>3, PathsAre, PlainWords, BeginsShorter
<1> QED BY <1>2, <1>4 DEF Going

LEMMA RegisteredIs ==
  /\ Registered \in Seq(Devices) /\ Devices = {Registered[k] : k \in 1..Len(Registered)}
  /\ \A d \in Devices : d.product # None /\ d = [product |-> d.product, name |-> d.name]
<1> DEFINE m == Min({Capacity, Len(Declared)})
<1>1. Declared \in Seq([product : STRING, name : STRING])
  BY TableAssumption
<1>3. m \in {Capacity, Len(Declared)} /\ \A y \in {Capacity, Len(Declared)} : m <= y
  <2>1. Capacity \in Nat /\ Len(Declared) \in Nat
    BY <1>1, TableAssumption
  <2>2. \E x \in {Capacity, Len(Declared)} : \A y \in {Capacity, Len(Declared)} : x <= y
    <3>1. CASE Capacity <= Len(Declared)
      BY <2>1, <3>1
    <3>2. CASE Len(Declared) <= Capacity
      BY <2>1, <3>2
    <3> QED BY <2>1, <3>1, <3>2
  <2> QED BY <2>2 DEF Min
<1>4. m \in Nat /\ m <= Len(Declared)
  BY <1>1, <1>3, TableAssumption
<1>5. Registered = SubSeq(Declared, 1, m)
  BY DEF Registered
<1>6. DOMAIN Registered = 1..m /\ (\A k \in 1..m : Registered[k] = Declared[k])
      /\ Registered = [k \in 1..m |-> Declared[k]] /\ Len(Registered) = m
  <2> HIDE DEF m
  <2> QED BY <1>1, <1>4, <1>5
<1>7. Devices = {Registered[k] : k \in 1..Len(Registered)}
  <2> HIDE DEF m
  <2> QED BY <1>6 DEF Devices, Range
<1>8. Registered \in Seq(Devices)
  <2>1. \A k \in 1..m : Registered[k] \in Devices
    <3> HIDE DEF m
    <3> QED BY <1>6, <1>7
  <2> HIDE DEF m
  <2>2. Registered \in [1..m -> Devices]
    BY <2>1, <1>6
  <2> QED BY <2>2, <1>4
<1>9. ASSUME NEW d \in Devices PROVE d.product # None
  <2> HIDE DEF m
  <2>1. PICK k \in 1..m : d = Declared[k]
    BY <1>6, <1>7
  <2>2. k \in DOMAIN Declared
    BY <1>1, <1>4, <2>1
  <2> QED BY <2>1, <2>2, TableAssumption
<1> QED BY <1>7, <1>8, <1>9, DeviceNames

LEMMA ExtendHolds ==
  ASSUME NEW doc, NEW previous, NEW i, Going(doc, previous, i),
         NEW d \in Devices, NEW sequence \in Nat
  PROVE  Holds(Extend(doc, previous, d, sequence), InDevice, d.product, d.name, sequence,
               i \cup {Item(d.product, d.name, "listed", None, 0, 0)})
<1>1. PICK p, b, c : /\ Holds(doc, p, previous, b, c, i) /\ Begins(p, ListPath)
                     /\ previous # None => Begins(p, ProductPath)
  BY DEF Going
<1>2. d.product # None /\ d.product \in Values /\ d.name \in Values
  BY RegisteredIs, PlainValues
<1>3. PICK begun : begun = IF d.product # previous THEN AddProduct(doc, d.product) ELSE doc
  OBVIOUS
<1>4. \E q : Holds(begun, q, d.product, b, c, i) /\ Begins(q, ProductPath)
  <2>1. CASE d.product # previous
    <3>1. Holds(begun, ProductPath, d.product, b, c, i)
      BY <2>1, <1>1, <1>2, <1>3, AddProductHolds
    <3>2. Begins(ProductPath, ProductPath)
      BY PathsAre, BeginsItself
    <3> QED BY <3>1, <3>2
  <2>2. CASE d.product = previous
    BY <2>2, <1>1, <1>2, <1>3
  <2> QED BY <2>1, <2>2
<1>5. PICK q : Holds(begun, q, d.product, b, c, i) /\ Begins(q, ProductPath)
  BY <1>4
<1>6. Extend(doc, previous, d, sequence) = AddDevice(begun, d.name, sequence)
  BY <1>3 DEF Extend
<1> QED BY <1>2, <1>5, <1>6, AddDeviceHolds

\* What completes a document tells nothing of devices.
LEMMA RootLeaf ==
  ASSUME NEW doc, NEW p, NEW a, NEW b, NEW c, NEW i, Holds(doc, p, a, b, c, i),
         Begins(p, RootPath), NEW name \in {"timestamp", "nonce", "metadata"}, NEW value \in Values
  PROVE  Holds(AddData(doc, 1, Leaf(name, value)), RootPath, a, b, c, i)
<1>1. name \in Words /\ name \notin {"product", "sequence", "dev_name"}
  BY PlainWords
<1>2. Goes(1, p, RootPath) /\ Len(RootPath) # 7
  BY PathsAre DEF Goes
<1> QED BY <1>1, <1>2, LeafPassed

LEMMA AddSessionReads ==
  ASSUME NEW doc, NEW p, NEW a, NEW b, NEW c, NEW i, Holds(doc, p, a, b, c, i),
         Begins(p, RootPath)
  PROVE  Reading(AddSession(doc)) = i
<1>1. "passthrough" \in Words /\ "sid" \in Words /\ "sid" \in Values
  BY PlainWords, PlainValues
<1>2. PICK x : x = AddData(doc, 1, Object("passthrough"))
  OBVIOUS
<1>3. PICK q : q = Append(RootPath, "passthrough")
  OBVIOUS
<1>4. q \in Seq(Words) /\ Len(q) = 2
  <2>1. Len(q) = 1 + 1 /\ q \in Seq(Words)
    BY <1>1, <1>3, PathsAre, Longer
  <2> QED BY <2>1
<1>5. Holds(x, q, a, b, c, i)
  <2>1. Goes(1, p, RootPath) /\ Len(RootPath) < 15
    BY PathsAre DEF Goes
  <2> QED BY <2>1, <1>1, <1>2, <1>3, OpenAdded
<1>6. Goes(2, q, q)
  BY <1>4, BeginsItself DEF Goes
<1>7. Holds(AddData(x, 2, Leaf("sid", "sid")), q, a, b, c, i)
  <2>1. "sid" \notin {"product", "sequence", "dev_name"} /\ Len(q) # 7
    BY <1>4
  <2> QED BY <2>1, <1>1, <1>5, <1>6, LeafPassed
<1>8. Reading(AddSession(doc)) = ReaderAt(q, a, b, c, i).items
  BY <1>2, <1>7, ReadingIs DEF AddSession, Holds
<1> QED BY <1>8 DEF ReaderAt

LEMMA GoingFromRoot ==
  ASSUME NEW doc, NEW previous, NEW i, Going(doc, previous, i)
  PROVE  \E p, b, c : Holds(doc, p, previous, b, c, i) /\ Begins(p, RootPath)
BY PathsAre, PlainWords, BeginsShorter DEF Going

\* What is kept from one value of a fold to the next is true of the last.
LEMMA RunHolds ==
  ASSUME NEW S, NEW base, NEW succ, NEW seq, NEW v, RunsTo(v, S, base, succ, seq),
         NEW n \in Nat, n = Len(seq), NEW J, base \in J[0],
         \A k \in 1..n : \A x \in J[k - 1] : succ[<<x, seq[k]>>] \in J[k]
  PROVE  v \in J[n]
<1>1. PICK F : Run(F, S, base, succ, seq) /\ F[n] = v
  BY DEF RunsTo
<1> DEFINE A == {k \in Nat : k <= n => F[k] \in J[k]}
<1>2. 0 \in A
  BY <1>1 DEF Run
<1>3. \A k \in Nat : k \in A => k + 1 \in A
  <2> TAKE k \in Nat
  <2> HAVE k \in A
  <2> SUFFICES ASSUME k + 1 <= n PROVE F[k + 1] \in J[k + 1]
    OBVIOUS
  <2>1. k + 1 \in 1..n /\ (k + 1) - 1 = k /\ F[k] \in J[k]
    OBVIOUS
  <2>2. F[k + 1] = succ[<<F[k], seq[k + 1]>>]
    BY <2>1, <1>1 DEF Run
  <2> QED BY <2>1, <2>2
<1>4. Nat \subseteq A
  <2> HIDE DEF A
  <2> QED BY <1>2, <1>3, SetInduction
<1> QED BY <1>1, <1>4

-----------------------------------------------------------------------------
(* The fields of a device *)

LEMMA PropertiesAre ==
  Properties \in Seq(Props) /\ Props = {Properties[k] : k \in 1..Len(Properties)}
<1>1. PICK n \in Nat : n = Len(Properties) /\ DOMAIN Properties = 1..n
      /\ Properties = [k \in 1..n |-> Properties[k]]
  <2>1. Properties \in Seq(STRING)
    BY TableAssumption
  <2> QED BY <2>1
<1>2. Props = {Properties[k] : k \in 1..n}
  BY <1>1 DEF Props, Range
<1>3. Properties \in [1..n -> Props]
  BY <1>1, <1>2
<1>4. Properties \in Seq(Props)
  BY <1>3
<1> QED BY <1>1, <1>2, <1>4

Told(d, h, p) == IF h = "reported" THEN table[d].value[p] ELSE 0
FieldAdded(acc, p, d, marks, h) ==
  IF p \in marks THEN AddData(acc, 0, Leaf(p, Told(d, h, p))) ELSE acc

OpenWith(p, a, b, c, i) == {doc \in Seq(Tokens) : Holds(doc, p, a, b, c, i)}
OpenAt(p, a, b, c) == {doc \in Seq(Tokens) : \E i : Holds(doc, p, a, b, c, i)}

LEMMA FieldKeeps ==
  ASSUME NEW acc, NEW a, NEW b, NEW c, NEW i, NEW h \in {"reported", "desired"},
         Holds(acc, HolderPath(h), a, b, c, i),
         NEW p \in Props, NEW value \in Values
  PROVE  Holds(AddData(acc, 0, Leaf(p, value)), HolderPath(h), a, b, c,
               i \cup {Item(a, b, h, p, value, c)})
<1>1. h \in Words /\ p \in Words
  BY PlainWords
<1>2. PICK q : q = HolderPath(h)
  OBVIOUS
<1>3. q \in Seq(Words) /\ Len(q) = 7 /\ q[7] = h /\ SubSeq(q, 1, 6) = Fields
  BY <1>1, <1>2, PathsAre
<1>4. Goes(0, q, q)
  BY DEF Goes
<1>5. q # InProduct /\ q # InDevice
  <2>1. Len(InProduct) = 3 /\ Len(InDevice) = 5
    BY PathsAre, Zenon
  <2>2. Len(q) # 3 /\ Len(q) # 5
    BY <1>3
  <2> QED BY <2>1, <2>2, Zenon
<1>6. Reaches(AddData(acc, 0, Leaf(p, value)),
              IF q = InProduct /\ p = "product" THEN ReaderAt(q, value, b, c, i)
              ELSE IF q = InDevice /\ p = "sequence" THEN ReaderAt(q, a, b, value, i)
              ELSE IF q = InDevice /\ p = "dev_name"
              THEN ReaderAt(q, a, value, 0, i \cup {Item(a, value, "listed", None, 0, 0)})
              ELSE IF p \in Props /\ Len(q) = 7 /\ SubSeq(q, 1, 6) = Fields
              THEN ReaderAt(q, a, b, c, i \cup {Item(a, b, q[7], p, value, c)})
              ELSE ReaderAt(q, a, b, c, i))
  BY <1>1, <1>2, <1>4, LeafAdded
<1>7. Reaches(AddData(acc, 0, Leaf(p, value)), ReaderAt(q, a, b, c, i \cup {Item(a, b, h, p, value, c)}))
  BY <1>3, <1>5, <1>6, Zenon
<1> QED BY <1>2, <1>7 DEF Holds

LEMMA ToldIs ==
  ASSUME table \in [Devices -> Entries], NEW d \in Devices, NEW h \in {"reported", "desired"}, NEW p \in Props
  PROVE  Told(d, h, p) \in Values
<1>1. table[d].value[p] \in Int
  BY DEF Entries
<1> QED BY <1>1, PlainValues DEF Told

LEMMA FieldAddedHolds ==
  ASSUME table \in [Devices -> Entries], NEW d \in Devices, NEW h \in {"reported", "desired"},
         NEW marks, NEW p \in Props, NEW acc, NEW a, NEW b, NEW c, NEW i,
         Holds(acc, HolderPath(h), a, b, c, i)
  PROVE  Holds(FieldAdded(acc, p, d, marks, h), HolderPath(h), a, b, c,
               IF p \in marks THEN i \cup {Item(a, b, h, p, Told(d, h, p), c)} ELSE i)
<1>1. Told(d, h, p) \in Values
  BY ToldIs
<1>2. CASE p \in marks
  <2>1. Holds(AddData(acc, 0, Leaf(p, Told(d, h, p))), HolderPath(h), a, b, c,
              i \cup {Item(a, b, h, p, Told(d, h, p), c)})
    BY <1>1, FieldKeeps
  <2> QED BY <1>2, <2>1, Zenon DEF FieldAdded
<1>3. CASE p \notin marks
  BY <1>3, Zenon DEF FieldAdded
<1> QED BY <1>2, <1>3

FieldSteps(S, d, marks, h) == [z \in S \X Props |-> FieldAdded(z[1], z[2], d, marks, h)]

FieldsFold(base, d, marks, h) ==
  FoldLeft(LAMBDA acc, p : FieldAdded(acc, p, d, marks, h), base, Properties)

LEMMA FieldsRun ==
  ASSUME NEW d, NEW marks, NEW h, NEW S, NEW base \in S,
         \A v \in S : \A p \in Props : FieldAdded(v, p, d, marks, h) \in S
  PROVE  RunsTo(FieldsFold(base, d, marks, h), S, base, FieldSteps(S, d, marks, h), Properties)
<1> DEFINE D == SUBSET (DOMAIN Properties)
           steps == FieldSteps(S, d, marks, h)
<1>0. Properties \in Seq(Props)
  BY PropertiesAre
<1>n. PICK n \in Nat : n = Len(Properties) /\ DOMAIN Properties = 1..n
  BY <1>0, LenProperties
<1>1. steps \in [S \X Props -> S] /\ \A v \in S : \A p \in Props : steps[<<v, p>>] = FieldAdded(v, p, d, marks, h)
  BY DEF FieldSteps
<1> HIDE DEF steps
<1>2. PICK g : FoldsSets(g, S, base, steps, Properties)
  BY <1>0, <1>1, FoldExists
<1>3. \A s \in D : s # {} => Max(s) \in s /\ Properties[Max(s)] \in Props /\ s \ {Max(s)} \in D
  <2> TAKE s \in D
  <2> HAVE s # {}
  <2>1. s \in SUBSET (1..n)
    BY <1>n
  <2>2. Max(s) \in s
    BY <2>1, MaxOfInitial
  <2> QED BY <2>2, <1>0, <1>n, ElementOfSeq
<1> DEFINE iter == CHOOSE f : f = [s \in D |-> IF s = {} THEN base
                                     ELSE FieldAdded(f[s \ {Max(s)}], Properties[Max(s)], d, marks, h)]
<1>4. g = [s \in D |-> IF s = {} THEN base ELSE FieldAdded(g[s \ {Max(s)}], Properties[Max(s)], d, marks, h)]
  <2>1. ASSUME NEW s \in D, s # {} PROVE g[s] = FieldAdded(g[s \ {Max(s)}], Properties[Max(s)], d, marks, h)
    <3>1. g[s \ {Max(s)}] \in S /\ g[s] = steps[<<g[s \ {Max(s)}], Properties[Max(s)]>>]
      BY <2>1, <1>2, <1>3 DEF FoldsSets
    <3> QED BY <3>1, <2>1, <1>1, <1>3
  <2>2. g[{}] = base
    BY <1>2 DEF FoldsSets
  <2>3. g = [s \in D |-> g[s]]
    BY <1>2 DEF FoldsSets
  <2> QED BY <2>1, <2>2, <2>3
<1>5. iter = [s \in D |-> IF s = {} THEN base
                          ELSE FieldAdded(iter[s \ {Max(s)}], Properties[Max(s)], d, marks, h)]
  BY <1>4
<1>6. FieldsFold(base, d, marks, h) = iter[DOMAIN Properties]
  BY DEF FieldsFold, FoldLeft, MapThenFoldSet
<1> HIDE DEF iter
<1> DEFINE V == S \cup {iter[s] : s \in D}
           succ == [z \in V \X Props |-> FieldAdded(z[1], z[2], d, marks, h)]
<1>7. iter = [s \in D |-> IF s = {} THEN base ELSE succ[<<iter[s \ {Max(s)}], Properties[Max(s)]>>]]
  <2>1. ASSUME NEW s \in D, s # {} PROVE iter[s] = succ[<<iter[s \ {Max(s)}], Properties[Max(s)]>>]
    BY <2>1, <1>3, <1>5
  <2>2. iter[{}] = base /\ iter = [s \in D |-> iter[s]]
    BY <1>5
  <2> QED BY <2>1, <2>2
<1>8. ASSUME NEW x \in S, NEW p \in Props
      PROVE  succ[<<x, p>>] = FieldAdded(x, p, d, marks, h) /\ succ[<<x, p>>] \in S
  <2>1. x \in V
    OBVIOUS
  <2>2. succ[<<x, p>>] = FieldAdded(x, p, d, marks, h)
    <3> HIDE DEF V
    <3> QED BY <2>1
  <2> HIDE DEF succ
  <2> QED BY <2>2
<1>9. RunsTo(iter[DOMAIN Properties], S, base, succ, Properties)
  <2> HIDE DEF succ
  <2> QED BY <1>0, <1>7, <1>8, FoldRuns
<1>10. Agree(succ, steps, S, Props)
  BY <1>1, <1>8 DEF Agree
<1> HIDE DEF succ
<1>11. RunsTo(iter[DOMAIN Properties], S, base, steps, Properties)
  BY <1>0, <1>9, <1>10, RunsByOther
<1> QED BY <1>6, <1>11 DEF steps

\* The items of the first n properties that are marked.
ToldOf(n, a, b, c, d, marks, h) ==
  {Item(a, b, h, p, Told(d, h, p), c) : p \in {q \in marks : \E k \in 1..n : Properties[k] = q}}

LEMMA AddFieldsHolds ==
  ASSUME table \in [Devices -> Entries], NEW d \in Devices, NEW h \in {"reported", "desired"},
         NEW marks \in SUBSET Props, NEW doc, NEW a, NEW b, NEW c, NEW i,
         Holds(doc, InDevice, a, b, c, i)
  PROVE  Holds(AddFields(doc, d, marks, h), HolderPath(h), a, b, c,
               i \cup {Item(a, b, h, p, Told(d, h, p), c) : p \in marks})
<1>0. h \in Words /\ "state" \in Words
  BY PlainWords
<1>1. PICK x : x = AddData(doc, 0, Object("state"))
  OBVIOUS
<1>2. Holds(x, Fields, a, b, c, i)
  <2>1. Goes(0, InDevice, InDevice) /\ Len(InDevice) < 15
    BY PathsAre DEF Goes
  <2>2. Holds(x, Append(InDevice, "state"), a, b, c, i)
    BY <2>1, <1>0, <1>1, OpenAdded
  <2> QED BY <2>2, PathsAre
<1>3. PICK q : q = HolderPath(h)
  OBVIOUS
<1>4. PICK base : base = AddStateHolder(x, h)
  OBVIOUS
<1>5. Holds(base, q, a, b, c, i)
  <2>1. Goes(6, Fields, Fields) /\ Len(Fields) < 15
    <3>1. Len(Fields) = 6 /\ Begins(Fields, Fields)
      BY PathsAre, BeginsItself
    <3> QED BY <3>1 DEF Goes
  <2>2. Holds(AddData(x, 6, Object(h)), Append(Fields, h), a, b, c, i)
    BY <2>1, <1>0, <1>2, OpenAdded
  <2> QED BY <2>2, <1>3, <1>4 DEF AddStateHolder, HolderPath
<1>6. PICK S : S = OpenAt(q, a, b, c)
  OBVIOUS
<1>7. ASSUME NEW acc, NEW j, Holds(acc, q, a, b, c, j) PROVE acc \in S
  <2>1. acc \in Seq(Tokens)
    BY <1>7, HoldsTypes
  <2> QED BY <2>1, <1>6, <1>7 DEF OpenAt
<1>8. \A v \in S : \A p \in Props : FieldAdded(v, p, d, marks, h) \in S
  <2> TAKE v \in S
  <2> TAKE p \in Props
  <2>1. PICK j : Holds(v, q, a, b, c, j)
    BY <1>6 DEF OpenAt
  <2>2. Holds(FieldAdded(v, p, d, marks, h), q, a, b, c,
              IF p \in marks THEN j \cup {Item(a, b, h, p, Told(d, h, p), c)} ELSE j)
    BY <2>1, <1>3, FieldAddedHolds
  <2> QED BY <2>2, <1>7
<1>9. PICK n \in Nat : n = Len(Properties)
  BY PropertiesAre, LenProperties
<1> DEFINE Read(k) == i \cup ToldOf(k, a, b, c, d, marks, h)
           J == [k \in 0..n |-> OpenWith(q, a, b, c, Read(k))]
           v == FieldsFold(base, d, marks, h)
<1>10. RunsTo(v, S, base, FieldSteps(S, d, marks, h), Properties)
  BY <1>5, <1>7, <1>8, FieldsRun
<1> HIDE DEF v
<1>11. base \in J[0]
  <2>1. Read(0) = i
    BY DEF ToldOf
  <2>2. base \in Seq(Tokens)
    BY <1>5, HoldsTypes
  <2> HIDE DEF Read
  <2> QED BY <2>1, <2>2, <1>5 DEF OpenWith
<1>12. ASSUME NEW k \in 1..n, NEW acc \in J[k - 1]
       PROVE  FieldSteps(S, d, marks, h)[<<acc, Properties[k]>>] \in J[k]
  <2>0. k - 1 \in 0..n /\ k \in 0..n
    OBVIOUS
  <2>1. PICK p : p = Properties[k]
    OBVIOUS
  <2>2. p \in Props
    BY <2>1, <1>9, PropertiesAre, ElementOfSeq
  <2>3. Holds(acc, q, a, b, c, Read(k - 1))
    <3> HIDE DEF Read
    <3> QED BY <2>0 DEF OpenWith
  <2>4. Holds(FieldAdded(acc, p, d, marks, h), q, a, b, c,
              IF p \in marks THEN Read(k - 1) \cup {Item(a, b, h, p, Told(d, h, p), c)} ELSE Read(k - 1))
    <3> HIDE DEF Read, J
    <3> QED BY <2>2, <2>3, <1>3, FieldAddedHolds
  <2>5. Read(k) = IF p \in marks THEN Read(k - 1) \cup {Item(a, b, h, p, Told(d, h, p), c)} ELSE Read(k - 1)
    <3>1. \A y \in marks : (\E m \in 1..k : Properties[m] = y) <=> (y = p \/ \E m \in 1..k - 1 : Properties[m] = y)
      <4>1. \A m \in 1..k : m = k \/ m \in 1..k - 1
        OBVIOUS
      <4>2. \A m \in 1..k - 1 : m \in 1..k
        OBVIOUS
      <4>3. k \in 1..k
        OBVIOUS
      <4> QED BY <4>1, <4>2, <4>3, <2>1
    <3> HIDE DEF J
    <3> QED BY <3>1 DEF ToldOf
  <2>6. FieldAdded(acc, p, d, marks, h) \in Seq(Tokens) /\ acc \in S
    <3> HIDE DEF Read, J
    <3> QED BY <2>3, <2>4, <1>7, HoldsTypes
  <2>7. FieldSteps(S, d, marks, h)[<<acc, p>>] = FieldAdded(acc, p, d, marks, h)
    BY <2>2, <2>6 DEF FieldSteps
  <2>8. FieldAdded(acc, p, d, marks, h) \in OpenWith(q, a, b, c, Read(k))
    <3> HIDE DEF Read, J
    <3> QED BY <2>4, <2>5, <2>6 DEF OpenWith
  <2> HIDE DEF Read
  <2> QED BY <2>0, <2>1, <2>7, <2>8
<1>13. v \in J[n]
  <2> HIDE DEF J
  <2> QED BY <1>9, <1>10, <1>11, <1>12, RunHolds
<1>14. Holds(v, q, a, b, c, Read(n))
  <2> HIDE DEF Read
  <2> QED BY <1>13, <1>9 DEF OpenWith
<1>15. Read(n) = i \cup {Item(a, b, h, p, Told(d, h, p), c) : p \in marks}
  <2>1. \A y \in marks : \E m \in 1..n : Properties[m] = y
    BY <1>9, PropertiesAre
  <2> QED BY <2>1 DEF ToldOf
<1>16. AddFields(doc, d, marks, h) = v
  BY <1>1, <1>4, Zenon DEF AddFields, v, FieldsFold, FieldAdded, Told
<1> QED BY <1>3, <1>14, <1>15, <1>16

-----------------------------------------------------------------------------
(* Reports and confirmations *)

Sent(d, h) == IF h = "desired" THEN table[d].sequence ELSE 0
Said(d, h) ==
  IF Marks(d, h) = {} THEN {}
  ELSE {Item(d.product, d.name, "listed", None, 0, 0)}
       \cup {Item(d.product, d.name, h, p, Told(d, h, p), Sent(d, h)) : p \in Marks(d, h)}
StateAdded(acc, d, h) ==
  IF d \notin Marked(h) THEN acc
  ELSE [doc |-> AddFields(Extend(acc.doc, acc.previous, d,
                                 IF h = "desired" THEN table[d].sequence ELSE 0),
                          d, Marks(d, h), h),
        previous |-> d.product]
StateFold(base, h) == FoldLeft(LAMBDA acc, d : StateAdded(acc, d, h), base, Registered)
StateSteps(S, h) == [z \in S \X Devices |-> StateAdded(z[1], z[2], h)]

Drafts == [doc : Seq(Tokens), previous : Values]

LEMMA GoingTypes ==
  ASSUME NEW doc, NEW previous, NEW i, Going(doc, previous, i)
  PROVE  [doc |-> doc, previous |-> previous] \in Drafts
<1>1. doc \in Seq(Tokens) /\ previous \in Values
  BY HoldsTypes DEF Going
<1> QED BY <1>1 DEF Drafts

LEMMA StateAddedGoes ==
  ASSUME table \in [Devices -> Entries], NEW d \in Devices, NEW h \in {"reported", "desired"},
         NEW acc \in Drafts, NEW i, Going(acc.doc, acc.previous, i)
  PROVE  /\ StateAdded(acc, d, h) \in Drafts
         /\ Going(StateAdded(acc, d, h).doc, StateAdded(acc, d, h).previous, i \cup Said(d, h))
<1>1. d \in Marked(h) <=> Marks(d, h) # {}
  BY DEF Marked
<1>2. Sent(d, h) \in Nat /\ Marks(d, h) \in SUBSET Props
  BY DEF Sent, Marks, Entries
<1>3. CASE d \notin Marked(h)
  <2>1. StateAdded(acc, d, h) = acc /\ Said(d, h) = {}
    BY <1>1, <1>3 DEF StateAdded, Said
  <2>2. i \cup Said(d, h) = i
    BY <2>1
  <2> QED BY <2>1, <2>2
<1>4. CASE d \in Marked(h)
  <2>1. PICK x : x = Extend(acc.doc, acc.previous, d, Sent(d, h))
    OBVIOUS
  <2>2. PICK j : j = i \cup {Item(d.product, d.name, "listed", None, 0, 0)}
    OBVIOUS
  <2>3. Holds(x, InDevice, d.product, d.name, Sent(d, h), j)
    BY <1>2, <2>1, <2>2, ExtendHolds
  <2>4. PICK y : y = AddFields(x, d, Marks(d, h), h)
    OBVIOUS
  <2>5. PICK k : k = j \cup {Item(d.product, d.name, h, p, Told(d, h, p), Sent(d, h)) : p \in Marks(d, h)}
    OBVIOUS
  <2>6. Holds(y, HolderPath(h), d.product, d.name, Sent(d, h), k)
    BY <1>2, <2>3, <2>4, <2>5, AddFieldsHolds
  <2>7. Going(y, d.product, k)
    BY <2>6, PlainWords, GoingFrom
  <2>8. StateAdded(acc, d, h) = [doc |-> y, previous |-> d.product]
    BY <1>4, <2>1, <2>4, Zenon DEF StateAdded, Sent
  <2>9. k = i \cup Said(d, h)
    BY <1>1, <1>4, <2>2, <2>5, Zenon DEF Said
  <2>10. StateAdded(acc, d, h) \in Drafts
    BY <2>7, <2>8, GoingTypes
  <2>11. StateAdded(acc, d, h).doc = y /\ StateAdded(acc, d, h).previous = d.product
    BY <2>8
  <2> QED BY <2>7, <2>9, <2>10, <2>11
<1> QED BY <1>3, <1>4

LEMMA StateRuns ==
  ASSUME NEW h, NEW S, NEW base \in S,
         \A v \in S : \A d \in Devices : StateAdded(v, d, h) \in S
  PROVE  RunsTo(StateFold(base, h), S, base, StateSteps(S, h), Registered)
<1> DEFINE D == SUBSET (DOMAIN Registered)
           steps == StateSteps(S, h)
<1>0. Registered \in Seq(Devices)
  BY RegisteredIs
<1>n. PICK n \in Nat : n = Len(Registered) /\ DOMAIN Registered = 1..n
  BY <1>0, LenProperties
<1>1. steps \in [S \X Devices -> S] /\ \A v \in S : \A d \in Devices : steps[<<v, d>>] = StateAdded(v, d, h)
  BY DEF StateSteps
<1> HIDE DEF steps
<1>2. PICK g : FoldsSets(g, S, base, steps, Registered)
  BY <1>0, <1>1, FoldExists
<1>3. \A s \in D : s # {} => Max(s) \in s /\ Registered[Max(s)] \in Devices /\ s \ {Max(s)} \in D
  <2> TAKE s \in D
  <2> HAVE s # {}
  <2>1. s \in SUBSET (1..n)
    BY <1>n
  <2>2. Max(s) \in s
    BY <2>1, MaxOfInitial
  <2> QED BY <2>2, <1>0, <1>n, ElementOfSeq
<1> DEFINE iter == CHOOSE f : f = [s \in D |-> IF s = {} THEN base
                                     ELSE StateAdded(f[s \ {Max(s)}], Registered[Max(s)], h)]
<1>4. g = [s \in D |-> IF s = {} THEN base ELSE StateAdded(g[s \ {Max(s)}], Registered[Max(s)], h)]
  <2>1. ASSUME NEW s \in D, s # {} PROVE g[s] = StateAdded(g[s \ {Max(s)}], Registered[Max(s)], h)
    <3>1. g[s \ {Max(s)}] \in S /\ g[s] = steps[<<g[s \ {Max(s)}], Registered[Max(s)]>>]
      BY <2>1, <1>2, <1>3 DEF FoldsSets
    <3> QED BY <3>1, <2>1, <1>1, <1>3
  <2>2. g[{}] = base
    BY <1>2 DEF FoldsSets
  <2>3. g = [s \in D |-> g[s]]
    BY <1>2 DEF FoldsSets
  <2> QED BY <2>1, <2>2, <2>3
<1>5. iter = [s \in D |-> IF s = {} THEN base
                          ELSE StateAdded(iter[s \ {Max(s)}], Registered[Max(s)], h)]
  BY <1>4
<1>6. StateFold(base, h) = iter[DOMAIN Registered]
  BY DEF StateFold, FoldLeft, MapThenFoldSet
<1> HIDE DEF iter
<1> DEFINE V == S \cup {iter[s] : s \in D}
           succ == [z \in V \X Devices |-> StateAdded(z[1], z[2], h)]
<1>7. iter = [s \in D |-> IF s = {} THEN base ELSE succ[<<iter[s \ {Max(s)}], Registered[Max(s)]>>]]
  <2>1. ASSUME NEW s \in D, s # {} PROVE iter[s] = succ[<<iter[s \ {Max(s)}], Registered[Max(s)]>>]
    BY <2>1, <1>3, <1>5
  <2>2. iter[{}] = base /\ iter = [s \in D |-> iter[s]]
    BY <1>5
  <2> QED BY <2>1, <2>2
<1>8. ASSUME NEW x \in S, NEW d \in Devices
      PROVE  succ[<<x, d>>] = StateAdded(x, d, h) /\ succ[<<x, d>>] \in S
  <2>1. x \in V
    OBVIOUS
  <2>2. succ[<<x, d>>] = StateAdded(x, d, h)
    <3> HIDE DEF V
    <3> QED BY <2>1
  <2> HIDE DEF succ
  <2> QED BY <2>2
<1>9. RunsTo(iter[DOMAIN Registered], S, base, succ, Registered)
  <2> HIDE DEF succ
  <2> QED BY <1>0, <1>7, <1>8, FoldRuns
<1>10. Agree(succ, steps, S, Devices)
  BY <1>1, <1>8 DEF Agree
<1> HIDE DEF succ
<1>11. RunsTo(iter[DOMAIN Registered], S, base, steps, Registered)
  BY <1>0, <1>9, <1>10, RunsByOther
<1> QED BY <1>6, <1>11 DEF steps

GoesOn(i) == {z \in Drafts : Going(z.doc, z.previous, i)}
Beginning(method) == [doc |-> DocInit(method), previous |-> None]

LEMMA BeginningGoes ==
  ASSUME NEW method \in Values
  PROVE  Beginning(method) \in GoesOn({})
<1>1. Holds(DocInit(method), ListPath, None, None, 0, {})
  BY DocInitHolds
<1>2. Begins(ListPath, ListPath)
  BY PathsAre, BeginsItself
<1>3. Going(DocInit(method), None, {})
  BY <1>1, <1>2 DEF Going
<1>4. PICK z : z = Beginning(method)
  OBVIOUS
<1>5. z.doc = DocInit(method) /\ z.previous = None /\ z \in Drafts
  BY <1>3, <1>4, GoingTypes DEF Beginning
<1> QED BY <1>3, <1>4, <1>5 DEF GoesOn

SaidUpTo(k, h) == UNION {Said(Registered[m], h) : m \in 1..k}

\* A report and a confirmation read as what they are to say.
LEMMA StateDocReads ==
  ASSUME table \in [Devices -> Entries], NEW h \in {"reported", "desired"}
  PROVE  Reading(StateDoc(h)) = Wanted(h)
<1>1. PICK n \in Nat : n = Len(Registered)
  BY RegisteredIs, LenProperties
<1>2. PICK base : base = Beginning(h)
  OBVIOUS
<1>3. base \in GoesOn({})
  BY <1>2, PlainWords, PlainValues, BeginningGoes
<1>4. PICK S : S = {z \in Drafts : \E i : Going(z.doc, z.previous, i)}
  OBVIOUS
<1>5. \A v \in S : \A d \in Devices : StateAdded(v, d, h) \in S
  <2> TAKE v \in S
  <2> TAKE d \in Devices
  <2>1. PICK i : v \in Drafts /\ Going(v.doc, v.previous, i)
    BY <1>4
  <2> QED BY <2>1, <1>4, StateAddedGoes
<1>6. base \in S
  BY <1>3, <1>4 DEF GoesOn
<1> DEFINE v == StateFold(base, h)
           J == [k \in 0..n |-> GoesOn(SaidUpTo(k, h))]
<1>7. RunsTo(v, S, base, StateSteps(S, h), Registered)
  BY <1>5, <1>6, StateRuns
<1> HIDE DEF v
<1>8. base \in J[0]
  <2>1. SaidUpTo(0, h) = {}
    BY DEF SaidUpTo
  <2> QED BY <2>1, <1>3
<1>9. ASSUME NEW k \in 1..n, NEW acc \in J[k - 1]
      PROVE  StateSteps(S, h)[<<acc, Registered[k]>>] \in J[k]
  <2>0. k - 1 \in 0..n /\ k \in 0..n
    OBVIOUS
  <2>1. PICK d : d = Registered[k]
    OBVIOUS
  <2>2. d \in Devices
    BY <2>1, <1>1, RegisteredIs, ElementOfSeq
  <2>3. acc \in GoesOn(SaidUpTo(k - 1, h))
    BY <2>0
  <2>4. acc \in Drafts /\ Going(acc.doc, acc.previous, SaidUpTo(k - 1, h))
    BY <2>3 DEF GoesOn
  <2>5. /\ StateAdded(acc, d, h) \in Drafts
        /\ Going(StateAdded(acc, d, h).doc, StateAdded(acc, d, h).previous, SaidUpTo(k - 1, h) \cup Said(d, h))
    BY <2>2, <2>4, StateAddedGoes
  <2>6. SaidUpTo(k, h) = SaidUpTo(k - 1, h) \cup Said(d, h)
    <3>1. \A m \in 1..k : m = k \/ m \in 1..k - 1
      OBVIOUS
    <3>2. \A m \in 1..k - 1 : m \in 1..k
      OBVIOUS
    <3>3. k \in 1..k
      OBVIOUS
    <3> QED BY <3>1, <3>2, <3>3, <2>1 DEF SaidUpTo
  <2>7. StateAdded(acc, d, h) \in GoesOn(SaidUpTo(k, h))
    BY <2>5, <2>6 DEF GoesOn
  <2>8. acc \in S
    BY <2>4, <1>4
  <2>9. StateSteps(S, h)[<<acc, d>>] = StateAdded(acc, d, h)
    BY <2>2, <2>8 DEF StateSteps
  <2> QED BY <2>0, <2>1, <2>7, <2>9
<1>10. v \in J[n]
  <2> HIDE DEF J
  <2> QED BY <1>1, <1>7, <1>8, <1>9, RunHolds
<1>11. Going(v.doc, v.previous, SaidUpTo(n, h))
  BY <1>10 DEF GoesOn
<1>12. Reading(AddSession(v.doc)) = SaidUpTo(n, h)
  BY <1>11, GoingFromRoot, AddSessionReads
<1>13. StateDoc(h) = AddSession(v.doc)
  BY <1>2, Zenon DEF StateDoc, v, StateFold, StateAdded, Beginning
<1>14. SaidUpTo(n, h) = UNION {Said(d, h) : d \in Devices}
  <2>1. Devices = {Registered[k] : k \in 1..n}
    BY <1>1, RegisteredIs
  <2> QED BY <2>1 DEF SaidUpTo
<1>15. UNION {Said(d, h) : d \in Devices} = Wanted(h)
  <2>1. ASSUME NEW y \in UNION {Said(d, h) : d \in Devices} PROVE y \in Wanted(h)
    <3>1. PICK d \in Devices : y \in Said(d, h)
      BY <2>1
    <3>2. CASE y = Item(d.product, d.name, "listed", None, 0, 0)
      <4>1. d \in Marked(h)
        BY <3>1 DEF Said, Marked
      <4> QED BY <4>1, <3>2 DEF Wanted, Listed
    <3>3. CASE \E p \in Marks(d, h) : y = Item(d.product, d.name, h, p, Told(d, h, p), Sent(d, h))
      BY <3>3 DEF Wanted, Told, Sent
    <3> QED BY <3>1, <3>2, <3>3 DEF Said
  <2>2. ASSUME NEW y \in Wanted(h) PROVE y \in UNION {Said(d, h) : d \in Devices}
    <3>1. CASE y \in Listed(Marked(h))
      <4>1. PICK d \in Marked(h) : y = Item(d.product, d.name, "listed", None, 0, 0)
        BY <3>1 DEF Listed
      <4>2. d \in Devices /\ Marks(d, h) # {}
        BY DEF Marked
      <4> QED BY <4>1, <4>2 DEF Said
    <3>2. CASE y \notin Listed(Marked(h))
      <4>1. PICK d \in Devices : \E p \in Marks(d, h) : y = Item(d.product, d.name, h, p, Told(d, h, p), Sent(d, h))
        BY <2>2, <3>2 DEF Wanted, Told, Sent
      <4>2. y \in Said(d, h)
        BY <4>1 DEF Said
      <4> QED BY <4>2
    <3> QED BY <3>1, <3>2
  <2> QED BY <2>1, <2>2
<1> QED BY <1>12, <1>13, <1>14, <1>15

-----------------------------------------------------------------------------
(* The documents that list all devices *)

Signed(doc, m) == IF m = "online" THEN AddData(doc, 0, Leaf("sign", "sign")) ELSE doc
ListAdded(acc, d, m) ==
  [doc |-> IF m = "online" THEN AddData(Extend(acc.doc, acc.previous, d, 0), 0, Leaf("sign", "sign"))
           ELSE Extend(acc.doc, acc.previous, d, 0),
   previous |-> d.product]
ListFold(base, m) == FoldLeft(LAMBDA acc, d : ListAdded(acc, d, m), base, Registered)
ListSteps(S, m) == [z \in S \X Devices |-> ListAdded(z[1], z[2], m)]

LEMMA ListAddedGoes ==
  ASSUME NEW d \in Devices, NEW m, NEW acc \in Drafts, NEW i, Going(acc.doc, acc.previous, i)
  PROVE  /\ ListAdded(acc, d, m) \in Drafts
         /\ Going(ListAdded(acc, d, m).doc, ListAdded(acc, d, m).previous,
                  i \cup {Item(d.product, d.name, "listed", None, 0, 0)})
<1>1. PICK x : x = Extend(acc.doc, acc.previous, d, 0)
  OBVIOUS
<1>2. PICK j : j = i \cup {Item(d.product, d.name, "listed", None, 0, 0)}
  OBVIOUS
<1>3. Holds(x, InDevice, d.product, d.name, 0, j)
  BY <1>1, <1>2, ExtendHolds
<1>4. PICK y : y = Signed(x, m)
  OBVIOUS
<1>5. Holds(y, InDevice, d.product, d.name, 0, j)
  <2>1. CASE m = "online"
    <3>1. "sign" \in Words /\ "sign" \in Values /\ "sign" \notin {"product", "sequence", "dev_name"}
      BY PlainWords, PlainValues
    <3>2. Goes(0, InDevice, InDevice) /\ Len(InDevice) # 7
      BY PathsAre DEF Goes
    <3>3. Holds(AddData(x, 0, Leaf("sign", "sign")), InDevice, d.product, d.name, 0, j)
      BY <3>1, <3>2, <1>3, LeafPassed
    <3> QED BY <3>3, <2>1, <1>4, Zenon DEF Signed
  <2>2. CASE m # "online"
    BY <2>2, <1>3, <1>4, Zenon DEF Signed
  <2> QED BY <2>1, <2>2
<1>6. Going(y, d.product, j)
  BY <1>5, GoingFrom
<1>7. ListAdded(acc, d, m) = [doc |-> y, previous |-> d.product]
  BY <1>1, <1>4, Zenon DEF ListAdded, Signed
<1>8. ListAdded(acc, d, m) \in Drafts
  BY <1>6, <1>7, GoingTypes
<1>9. ListAdded(acc, d, m).doc = y /\ ListAdded(acc, d, m).previous = d.product
  BY <1>7
<1> QED BY <1>2, <1>6, <1>8, <1>9

Endings == {"timestamp", "nonce", "metadata"}
EndAdded(doc, field) == AddData(doc, 1, Leaf(field, 1))
EndFold(base, m) == FoldLeft(LAMBDA doc, field : EndAdded(doc, field), base, Ending(m))
EndSteps(S) == [z \in S \X Endings |-> EndAdded(z[1], z[2])]

LEMMA EndingIs == \A m \in {"online", "get", "stopped"} : Ending(m) \in Seq(Endings)
<1>1. "timestamp" \in Endings /\ "nonce" \in Endings /\ "metadata" \in Endings
  BY DEF Endings
<1>2. /\ Ending("online") = <<"timestamp", "nonce">> /\ Ending("get") = <<"metadata">>
      /\ Ending("stopped") = <<"timestamp">>
  BY DEF Ending
<1>3. ASSUME NEW a \in Endings, NEW b \in Endings
      PROVE  <<a>> \in Seq(Endings) /\ <<a, b>> \in Seq(Endings)
  OBVIOUS
<1> QED BY <1>1, <1>2, <1>3

LEMMA ListRuns ==
  ASSUME NEW m, NEW S, NEW base \in S,
         \A v \in S : \A d \in Devices : ListAdded(v, d, m) \in S
  PROVE  RunsTo(ListFold(base, m), S, base, ListSteps(S, m), Registered)
<1> DEFINE D == SUBSET (DOMAIN Registered)
           steps == ListSteps(S, m)
<1>0. Registered \in Seq(Devices)
  BY RegisteredIs
<1>n. PICK n \in Nat : n = Len(Registered) /\ DOMAIN Registered = 1..n
  BY <1>0, LenProperties
<1>1. steps \in [S \X Devices -> S] /\ \A v \in S : \A d \in Devices : steps[<<v, d>>] = ListAdded(v, d, m)
  BY DEF ListSteps
<1> HIDE DEF steps
<1>2. PICK g : FoldsSets(g, S, base, steps, Registered)
  BY <1>0, <1>1, FoldExists
<1>3. \A s \in D : s # {} => Max(s) \in s /\ Registered[Max(s)] \in Devices /\ s \ {Max(s)} \in D
  <2> TAKE s \in D
  <2> HAVE s # {}
  <2>1. s \in SUBSET (1..n)
    BY <1>n
  <2>2. Max(s) \in s
    BY <2>1, MaxOfInitial
  <2> QED BY <2>2, <1>0, <1>n, ElementOfSeq
<1> DEFINE iter == CHOOSE f : f = [s \in D |-> IF s = {} THEN base
                                     ELSE ListAdded(f[s \ {Max(s)}], Registered[Max(s)], m)]
<1>4. g = [s \in D |-> IF s = {} THEN base ELSE ListAdded(g[s \ {Max(s)}], Registered[Max(s)], m)]
  <2>1. ASSUME NEW s \in D, s # {} PROVE g[s] = ListAdded(g[s \ {Max(s)}], Registered[Max(s)], m)
    <3>1. g[s \ {Max(s)}] \in S /\ g[s] = steps[<<g[s \ {Max(s)}], Registered[Max(s)]>>]
      BY <2>1, <1>2, <1>3 DEF FoldsSets
    <3> QED BY <3>1, <2>1, <1>1, <1>3
  <2>2. g[{}] = base
    BY <1>2 DEF FoldsSets
  <2>3. g = [s \in D |-> g[s]]
    BY <1>2 DEF FoldsSets
  <2> QED BY <2>1, <2>2, <2>3
<1>5. iter = [s \in D |-> IF s = {} THEN base
                          ELSE ListAdded(iter[s \ {Max(s)}], Registered[Max(s)], m)]
  BY <1>4
<1>6. ListFold(base, m) = iter[DOMAIN Registered]
  BY DEF ListFold, FoldLeft, MapThenFoldSet
<1> HIDE DEF iter
<1> DEFINE V == S \cup {iter[s] : s \in D}
           succ == [z \in V \X Devices |-> ListAdded(z[1], z[2], m)]
<1>7. iter = [s \in D |-> IF s = {} THEN base ELSE succ[<<iter[s \ {Max(s)}], Registered[Max(s)]>>]]
  <2>1. ASSUME NEW s \in D, s # {} PROVE iter[s] = succ[<<iter[s \ {Max(s)}], Registered[Max(s)]>>]
    BY <2>1, <1>3, <1>5
  <2>2. iter[{}] = base /\ iter = [s \in D |-> iter[s]]
    BY <1>5
  <2> QED BY <2>1, <2>2
<1>8. ASSUME NEW x \in S, NEW d \in Devices
      PROVE  succ[<<x, d>>] = ListAdded(x, d, m) /\ succ[<<x, d>>] \in S
  <2>1. x \in V
    OBVIOUS
  <2>2. succ[<<x, d>>] = ListAdded(x, d, m)
    <3> HIDE DEF V
    <3> QED BY <2>1
  <2> HIDE DEF succ
  <2> QED BY <2>2
<1>9. RunsTo(iter[DOMAIN Registered], S, base, succ, Registered)
  <2> HIDE DEF succ
  <2> QED BY <1>0, <1>7, <1>8, FoldRuns
<1>10. Agree(succ, steps, S, Devices)
  BY <1>1, <1>8 DEF Agree
<1> HIDE DEF succ
<1>11. RunsTo(iter[DOMAIN Registered], S, base, steps, Registered)
  BY <1>0, <1>9, <1>10, RunsByOther
<1> QED BY <1>6, <1>11 DEF steps

LEMMA EndRuns ==
  ASSUME NEW m \in {"online", "get", "stopped"}, NEW S, NEW base \in S,
         \A v \in S : \A field \in Endings : EndAdded(v, field) \in S
  PROVE  RunsTo(EndFold(base, m), S, base, EndSteps(S), Ending(m))
<1> DEFINE D == SUBSET (DOMAIN Ending(m))
           steps == EndSteps(S)
<1>0. Ending(m) \in Seq(Endings)
  BY EndingIs
<1>n. PICK n \in Nat : n = Len(Ending(m)) /\ DOMAIN Ending(m) = 1..n
  BY <1>0, LenProperties
<1>1. steps \in [S \X Endings -> S] /\ \A v \in S : \A field \in Endings : steps[<<v, field>>] = EndAdded(v, field)
  BY DEF EndSteps
<1> HIDE DEF steps
<1>2. PICK g : FoldsSets(g, S, base, steps, Ending(m))
  BY <1>0, <1>1, FoldExists
<1>3. \A s \in D : s # {} => Max(s) \in s /\ Ending(m)[Max(s)] \in Endings /\ s \ {Max(s)} \in D
  <2> TAKE s \in D
  <2> HAVE s # {}
  <2>1. s \in SUBSET (1..n)
    BY <1>n
  <2>2. Max(s) \in s
    BY <2>1, MaxOfInitial
  <2> QED BY <2>2, <1>0, <1>n, ElementOfSeq
<1> DEFINE iter == CHOOSE f : f = [s \in D |-> IF s = {} THEN base
                                     ELSE EndAdded(f[s \ {Max(s)}], Ending(m)[Max(s)])]
<1>4. g = [s \in D |-> IF s = {} THEN base ELSE EndAdded(g[s \ {Max(s)}], Ending(m)[Max(s)])]
  <2>1. ASSUME NEW s \in D, s # {} PROVE g[s] = EndAdded(g[s \ {Max(s)}], Ending(m)[Max(s)])
    <3>1. g[s \ {Max(s)}] \in S /\ g[s] = steps[<<g[s \ {Max(s)}], Ending(m)[Max(s)]>>]
      BY <2>1, <1>2, <1>3 DEF FoldsSets
    <3> QED BY <3>1, <2>1, <1>1, <1>3
  <2>2. g[{}] = base
    BY <1>2 DEF FoldsSets
  <2>3. g = [s \in D |-> g[s]]
    BY <1>2 DEF FoldsSets
  <2> QED BY <2>1, <2>2, <2>3
<1>5. iter = [s \in D |-> IF s = {} THEN base
                          ELSE EndAdded(iter[s \ {Max(s)}], Ending(m)[Max(s)])]
  BY <1>4
<1>6. EndFold(base, m) = iter[DOMAIN Ending(m)]
  BY DEF EndFold, FoldLeft, MapThenFoldSet
<1> HIDE DEF iter
<1> DEFINE V == S \cup {iter[s] : s \in D}
           succ == [z \in V \X Endings |-> EndAdded(z[1], z[2])]
<1>7. iter = [s \in D |-> IF s = {} THEN base ELSE succ[<<iter[s \ {Max(s)}], Ending(m)[Max(s)]>>]]
  <2>1. ASSUME NEW s \in D, s # {} PROVE iter[s] = succ[<<iter[s \ {Max(s)}], Ending(m)[Max(s)]>>]
    BY <2>1, <1>3, <1>5
  <2>2. iter[{}] = base /\ iter = [s \in D |-> iter[s]]
    BY <1>5
  <2> QED BY <2>1, <2>2
<1>8. ASSUME NEW x \in S, NEW field \in Endings
      PROVE  succ[<<x, field>>] = EndAdded(x, field) /\ succ[<<x, field>>] \in S
  <2>1. x \in V
    OBVIOUS
  <2>2. succ[<<x, field>>] = EndAdded(x, field)
    <3> HIDE DEF V
    <3> QED BY <2>1
  <2> HIDE DEF succ
  <2> QED BY <2>2
<1>9. RunsTo(iter[DOMAIN Ending(m)], S, base, succ, Ending(m))
  <2> HIDE DEF succ
  <2> QED BY <1>0, <1>7, <1>8, FoldRuns
<1>10. Agree(succ, steps, S, Endings)
  BY <1>1, <1>8 DEF Agree
<1> HIDE DEF succ
<1>11. RunsTo(iter[DOMAIN Ending(m)], S, base, steps, Ending(m))
  BY <1>0, <1>9, <1>10, RunsByOther
<1> QED BY <1>6, <1>11 DEF steps

\* Open, and read as these items, wherever the document is open.
Listing(i) == {doc \in Seq(Tokens) : \E p, a, b, c : Holds(doc, p, a, b, c, i) /\ Begins(p, RootPath)}

LEMMA EndFoldReads ==
  ASSUME NEW m \in {"online", "get", "stopped"}, NEW base, NEW i, base \in Listing(i)
  PROVE  EndFold(base, m) \in Listing(i)
<1>1. PICK S : S = Listing(i)
  OBVIOUS
<1>2. \A doc \in S : \A field \in Endings : EndAdded(doc, field) \in S
  <2> TAKE doc \in S
  <2> TAKE field \in Endings
  <2>1. PICK p, a, b, c : Holds(doc, p, a, b, c, i) /\ Begins(p, RootPath)
    BY <1>1 DEF Listing
  <2>2. field \in {"timestamp", "nonce", "metadata"} /\ 1 \in Values
    BY PlainValues DEF Endings
  <2>3. Holds(EndAdded(doc, field), RootPath, a, b, c, i)
    BY <2>1, <2>2, RootLeaf DEF EndAdded
  <2>4. Begins(RootPath, RootPath) /\ EndAdded(doc, field) \in Seq(Tokens)
    BY <2>3, PathsAre, BeginsItself, HoldsTypes
  <2> QED BY <2>3, <2>4, <1>1 DEF Listing
<1>3. RunsTo(EndFold(base, m), S, base, EndSteps(S), Ending(m))
  BY <1>1, <1>2, EndRuns
<1>4. PICK n \in Nat : n = Len(Ending(m))
  BY EndingIs, LenProperties
<1>5. PICK F : Run(F, S, base, EndSteps(S), Ending(m)) /\ F[n] = EndFold(base, m)
  BY <1>3, <1>4 DEF RunsTo
<1>6. F[n] \in S
  BY <1>4, <1>5 DEF Run
<1> QED BY <1>1, <1>5, <1>6

ListedUpTo(k) == {Item(Registered[m].product, Registered[m].name, "listed", None, 0, 0) : m \in 1..k}

\* The documents of online, get and stopped read as the list of the devices.
LEMMA ListDocReads ==
  ASSUME NEW m \in {"online", "get", "stopped"}
  PROVE  Reading(ListDoc(m)) = Listed(Devices)
<1>1. PICK n \in Nat : n = Len(Registered)
  BY RegisteredIs, LenProperties
<1>2. PICK base : base = Beginning(m)
  OBVIOUS
<1>3. base \in GoesOn({})
  BY <1>2, PlainValues, BeginningGoes
<1>4. PICK S : S = {z \in Drafts : \E i : Going(z.doc, z.previous, i)}
  OBVIOUS
<1>5. \A v \in S : \A d \in Devices : ListAdded(v, d, m) \in S
  <2> TAKE v \in S
  <2> TAKE d \in Devices
  <2>1. PICK i : v \in Drafts /\ Going(v.doc, v.previous, i)
    BY <1>4
  <2> QED BY <2>1, <1>4, ListAddedGoes
<1>6. base \in S
  BY <1>3, <1>4 DEF GoesOn
<1> DEFINE v == ListFold(base, m)
           J == [k \in 0..n |-> GoesOn(ListedUpTo(k))]
<1>7. RunsTo(v, S, base, ListSteps(S, m), Registered)
  BY <1>5, <1>6, ListRuns
<1> HIDE DEF v
<1>8. base \in J[0]
  <2>1. ListedUpTo(0) = {}
    BY DEF ListedUpTo
  <2> QED BY <2>1, <1>3
<1>9. ASSUME NEW k \in 1..n, NEW acc \in J[k - 1]
      PROVE  ListSteps(S, m)[<<acc, Registered[k]>>] \in J[k]
  <2>0. k - 1 \in 0..n /\ k \in 0..n
    OBVIOUS
  <2>1. PICK d : d = Registered[k]
    OBVIOUS
  <2>2. d \in Devices
    BY <2>1, <1>1, RegisteredIs, ElementOfSeq
  <2>3. acc \in GoesOn(ListedUpTo(k - 1))
    BY <2>0
  <2>4. acc \in Drafts /\ Going(acc.doc, acc.previous, ListedUpTo(k - 1))
    BY <2>3 DEF GoesOn
  <2>5. PICK more : more = {Item(d.product, d.name, "listed", None, 0, 0)}
    OBVIOUS
  <2>6. /\ ListAdded(acc, d, m) \in Drafts
        /\ Going(ListAdded(acc, d, m).doc, ListAdded(acc, d, m).previous, ListedUpTo(k - 1) \cup more)
    BY <2>2, <2>4, <2>5, ListAddedGoes
  <2>7. ListedUpTo(k) = ListedUpTo(k - 1) \cup more
    <3>1. \A j \in 1..k : j = k \/ j \in 1..k - 1
      OBVIOUS
    <3>2. \A j \in 1..k - 1 : j \in 1..k
      OBVIOUS
    <3>3. k \in 1..k
      OBVIOUS
    <3> QED BY <3>1, <3>2, <3>3, <2>1, <2>5 DEF ListedUpTo
  <2>8. ListAdded(acc, d, m) \in GoesOn(ListedUpTo(k))
    BY <2>6, <2>7 DEF GoesOn
  <2>9. acc \in S
    BY <2>4, <1>4
  <2>10. ListSteps(S, m)[<<acc, d>>] = ListAdded(acc, d, m)
    BY <2>2, <2>9 DEF ListSteps
  <2> QED BY <2>0, <2>1, <2>8, <2>10
<1>10. v \in J[n]
  <2> HIDE DEF J
  <2> QED BY <1>1, <1>7, <1>8, <1>9, RunHolds
<1>11. Going(v.doc, v.previous, ListedUpTo(n)) /\ v \in Drafts
  BY <1>10 DEF GoesOn
<1>12. v.doc \in Listing(ListedUpTo(n))
  <2>1. v.doc \in Seq(Tokens)
    BY <1>11 DEF Drafts
  <2> QED BY <2>1, <1>11, GoingFromRoot DEF Listing
<1>13. EndFold(v.doc, m) \in Listing(ListedUpTo(n))
  BY <1>12, EndFoldReads
<1>14. Reading(AddSession(EndFold(v.doc, m))) = ListedUpTo(n)
  BY <1>13, AddSessionReads DEF Listing
<1>15. ListDoc(m) = AddSession(EndFold(v.doc, m))
  BY <1>2, Zenon DEF ListDoc, v, ListFold, ListAdded, Beginning, EndFold, EndAdded
<1>16. ListedUpTo(n) = Listed(Devices)
  <2>1. Devices = {Registered[k] : k \in 1..n}
    BY <1>1, RegisteredIs
  <2> QED BY <2>1 DEF ListedUpTo, Listed
<1> QED BY <1>14, <1>15, <1>16

LEMMA DocumentsReadOfType == table \in [Devices -> Entries] => DocumentsRead
BY StateDocReads, ListDocReads DEF DocumentsRead

\* Every document means to its reader exactly what it was to say: whatever the devices and
\* properties are, however many of them are marked, and in whatever order the products come,
\* counting the closing brackets puts each entry where it belongs.
THEOREM DocumentsSayWhatIsMarked == Spec => []DocumentsRead
<1>1. IInv => DocumentsRead
  BY DocumentsReadOfType DEF IInv, TypeInv
<1> QED BY <1>1, InitIInv, NextIInv, PTL DEF Spec

=============================================================================
