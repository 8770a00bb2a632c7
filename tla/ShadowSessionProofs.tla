------------------------ MODULE ShadowSessionProofs ------------------------
(***************************************************************************)
(* Theorems about ShadowSession, for every number of sessions, requests    *)
(* and pushes, with and without retries.                                   *)
(***************************************************************************)
EXTENDS ShadowSession, FiniteSetTheorems, SequenceTheorems, WellFoundedInduction, TLAPS

Sids == {SessionId(n) : n \in Usids}

-----------------------------------------------------------------------------
(* The inductive invariant *)

Sessions == [sid : {NoSid} \cup Sids, req : Requests \cup {NoRequest},
             kind : Kinds \cup {"none"}, expired : BOOLEAN]
Callbacks == [status : {"success", "timeout"}, reply : Requests \cup {NoRequest}]

TypeInv ==
  /\ sessions \in [Slots -> Sessions]
  /\ \A i \in Slots : sessions[i].sid = NoSid <=> sessions[i] = NoSession
  /\ usid \in Usids
  /\ sent \in SUBSET Requests
  /\ pushes \in 0..MaxPushes
  /\ sidOf \in [Requests -> {NoSid} \cup Sids]
  /\ calls \in [Requests -> Seq(Callbacks)]

\* A session carries the id its request was sent with.
SessionInv ==
  /\ \A i \in Slots : sessions[i].sid # NoSid =>
       sessions[i].req \in Requests /\ sessions[i].sid = sidOf[sessions[i].req]
  /\ \A r \in sent : sidOf[r] # NoSid

\* An id belongs to one request, and the counter has not come round while requests
\* are still to be made.
Unused == {r \in Requests : sidOf[r] = NoSid}
SidInv ==
  /\ \A r, q \in Requests :
       sidOf[r] # NoSid /\ sidOf[q] # NoSid /\ IsPrefix(sidOf[r], sidOf[q]) => r = q
  /\ Unused # {} =>
       /\ usid + Cardinality(Unused) <= UsidSpace
       /\ \A r \in Requests \ Unused : \E n \in 0..(usid - 1) : sidOf[r] = SessionId(n)

\* A publish that has not sent its request holds the session, and the server has not
\* got the request.  Neither a handler nor another such publish above it on the stack
\* has the same slot, for what they release must not be its session.
Unsent(f) == f.fn = "publish" /\ ~f.sent
Owned(f, table, got) == Unsent(f) => table[f.slot].req = f.req /\ f.req \notin got
Apart(f, g) ==
  Unsent(f) => /\ g.fn = "handler" => f.slot # g.slot
               /\ Unsent(g) => f.slot # g.slot /\ f.req # g.req

\* Yield and the scan are only called by the application.
Ordered(s) ==
  \A k \in 1..Len(s) :
    /\ s[k].fn \in {"yield", "scan"} => k = 1
    /\ \A l \in 1..Len(s) : k < l => Apart(s[k], s[l])
ProperStack(s, table, got) ==
  /\ s \in Seq(Frames)
  /\ Ordered(s)
  /\ \A k \in 1..Len(s) : Owned(s[k], table, got)

StackInv == ProperStack(stk, sessions, sent)

IInv == SidsDiffer /\ TypeInv /\ SessionInv /\ SidInv /\ StackInv /\ AnswersMatch

-----------------------------------------------------------------------------
(* Slots, frames and the stack *)

LEMMA FirstIsMember == \A S \in SUBSET Slots : S # {} => FirstOf(S) \in S
<1> SUFFICES ASSUME NEW S \in SUBSET Slots, S # {} PROVE FirstOf(S) \in S
  OBVIOUS
<1>1. S \subseteq Nat
  BY SessionsAssumption DEF Slots
<1>2. PICK x \in S : \A y \in S : <<y, x>> \notin OpToRel(<, Nat)
  BY <1>1, NatLessThanWellFounded, WFMin
<1>3. \A y \in S : x <= y
  <2> TAKE y \in S
  <2>1. x \in Nat /\ y \in Nat
    BY <1>1, <1>2
  <2>2. <<y, x>> \notin {ss \in Nat \X Nat : ss[1] < ss[2]}
    BY <1>2 DEF OpToRel
  <2>3. ~(y < x)
    BY <2>1, <2>2
  <2> QED BY <2>1, <2>3
<1> QED BY <1>3 DEF FirstOf

LEMMA FrameFields ==
  \A f \in Frames :
    /\ f.fn \in {"yield", "scan", "publish", "handler"}
    /\ f.fn = "scan" => f.slot \in 1..(MaxSessions + 1)
    /\ f.fn = "publish" => f \in [fn : {"publish"}, kind : Kinds, req : Requests, slot : Slots, sent : BOOLEAN]
    /\ f.fn = "handler" => f \in [fn : {"handler"}, slot : 0..MaxSessions, makes : Kinds, left : 0..2]
BY DEF Frames, YieldCall

LEMMA NewFrames ==
  /\ YieldCall \in Frames
  /\ \A i \in 1..(MaxSessions + 1) : Scan(i) \in Frames
  /\ \A kind \in Kinds, r \in Requests, i \in Slots : PublishCall(kind, r, i) \in Frames
  /\ \A i \in 0..MaxSessions, kind \in Kinds, n \in 0..2 : Handler(i, kind, n) \in Frames
BY DEF Frames, YieldCall, Scan, PublishCall, Handler

LEMMA Popped ==
  ASSUME NEW S, NEW s \in Seq(S), s # <<>>
  PROVE  /\ Len(s) \in Nat \ {0} /\ s[Len(s)] \in S
         /\ Front(s) \in Seq(S) /\ Len(Front(s)) = Len(s) - 1
         /\ \A k \in 1..(Len(s) - 1) : Front(s)[k] = s[k]
<1>1. Len(s) \in Nat \ {0} /\ s[Len(s)] \in S
  OBVIOUS
<1>2. /\ SubSeq(s, 1, Len(s) - 1) \in Seq(S)
      /\ Len(SubSeq(s, 1, Len(s) - 1)) = Len(s) - 1
      /\ \A k \in 1..(Len(s) - 1) : SubSeq(s, 1, Len(s) - 1)[k] = s[k]
  BY <1>1, SubSeqProperties
<1> QED BY <1>1, <1>2 DEF Front

LEMMA Pushed ==
  ASSUME NEW S, NEW s \in Seq(S), NEW f \in S
  PROVE  /\ Append(s, f) \in Seq(S) /\ Len(Append(s, f)) = Len(s) + 1
         /\ Append(s, f)[Len(s) + 1] = f
         /\ \A k \in 1..Len(s) : Append(s, f)[k] = s[k]
         /\ s \o <<f>> = Append(s, f)
OBVIOUS

LEMMA OrderedFront ==
  ASSUME NEW s \in Seq(Frames), s # <<>>, Ordered(s)
  PROVE  /\ Ordered(Front(s))
         /\ \A k \in 1..Len(Front(s)) : Apart(Front(s)[k], s[Len(s)])
<1> DEFINE n == Len(s)
           t == Front(s)
<1>1. n \in Nat \ {0} /\ Len(t) = n - 1 /\ \A k \in 1..(n - 1) : t[k] = s[k]
  BY Popped
<1>2. \A k \in 1..n : /\ s[k].fn \in {"yield", "scan"} => k = 1
                      /\ \A l \in 1..n : k < l => Apart(s[k], s[l])
  BY DEF Ordered
<1> HIDE DEF n, t
<1>3. \A k \in 1..(n - 1) : k \in 1..n /\ k < n /\ n \in 1..n
  BY <1>1
<1> QED BY <1>1, <1>2, <1>3 DEF Ordered, n, t

LEMMA OrderedAppend ==
  ASSUME NEW s \in Seq(Frames), NEW f \in Frames, Ordered(s),
         f.fn \in {"yield", "scan"} => s = <<>>,
         \A k \in 1..Len(s) : Apart(s[k], f)
  PROVE  Ordered(Append(s, f))
BY Pushed DEF Ordered

LEMMA ProperTop ==
  ASSUME NEW s, NEW table, NEW got, ProperStack(s, table, got), s # <<>>
  PROVE  /\ s[Len(s)] \in Frames /\ Owned(s[Len(s)], table, got)
         /\ ProperStack(Front(s), table, got)
         /\ \A k \in 1..Len(Front(s)) : Apart(Front(s)[k], s[Len(s)])
         /\ s[Len(s)].fn \in {"yield", "scan"} => Front(s) = <<>>
<1>1. s \in Seq(Frames) /\ Ordered(s) /\ \A k \in 1..Len(s) : Owned(s[k], table, got)
  BY DEF ProperStack
<1>2. /\ Len(s) \in Nat \ {0} /\ s[Len(s)] \in Frames
      /\ Front(s) \in Seq(Frames) /\ Len(Front(s)) = Len(s) - 1
      /\ \A k \in 1..(Len(s) - 1) : Front(s)[k] = s[k]
  BY <1>1, Popped
<1>3. Owned(s[Len(s)], table, got)
  BY <1>1, <1>2
<1>4. \A k \in 1..Len(Front(s)) : Owned(Front(s)[k], table, got)
  BY <1>1, <1>2
<1>5. s[Len(s)].fn \in {"yield", "scan"} => Len(s) = 1
  BY <1>1, <1>2 DEF Ordered
<1>6. Len(s) = 1 => Front(s) = <<>>
  BY <1>2
<1> QED BY <1>1, <1>2, <1>3, <1>4, <1>5, <1>6, OrderedFront DEF ProperStack

LEMMA ProperAppend ==
  ASSUME NEW s, NEW table, NEW got, NEW f \in Frames, ProperStack(s, table, got),
         Owned(f, table, got),
         f.fn \in {"yield", "scan"} => s = <<>>,
         \A k \in 1..Len(s) : Apart(s[k], f)
  PROVE  ProperStack(Append(s, f), table, got)
<1>1. s \in Seq(Frames) /\ Ordered(s) /\ \A k \in 1..Len(s) : Owned(s[k], table, got)
  BY DEF ProperStack
<1>2. Append(s, f) \in Seq(Frames) /\ Ordered(Append(s, f))
  BY <1>1, Pushed, OrderedAppend
<1>3. \A k \in 1..Len(Append(s, f)) : Owned(Append(s, f)[k], table, got)
  BY <1>1, Pushed
<1> QED BY <1>2, <1>3 DEF ProperStack

\* A call replaced by one of the same kind that is no closer to its session.
LEMMA ProperReplace ==
  ASSUME NEW s, NEW table, NEW got, NEW f \in Frames, ProperStack(s, table, got), s # <<>>,
         Owned(f, table, got),
         f.fn \in {"yield", "scan"} => s[Len(s)].fn \in {"yield", "scan"},
         f.fn = "handler" => s[Len(s)].fn = "handler" /\ s[Len(s)].slot = f.slot,
         ~Unsent(f)
  PROVE  ProperStack(Append(Front(s), f), table, got)
<1>1. \A k \in 1..Len(Front(s)) : Apart(Front(s)[k], f)
  BY ProperTop DEF Apart
<1> QED BY <1>1, ProperTop, ProperAppend

\* Releasing a slot no unsent publish of the stack has.
LEMMA ProperReleased ==
  ASSUME NEW s, NEW table \in [Slots -> Sessions], NEW got, NEW i, ProperStack(s, table, got),
         \A k \in 1..Len(s) : Unsent(s[k]) => s[k].slot # i
  PROVE  ProperStack(s, [table EXCEPT ![i] = NoSession], got)
<1>1. s \in Seq(Frames) /\ Ordered(s) /\ \A k \in 1..Len(s) : s[k] \in Frames /\ Owned(s[k], table, got)
  BY DEF ProperStack
<1>2. ASSUME NEW k \in 1..Len(s), Unsent(s[k])
      PROVE  [table EXCEPT ![i] = NoSession][s[k].slot].req = s[k].req /\ s[k].req \notin got
  <2>1. s[k].slot \in Slots /\ s[k].slot # i
    BY <1>1, <1>2, FrameFields DEF Unsent
  <2> QED BY <1>1, <1>2, <2>1 DEF Owned
<1> QED BY <1>1, <1>2 DEF ProperStack, Owned

-----------------------------------------------------------------------------
(* The table *)

LEMMA NoSessionType == NoSession \in Sessions
BY DEF NoSession, Sessions

LEMMA ReleasedTable ==
  ASSUME IInv, NEW i, sessions' = Released(i), UNCHANGED <<sent, sidOf>>
  PROVE  /\ sessions' \in [Slots -> Sessions]
         /\ \A j \in Slots : sessions'[j].sid = NoSid <=> sessions'[j] = NoSession
         /\ SessionInv'
<1> USE DEF IInv, TypeInv
<1>1. sessions \in [Slots -> Sessions] /\ \A j \in Slots : sessions[j].sid = NoSid <=> sessions[j] = NoSession
  OBVIOUS
<1>2. \A j \in Slots : sessions'[j] = sessions[j] \/ sessions'[j] = NoSession
  BY <1>1 DEF Released
<1>3. NoSession.sid = NoSid
  BY DEF NoSession
<1>4. sessions' \in [Slots -> Sessions]
  BY <1>1, NoSessionType DEF Released
<1> QED BY <1>1, <1>2, <1>3, <1>4 DEF SessionInv

LEMMA UsidWraps ==
  ASSUME SidsDiffer, NEW n \in Usids
  PROVE  /\ (n + 1) % UsidSpace \in Usids
         /\ n + 1 < UsidSpace => (n + 1) % UsidSpace = n + 1
BY DEF SidsDiffer, Usids

LEMMA UnusedFinite == IInv => IsFiniteSet(Unused) /\ Cardinality(Unused) \in Nat
BY FS_Subset, FS_CardinalityType DEF IInv, SidsDiffer, Unused

\* A request gets an id of its own and a slot no call below holds.
LEMMA BeginKeeps ==
  ASSUME IInv, NEW kind \in Kinds, NEW r \in Requests, NEW caller,
         ProperStack(caller, sessions, sent), Begin(kind, r, caller)
  PROVE  IInv'
<1> DEFINE i == FirstOf(Slots \ Occupied)
           f == PublishCall(kind, r, i)
<1>0. SidsDiffer /\ TypeInv /\ SessionInv /\ SidInv /\ AnswersMatch
  BY DEF IInv
<1>1. i \in Slots /\ sessions[i].sid = NoSid
  BY FirstIsMember DEF Begin, Occupied
<1>2. /\ sidOf[r] = NoSid /\ usid' = NextUsid
      /\ sessions' = Claimed(i, kind, r)
      /\ sidOf' = [sidOf EXCEPT ![r] = SessionId(usid)]
      /\ stk' = Append(caller, f)
      /\ UNCHANGED <<sent, pushes, calls>>
  BY DEF Begin
<1> HIDE DEF i, f
<1>3. SessionId(usid) \in Sids /\ SessionId(usid) # NoSid
  BY <1>0 DEF TypeInv, SidsDiffer, Sids
<1>4. /\ sessions'[i] = [sid |-> SessionId(usid), req |-> r, kind |-> kind, expired |-> FALSE]
      /\ \A j \in Slots \ {i} : sessions'[j] = sessions[j]
  BY <1>0, <1>1, <1>2 DEF TypeInv, Claimed
<1>5. r \notin sent
  BY <1>0, <1>2 DEF SessionInv
<1>6. \A q \in Requests : sidOf'[q] = IF q = r THEN SessionId(usid) ELSE sidOf[q]
  BY <1>0, <1>2 DEF TypeInv
<1>7. TypeInv'
  <2>1. [sid |-> SessionId(usid), req |-> r, kind |-> kind, expired |-> FALSE] \in Sessions
    BY <1>3 DEF Sessions
  <2>2. sessions' \in [Slots -> Sessions]
    BY <1>0, <1>2, <2>1 DEF TypeInv, Claimed
  <2>3. \A j \in Slots : sessions'[j].sid = NoSid <=> sessions'[j] = NoSession
    <3>1. sessions'[i].sid # NoSid /\ NoSession.sid = NoSid
      BY <1>3, <1>4 DEF NoSession
    <3> QED BY <1>0, <1>4, <3>1 DEF TypeInv
  <2>4. usid' \in Usids
    BY <1>0, <1>2, UsidWraps DEF TypeInv, NextUsid
  <2>5. sidOf' \in [Requests -> {NoSid} \cup Sids]
    BY <1>0, <1>2, <1>3 DEF TypeInv
  <2> QED BY <1>0, <1>2, <2>2, <2>3, <2>4, <2>5 DEF TypeInv
<1>8. SessionInv'
  <2>1. ASSUME NEW j \in Slots, sessions'[j].sid # NoSid
        PROVE  sessions'[j].req \in Requests /\ sessions'[j].sid = sidOf'[sessions'[j].req]
    <3>1. CASE j = i
      BY <1>4, <1>6, <3>1
    <3>2. CASE j # i
      <4>1. sessions'[j] = sessions[j]
        BY <1>4, <3>2
      <4>2. sessions[j].req \in Requests /\ sessions[j].sid = sidOf[sessions[j].req]
        BY <1>0, <2>1, <4>1 DEF SessionInv
      <4> QED BY <1>2, <1>6, <2>1, <4>1, <4>2
    <3> QED BY <3>1, <3>2
  <2>2. \A q \in sent' : sidOf'[q] # NoSid
    BY <1>0, <1>2, <1>3, <1>6 DEF SessionInv, TypeInv
  <2> QED BY <2>1, <2>2 DEF SessionInv
<1>9. SidInv'
  <2>1. r \in Unused /\ Unused' = Unused \ {r}
    BY <1>2, <1>3, <1>6 DEF Unused
  <2>2. Cardinality(Unused) \in Nat /\ Cardinality(Unused') = Cardinality(Unused) - 1
    BY <2>1, UnusedFinite, FS_RemoveElement
  <2>3. Cardinality(Unused') \in Nat /\ (Unused' # {} => Cardinality(Unused') > 0)
    <3>1. IsFiniteSet(Unused')
      BY <2>1, UnusedFinite, FS_RemoveElement
    <3> QED BY <3>1, FS_EmptySet, FS_CardinalityType
  <2>4. usid \in Nat /\ UsidSpace \in Nat /\ usid \in Usids /\ usid + Cardinality(Unused) <= UsidSpace
    BY <1>0, <2>1 DEF TypeInv, SidsDiffer, Usids, SidInv
  <2>5. \A q \in Requests \ Unused : \E n \in 0..(usid - 1) : sidOf[q] = SessionId(n)
    BY <1>0, <2>1 DEF SidInv
  <2>6. Unused' # {} => usid' = usid + 1 /\ usid' + Cardinality(Unused') <= UsidSpace
    BY <1>0, <1>2, <2>2, <2>3, <2>4, UsidWraps DEF NextUsid
  <2>7. ASSUME Unused' # {}, NEW q \in Requests \ Unused'
        PROVE  \E n \in 0..(usid' - 1) : sidOf'[q] = SessionId(n)
    <3>1. CASE q = r
      BY <1>6, <2>4, <2>6, <2>7, <3>1
    <3>2. CASE q # r
      <4>1. PICK n \in 0..(usid - 1) : sidOf[q] = SessionId(n)
        BY <2>1, <2>5, <2>7, <3>2
      <4> QED BY <1>6, <2>4, <2>6, <2>7, <3>2, <4>1
    <3> QED BY <3>1, <3>2
  <2>8. ASSUME NEW p \in Requests, NEW q \in Requests,
               sidOf'[p] # NoSid, sidOf'[q] # NoSid, IsPrefix(sidOf'[p], sidOf'[q])
        PROVE  p = q
    <3>1. \A n \in 0..(usid - 1) :
            /\ ~IsPrefix(SessionId(n), SessionId(usid))
            /\ ~IsPrefix(SessionId(usid), SessionId(n))
      BY <1>0, <2>4 DEF SidsDiffer, Usids
    <3>2. p # r /\ q # r => p = q
      BY <1>0, <1>6, <2>8 DEF SidInv
    <3>3. ASSUME NEW s \in Requests, s # r, sidOf'[s] # NoSid
          PROVE  \E n \in 0..(usid - 1) : sidOf'[s] = SessionId(n)
      BY <1>6, <2>5, <3>3 DEF Unused
    <3> QED BY <1>6, <2>8, <3>1, <3>2, <3>3
  <2> QED BY <2>6, <2>7, <2>8 DEF SidInv
<1>10. StackInv'
  <2>1. \A k \in 1..Len(caller) : caller[k] \in Frames /\ Owned(caller[k], sessions, sent)
    BY DEF ProperStack
  <2>2. ASSUME NEW k \in 1..Len(caller), Unsent(caller[k])
        PROVE  /\ caller[k].slot \in Slots \ {i} /\ caller[k].req # r
               /\ sessions[caller[k].slot].req = caller[k].req /\ caller[k].req \notin sent
    <3>1. caller[k].slot \in Slots /\ caller[k].req \in Requests
      BY <2>1, <2>2, FrameFields DEF Unsent
    <3>2. sessions[caller[k].slot].req = caller[k].req /\ caller[k].req \notin sent
      BY <2>1, <2>2 DEF Owned
    <3>3. sessions[caller[k].slot].sid # NoSid
      BY <1>0, <3>1, <3>2, SessionsAssumption DEF TypeInv, NoSession
    <3>4. sidOf[caller[k].req] # NoSid
      BY <1>0, <3>1, <3>2, <3>3 DEF SessionInv
    <3> QED BY <1>1, <1>2, <3>1, <3>2, <3>3, <3>4
  <2>3. ProperStack(caller, sessions', sent)
    BY <1>4, <2>2 DEF ProperStack, Owned
  <2>4. f \in Frames /\ f.fn = "publish" /\ f.slot = i /\ f.req = r
    BY <1>1, NewFrames DEF f, PublishCall
  <2>5. Owned(f, sessions', sent)
    BY <1>4, <1>5, <2>4 DEF Owned
  <2>6. \A k \in 1..Len(caller) : Apart(caller[k], f)
    BY <2>2, <2>4 DEF Apart
  <2> QED BY <1>2, <2>3, <2>4, <2>5, <2>6, ProperAppend DEF StackInv
<1>11. AnswersMatch'
  BY <1>0, <1>2 DEF AnswersMatch
<1> QED BY <1>0, <1>7, <1>8, <1>9, <1>10, <1>11 DEF IInv, SidsDiffer

\* A request that fails at once only spends an id.
LEMMA BeginFailsKeeps ==
  ASSUME IInv, NEW caller, ProperStack(caller, sessions, sent), BeginFails(caller)
  PROVE  IInv'
<1>0. SidsDiffer /\ TypeInv /\ SessionInv /\ SidInv /\ AnswersMatch
  BY DEF IInv
<1>1. /\ usid' = NextUsid /\ stk' = caller
      /\ usid + Cardinality(Unused) < UsidSpace
      /\ UNCHANGED <<sessions, sent, pushes, sidOf, calls>>
  BY DEF BeginFails, IdsRemain, Unused
<1>2. usid \in Usids /\ usid \in Nat /\ usid' \in Usids /\ UsidSpace \in Nat
  BY <1>0, <1>1, UsidWraps DEF TypeInv, NextUsid, Usids, SidsDiffer
<1>3. SidInv'
  <2>1. Unused' = Unused /\ Cardinality(Unused) \in Nat
    BY <1>1, UnusedFinite DEF Unused
  <2>2. Unused # {} => Cardinality(Unused) > 0
    BY UnusedFinite, FS_EmptySet
  <2>3. Unused # {} => usid' = usid + 1
    BY <1>0, <1>1, <1>2, <2>1, <2>2, UsidWraps DEF NextUsid
  <2>4. Unused # {} => usid' + Cardinality(Unused') <= UsidSpace
    BY <1>1, <1>2, <2>1, <2>3
  <2>5. ASSUME Unused # {}, NEW n \in 0..(usid - 1) PROVE n \in 0..(usid' - 1)
    <3>1. usid' = usid + 1 /\ usid \in Nat
      BY <1>2, <2>3, <2>5
    <3> QED BY <3>1
  <2> QED BY <1>0, <1>1, <2>1, <2>4, <2>5 DEF SidInv
<1>4. TypeInv' /\ SessionInv' /\ StackInv' /\ AnswersMatch' /\ SidsDiffer'
  BY <1>0, <1>1, <1>2 DEF TypeInv, SessionInv, StackInv, AnswersMatch, SidsDiffer
<1> QED BY <1>3, <1>4 DEF IInv

-----------------------------------------------------------------------------
(* The other actions: the frames below the top, and what becomes of it *)

\* What every action but those of a new request leaves alone.
LEMMA SidsKept ==
  ASSUME IInv, UNCHANGED <<usid, sidOf>>
  PROVE  SidsDiffer' /\ SidInv'
BY DEF IInv, SidsDiffer, SidInv, Unused

LEMMA TopFrame ==
  ASSUME IInv, stk # <<>>
  PROVE  /\ Top \in Frames /\ Owned(Top, sessions, sent)
         /\ ProperStack(Caller, sessions, sent)
         /\ \A k \in 1..Len(Caller) : Apart(Caller[k], Top)
         /\ Top.fn \in {"yield", "scan"} => Caller = <<>>
BY ProperTop DEF IInv, StackInv, Top, Caller

\* An action that only replaces the stack by a proper one.
LEMMA StackStep ==
  ASSUME IInv, UNCHANGED <<sessions, usid, sent, pushes, sidOf, calls>>,
         ProperStack(stk', sessions, sent)
  PROVE  IInv'
<1>1. SidsDiffer' /\ SidInv'
  BY SidsKept
<1>2. TypeInv' /\ SessionInv' /\ AnswersMatch'
  BY DEF IInv, TypeInv, SessionInv, AnswersMatch
<1>3. StackInv'
  BY DEF StackInv
<1> QED BY <1>1, <1>2, <1>3 DEF IInv

\* The innermost call is replaced by g, which holds no session.
LEMMA Replaced ==
  ASSUME IInv, stk # <<>>, NEW g \in Frames, ~Unsent(g),
         g.fn \in {"yield", "scan"} => Top.fn \in {"yield", "scan"},
         g.fn = "handler" => Top.fn = "handler" /\ Top.slot = g.slot
  PROVE  ProperStack(Replace(g), sessions, sent)
BY ProperReplace DEF IInv, StackInv, Top, Caller, Replace, Owned

\* A handler on top of all calls, for a slot that none of them holds.
LEMMA HandlerOnTop ==
  ASSUME NEW s, ProperStack(s, sessions, sent), NEW i \in 0..MaxSessions,
         NEW kind \in Kinds, NEW n \in 0..2,
         \A k \in 1..Len(s) : Unsent(s[k]) => s[k].slot # i
  PROVE  ProperStack(Append(s, Handler(i, kind, n)), sessions, sent)
<1>1. /\ Handler(i, kind, n) \in Frames /\ Handler(i, kind, n).fn = "handler"
      /\ Handler(i, kind, n).slot = i
  BY NewFrames DEF Handler
<1>2. \A k \in 1..Len(s) : Apart(s[k], Handler(i, kind, n))
  BY <1>1 DEF Apart, Unsent
<1>3. Owned(Handler(i, kind, n), sessions, sent)
  BY <1>1 DEF Owned, Unsent
<1> QED BY <1>1, <1>2, <1>3, ProperAppend

LEMMA EmptyStack == \A table, got : ProperStack(<<>>, table, got)
BY DEF ProperStack, Ordered

LEMMA PushHandled ==
  ASSUME NEW s, ProperStack(s, sessions, sent), NEW kind \in Kinds, NEW n \in 0..2
  PROVE  ProperStack(Append(s, Handler(0, kind, n)), sessions, sent)
<1>1. \A k \in 1..Len(s) : Unsent(s[k]) => s[k].slot # 0
  BY FrameFields, SessionsAssumption DEF ProperStack, Unsent, Slots
<1>2. 0 \in 0..MaxSessions
  BY SessionsAssumption
<1> QED BY <1>1, <1>2, HandlerOnTop

\* One more callback; a reply is recorded with its own request.
LEMMA Recorded ==
  ASSUME IInv, NEW i, NEW status \in {"success", "timeout"}, NEW reply \in Requests \cup {NoRequest},
         status = "success" => sessions[i].req = reply,
         calls' = CalledBack(i, status, reply)
  PROVE  calls' \in [Requests -> Seq(Callbacks)] /\ AnswersMatch'
<1> DEFINE c == [status |-> status, reply |-> reply]
           q == sessions[i].req
<1>1. c \in Callbacks /\ c.status = status /\ c.reply = reply
  BY DEF Callbacks
<1>2. calls \in [Requests -> Seq(Callbacks)] /\ calls' = [calls EXCEPT ![q] = Append(@, c)]
  BY DEF IInv, TypeInv, CalledBack
<1> HIDE DEF c
<1>3. \A r \in Requests : calls'[r] = IF r = q THEN Append(calls[r], c) ELSE calls[r]
  BY <1>2
<1>4. \A r \in Requests : /\ calls[r] \in Seq(Callbacks) /\ Append(calls[r], c) \in Seq(Callbacks)
                          /\ Len(Append(calls[r], c)) = Len(calls[r]) + 1
                          /\ Append(calls[r], c)[Len(calls[r]) + 1] = c
                          /\ \A k \in 1..Len(calls[r]) : Append(calls[r], c)[k] = calls[r][k]
  BY <1>1, <1>2, Pushed
<1>5. calls' \in [Requests -> Seq(Callbacks)]
  BY <1>2, <1>4
<1>6. ASSUME NEW r \in Requests, NEW k \in DOMAIN calls'[r], calls'[r][k].status = "success"
      PROVE  calls'[r][k].reply = r
  <2>1. \A m \in 1..Len(calls[r]) : calls[r][m].status = "success" => calls[r][m].reply = r
    BY <1>4 DEF IInv, AnswersMatch
  <2>2. k \in 1..Len(calls'[r])
    BY <1>5, <1>6
  <2>3. CASE r # q
    BY <1>3, <1>6, <2>1, <2>2, <2>3
  <2>4. CASE r = q /\ k \in 1..Len(calls[r])
    <3>1. calls'[r] = Append(calls[r], c)
      BY <1>3, <2>4
    <3>2. calls'[r][k] = calls[r][k]
      BY <1>4, <2>4, <3>1
    <3> QED BY <1>6, <2>1, <2>4, <3>2
  <2>5. CASE r = q /\ k = Len(calls[r]) + 1
    BY <1>1, <1>3, <1>4, <1>6, <2>5
  <2>6. r = q => k \in 1..Len(calls[r]) \/ k = Len(calls[r]) + 1
    <3>1. Len(calls[r]) \in Nat
      BY <1>4
    <3>2. r = q => k \in 1..(Len(calls[r]) + 1)
      BY <1>3, <1>4, <2>2
    <3> QED BY <3>1, <3>2
  <2> QED BY <2>3, <2>4, <2>5, <2>6
<1> QED BY <1>5, <1>6 DEF AnswersMatch

LEMMA CallKeeps == IInv /\ Call => IInv'
BY BeginKeeps, BeginFailsKeeps, EmptyStack DEF Call

LEMMA YieldKeeps == IInv /\ (Yield \/ YieldEnds) => IInv'
<1> SUFFICES ASSUME IInv, Yield \/ YieldEnds PROVE IInv'
  OBVIOUS
<1>1. CASE Yield
  <2>1. ProperStack(Append(<<>>, YieldCall), sessions, sent)
    <3>1. YieldCall \in Frames /\ ~Unsent(YieldCall)
      BY NewFrames DEF YieldCall, Unsent
    <3>2. Owned(YieldCall, sessions, sent) /\ \A k \in 1..Len(<<>>) : Apart(<<>>[k], YieldCall)
      BY <3>1 DEF Owned
    <3> QED BY <3>1, <3>2, EmptyStack, ProperAppend
  <2>2. Append(<<>>, YieldCall) = <<YieldCall>>
    OBVIOUS
  <2> QED BY <1>1, <2>1, <2>2, StackStep DEF Yield
<1>2. CASE YieldEnds
  <2>1. Scan(1) \in Frames /\ Scan(1).fn = "scan"
    BY NewFrames, SessionsAssumption DEF Scan
  <2>2. ProperStack(Replace(Scan(1)), sessions, sent)
    BY <1>2, <2>1, Replaced DEF YieldEnds, At, Unsent
  <2> QED BY <1>2, <2>2, StackStep DEF YieldEnds
<1> QED BY <1>1, <1>2

LEMMA PublishSendsKeeps == IInv /\ PublishSends => IInv'
<1> SUFFICES ASSUME IInv, PublishSends PROVE IInv'
  OBVIOUS
<1>1. /\ stk # <<>> /\ Top.fn = "publish" /\ ~Top.sent
      /\ sent' = sent \cup {Top.req}
      /\ UNCHANGED <<sessions, usid, pushes, sidOf, calls>>
  BY DEF PublishSends, At
<1>2. /\ Top \in [fn : {"publish"}, kind : Kinds, req : Requests, slot : Slots, sent : BOOLEAN]
      /\ sessions[Top.slot].req = Top.req
  BY <1>1, TopFrame, FrameFields DEF Owned, Unsent
<1>3. sidOf[Top.req] # NoSid
  <2>1. sessions[Top.slot].sid # NoSid
    BY <1>2, SessionsAssumption DEF IInv, TypeInv, NoSession
  <2> QED BY <1>2, <2>1 DEF IInv, SessionInv
<1>4. TypeInv' /\ SessionInv' /\ AnswersMatch'
  BY <1>1, <1>2, <1>3 DEF IInv, TypeInv, SessionInv, AnswersMatch
<1>5. ProperStack(Caller, sessions, sent')
  BY <1>1, <1>2, TopFrame DEF ProperStack, Owned, Apart, Unsent
<1>6. CASE Top.kind = "get"
  <2> DEFINE g == [Top EXCEPT !.sent = TRUE]
  <2>1. g \in Frames /\ g.fn = "publish" /\ g.sent
    BY <1>2 DEF Frames
  <2>2. \A k \in 1..Len(Caller) : Apart(Caller[k], g)
    BY <2>1 DEF Apart, Unsent
  <2>3. stk' = Append(Caller, g)
    BY <1>6 DEF PublishSends, Replace
  <2> HIDE DEF g
  <2>4. StackInv'
    BY <1>1, <1>5, <2>1, <2>2, <2>3, ProperAppend DEF StackInv, Owned, Unsent
  <2> QED BY <1>1, <1>4, <2>4, SidsKept DEF IInv
<1>7. CASE Top.kind # "get"
  BY <1>1, <1>4, <1>5, <1>7, SidsKept DEF IInv, PublishSends, StackInv
<1> QED BY <1>6, <1>7

LEMMA PublishEndsKeeps == IInv /\ (PublishFails \/ PublishReturns) => IInv'
<1> SUFFICES ASSUME IInv, PublishFails \/ PublishReturns PROVE IInv'
  OBVIOUS
<1>1. /\ stk # <<>> /\ Top.fn = "publish" /\ stk' = Caller
      /\ UNCHANGED <<usid, sent, pushes, sidOf, calls>>
  BY DEF PublishFails, PublishReturns, At
<1>2. CASE UNCHANGED sessions
  BY <1>1, <1>2, TopFrame, StackStep
<1>3. CASE ~Top.sent /\ sessions' = Released(Top.slot)
  <2>1. Top \in [fn : {"publish"}, kind : Kinds, req : Requests, slot : Slots, sent : BOOLEAN]
    BY <1>1, TopFrame, FrameFields
  <2>2. sessions' = [sessions EXCEPT ![Top.slot] = NoSession]
    BY <1>3, <2>1, SessionsAssumption DEF Released, Slots
  <2>3. \A k \in 1..Len(Caller) : Unsent(Caller[k]) => Caller[k].slot # Top.slot
    BY <1>1, <1>3, TopFrame DEF Apart, Unsent
  <2>4. StackInv'
    BY <1>1, <2>2, <2>3, TopFrame, ProperReleased DEF IInv, TypeInv, StackInv
  <2>5. TypeInv' /\ SessionInv' /\ AnswersMatch'
    BY <1>1, <1>3, ReleasedTable DEF IInv, TypeInv, AnswersMatch
  <2> QED BY <1>1, <2>4, <2>5, SidsKept DEF IInv
<1> QED BY <1>2, <1>3 DEF PublishFails, PublishReturns

LEMMA ScanKeeps == IInv /\ (ScanSlot \/ ScanEnds) => IInv'
<1> SUFFICES ASSUME IInv, ScanSlot \/ ScanEnds PROVE IInv'
  OBVIOUS
<1>1. stk # <<>> /\ Top.fn = "scan" /\ Caller = <<>>
  BY TopFrame DEF ScanSlot, ScanEnds, At
<1>2. CASE ScanEnds
  BY <1>1, <1>2, TopFrame, StackStep DEF ScanEnds
<1>3. CASE ScanSlot
  <2> DEFINE i == Top.slot
             s == Replace(Scan(i + 1))
  <2>1. i \in Slots /\ i \in 0..MaxSessions /\ i + 1 \in 1..(MaxSessions + 1)
    BY <1>3, SessionsAssumption DEF ScanSlot, Slots
  <2>2. Scan(i + 1) \in Frames /\ Scan(i + 1).fn = "scan" /\ ~Unsent(Scan(i + 1))
    BY <2>1, NewFrames DEF Scan, Unsent
  <2>3. ProperStack(s, sessions, sent)
    BY <1>1, <2>2, Replaced
  <2>4. \A k \in 1..Len(s) : ~Unsent(s[k])
    BY <1>1, <2>2 DEF Replace
  <2> HIDE DEF i, s
  <2>5. CASE Overdue(i)
    <3> DEFINE n == IF Retries THEN 1 ELSE 0
    <3>1. /\ calls' = CalledBack(i, "timeout", NoRequest)
          /\ stk' = s \o <<Handler(i, "get", n)>>
          /\ UNCHANGED <<sessions, usid, sent, pushes, sidOf>>
      BY <1>3, <2>5 DEF ScanSlot, i, s
    <3>2. n \in 0..2 /\ "get" \in Kinds
      BY DEF Kinds
    <3> HIDE DEF n
    <3>3. stk' = Append(s, Handler(i, "get", n))
      BY <2>1, <2>3, <3>1, <3>2, NewFrames, Pushed DEF ProperStack
    <3>4. StackInv'
      BY <2>1, <2>3, <2>4, <3>1, <3>2, <3>3, HandlerOnTop DEF StackInv
    <3>5. /\ calls' \in [Requests -> Seq(Callbacks)] /\ AnswersMatch'
      BY <3>1, Recorded
    <3>6. TypeInv' /\ SessionInv'
      BY <3>1, <3>5 DEF IInv, TypeInv, SessionInv
    <3> QED BY <3>1, <3>4, <3>5, <3>6, SidsKept DEF IInv
  <2>6. CASE ~Overdue(i)
    BY <1>3, <2>3, <2>6, StackStep DEF ScanSlot, i, s
  <2> QED BY <2>5, <2>6
<1> QED BY <1>2, <1>3

\* A reply finds the session of its own request or none, and never one that is held
\* by a publish which has not sent its request.
LEMMA DeliverKeeps == ASSUME IInv, NEW r \in Requests, Deliver(r) PROVE IInv'
<1> DEFINE matching == {i \in Slots : SameSession(i, sidOf[r])}
           i == FirstOf(matching)
           n == IF sessions[i].kind = "get" THEN Confirms ELSE 0
<1>0. /\ r \in sent /\ stk # <<>> /\ sent' = sent \ {r}
      /\ UNCHANGED <<sessions, usid, pushes, sidOf>>
  BY DEF Deliver, Reading, At
<1>1. ProperStack(stk, sessions, sent) /\ SidsDiffer' /\ SidInv'
  BY <1>0, SidsKept DEF IInv, StackInv
<1>2. Confirms \in 0..2 /\ n \in 0..2 /\ "report" \in Kinds /\ 0 \in 0..MaxSessions
  BY SessionsAssumption DEF Confirms, Kinds
<1>3. CASE matching # {}
  <2>1. i \in Slots /\ i \in 0..MaxSessions /\ SameSession(i, sidOf[r])
    BY <1>3, FirstIsMember, SessionsAssumption DEF Slots
  <2>2. calls' = CalledBack(i, "success", r) /\ stk' = Append(stk, Handler(i, "report", n))
    BY <1>3 DEF Deliver
  <2> HIDE DEF i, n, matching
  <2>3. sessions[i].req = r
    <3>1. /\ sessions[i].req \in Requests /\ sidOf[sessions[i].req] # NoSid
          /\ IsPrefix(sidOf[r], sidOf[sessions[i].req]) /\ sidOf[r] # NoSid
      BY <1>0, <2>1 DEF IInv, SessionInv, SameSession
    <3> QED BY <3>1 DEF IInv, SidInv
  <2>4. \A k \in 1..Len(stk) : Unsent(stk[k]) => stk[k].slot # i
    BY <1>0, <1>1, <2>3 DEF ProperStack, Owned
  <2>5. ProperStack(stk', sessions, sent)
    BY <1>1, <1>2, <2>1, <2>2, <2>4, HandlerOnTop
  <2>6. StackInv'
    BY <1>0, <2>5 DEF StackInv, ProperStack, Owned
  <2>7. calls' \in [Requests -> Seq(Callbacks)] /\ AnswersMatch'
    BY <2>2, <2>3, Recorded
  <2> QED BY <1>0, <1>1, <2>6, <2>7 DEF IInv, TypeInv, SessionInv
<1>4. CASE matching = {}
  <2>1. stk' = Append(stk, Handler(0, "report", Confirms)) /\ UNCHANGED calls
    BY <1>4 DEF Deliver
  <2>2. ProperStack(stk', sessions, sent)
    BY <1>1, <1>2, <2>1, PushHandled
  <2>3. StackInv'
    BY <1>0, <2>2 DEF StackInv, ProperStack, Owned
  <2> QED BY <1>0, <1>1, <2>1, <2>3 DEF IInv, TypeInv, SessionInv, AnswersMatch
<1> QED BY <1>3, <1>4

LEMMA ServerPushKeeps == IInv /\ ServerPush => IInv'
<1> SUFFICES ASSUME IInv, ServerPush PROVE IInv'
  OBVIOUS
<1>1. /\ stk' = Append(stk, Handler(0, "report", Confirms))
      /\ pushes' \in 0..MaxPushes
      /\ UNCHANGED <<sessions, usid, sent, sidOf, calls>>
  BY RunAssumption DEF ServerPush, IInv, TypeInv
<1>2. Confirms \in 0..2 /\ "report" \in Kinds /\ ProperStack(stk, sessions, sent)
  BY DEF Confirms, Kinds, IInv, StackInv
<1>3. StackInv'
  BY <1>1, <1>2, PushHandled DEF StackInv
<1> QED BY <1>1, <1>3, SidsKept DEF IInv, TypeInv, SessionInv, AnswersMatch

LEMMA HandlerKeeps == IInv /\ (HandlerRequest \/ HandlerReturns) => IInv'
<1> SUFFICES ASSUME IInv, HandlerRequest \/ HandlerReturns PROVE IInv'
  OBVIOUS
<1>1. stk # <<>> /\ Top.fn = "handler"
  BY DEF HandlerRequest, HandlerReturns, At
<1>2. Top \in [fn : {"handler"}, slot : 0..MaxSessions, makes : Kinds, left : 0..2]
  BY <1>1, TopFrame, FrameFields
<1>3. CASE HandlerRequest
  <2> DEFINE g == [Top EXCEPT !.left = @ - 1]
  <2>1. Top.left - 1 \in 0..2 /\ Top.makes \in Kinds
    BY <1>2, <1>3 DEF HandlerRequest
  <2>2. g \in Frames /\ g.fn = "handler" /\ g.slot = Top.slot
    BY <1>2, <2>1 DEF Frames
  <2>3. BeginFails(Replace(g)) \/ \E r \in Requests : Begin(Top.makes, r, Replace(g))
    BY <1>3 DEF HandlerRequest
  <2> HIDE DEF g
  <2>4. ProperStack(Replace(g), sessions, sent)
    BY <1>1, <2>2, Replaced DEF Unsent
  <2> QED BY <2>1, <2>3, <2>4, BeginKeeps, BeginFailsKeeps
<1>4. CASE HandlerReturns
  <2>1. /\ sessions' = Released(Top.slot) /\ stk' = Caller
        /\ UNCHANGED <<usid, sent, pushes, sidOf, calls>>
    BY <1>4 DEF HandlerReturns
  <2>2. \A k \in 1..Len(Caller) : Unsent(Caller[k]) => Caller[k].slot # Top.slot
    BY <1>1, TopFrame DEF Apart
  <2>3. ProperStack(Caller, sessions', sent)
    BY <1>1, <2>1, <2>2, TopFrame, ProperReleased DEF Released, IInv, TypeInv
  <2>4. TypeInv' /\ SessionInv' /\ AnswersMatch'
    BY <2>1, ReleasedTable DEF IInv, TypeInv, AnswersMatch
  <2> QED BY <2>1, <2>3, <2>4, SidsKept DEF IInv, StackInv
<1> QED BY <1>3, <1>4

LEMMA ExpireKeeps == ASSUME IInv, NEW i \in Slots, Expire(i) PROVE IInv'
<1>1. /\ sessions[i].sid # NoSid
      /\ sessions' = [sessions EXCEPT ![i].expired = TRUE]
      /\ UNCHANGED <<usid, stk, sent, pushes, sidOf, calls>>
  BY DEF Expire, Occupied
<1>2. sessions' \in [Slots -> Sessions]
  BY <1>1 DEF IInv, TypeInv, Sessions
<1>3. \A j \in Slots : sessions'[j].sid = sessions[j].sid /\ sessions'[j].req = sessions[j].req
  BY <1>1 DEF IInv, TypeInv, Sessions
<1>4. \A j \in Slots : sessions'[j].sid = NoSid <=> sessions'[j] = NoSession
  <2>1. \A j \in Slots \ {i} : sessions'[j] = sessions[j]
    BY <1>1 DEF IInv, TypeInv
  <2>2. NoSession.sid = NoSid
    BY DEF NoSession
  <2> QED BY <1>1, <1>3, <2>1, <2>2 DEF IInv, TypeInv
<1>5. TypeInv' /\ SessionInv' /\ AnswersMatch'
  BY <1>1, <1>2, <1>3, <1>4 DEF IInv, TypeInv, SessionInv, AnswersMatch
<1>6. StackInv'
  <2>1. \A k \in 1..Len(stk) : Unsent(stk[k]) => stk[k].slot \in Slots
    BY FrameFields DEF IInv, StackInv, ProperStack, Unsent
  <2> QED BY <1>1, <1>3, <2>1 DEF IInv, StackInv, ProperStack, Owned
<1> QED BY <1>1, <1>5, <1>6, SidsKept DEF IInv

-----------------------------------------------------------------------------
(* The theorems *)

LEMMA InitInv == Init /\ SidsDiffer => IInv
<1> SUFFICES ASSUME Init, SidsDiffer PROVE IInv
  OBVIOUS
<1>1. TypeInv
  <2>1. 0 \in Usids /\ MaxPushes \in 0..MaxPushes
    BY RunAssumption DEF SidsDiffer, Usids
  <2>2. NoSession.sid = NoSid
    BY DEF NoSession
  <2> QED BY <2>1, <2>2, NoSessionType DEF Init, TypeInv
<1>2. SessionInv /\ AnswersMatch
  BY DEF Init, SessionInv, NoSession, AnswersMatch
<1>3. SidInv
  <2>1. Unused = Requests /\ usid = 0
    BY DEF Init, Unused
  <2>2. Cardinality(Requests) \in Nat /\ Cardinality(Requests) <= UsidSpace
    BY FS_CardinalityType DEF SidsDiffer
  <2> QED BY <2>1, <2>2 DEF SidInv, Init
<1>4. StackInv
  BY EmptyStack DEF Init, StackInv
<1> QED BY <1>1, <1>2, <1>3, <1>4 DEF IInv

LEMMA NextInv == IInv /\ [Next]_vars => IInv'
<1> SUFFICES ASSUME IInv, [Next]_vars PROVE IInv'
  OBVIOUS
<1>1. CASE Call \/ Yield \/ ServerPush
  BY <1>1, CallKeeps, YieldKeeps, ServerPushKeeps
<1>2. CASE ClientStep
  BY <1>2, PublishSendsKeeps, PublishEndsKeeps, YieldKeeps, ScanKeeps, HandlerKeeps DEF ClientStep
<1>3. CASE \E r \in Requests : Deliver(r)
  BY <1>3, DeliverKeeps
<1>4. CASE \E i \in Slots : Expire(i)
  BY <1>4, ExpireKeeps
<1>5. CASE UNCHANGED vars
  BY <1>5, StackStep DEF vars, IInv, StackInv
<1> QED BY <1>1, <1>2, <1>3, <1>4, <1>5 DEF Next

\* Types, and that a slot is empty exactly if it has no id.
THEOREM TypeCorrect == Spec /\ SidsDiffer => []TypeOK
<1>1. IInv => TypeOK
  BY DEF IInv, TypeInv, TypeOK, Sessions, Sids, Usids, StackInv, ProperStack
<1> QED BY <1>1, InitInv, NextInv, PTL DEF Spec

\* A reply is never handed to the callback of another request, whatever the number
\* of sessions, however late it is and whoever has its slot by then.
THEOREM AnswersAreMatched == Spec /\ SidsDiffer => []AnswersMatch
<1>1. IInv => AnswersMatch
  BY DEF IInv
<1> QED BY <1>1, InitInv, NextInv, PTL DEF Spec

\* No callback, timeout or failure nested in a publish releases the session of the
\* request that is being published.
THEOREM SessionsAreOwned == Spec /\ SidsDiffer => []OwnsItsSession
<1>1. IInv => OwnsItsSession
  <2> SUFFICES ASSUME IInv, NEW k \in DOMAIN stk, stk[k].fn = "publish", ~stk[k].sent
               PROVE  sessions[stk[k].slot].req = stk[k].req
    BY DEF OwnsItsSession
  <2>1. k \in 1..Len(stk)
    BY DEF IInv, StackInv, ProperStack
  <2> QED BY <2>1 DEF IInv, StackInv, ProperStack, Owned, Unsent
<1> QED BY <1>1, InitInv, NextInv, PTL DEF Spec

-----------------------------------------------------------------------------
(* The request table.  Every step is a step of RequestTable or leaves it      *)
(* unchanged, provided the application does not repeat requests in their own  *)
(* timeout callbacks.                                                         *)

(* The invariant: which callbacks have been made, and which are running *)

\* A publish on the stack has an id, and no callback before it has sent its request;
\* a handler that will release a slot runs the callback of the session in it.
Fine(f, table, done, sids) ==
  /\ f.fn = "publish" => sids[f.req] # NoSid /\ (~f.sent => done[f.req] = <<>>)
  /\ f.fn = "handler" /\ f.slot # 0 =>
       f.slot \in Slots /\ table[f.slot].sid # NoSid /\ done[table[f.slot].req] # <<>>
Differ(f, g) ==
  /\ f.fn = "publish" /\ g.fn = "publish" => f.req # g.req
  /\ f.fn = "handler" /\ g.fn = "handler" /\ f.slot = g.slot => f.slot = 0
FineStack(s, table, done, sids) ==
  \A k \in 1..Len(s) : /\ Fine(s[k], table, done, sids)
                       /\ \A l \in 1..Len(s) : k < l => Differ(s[k], s[l])

\* The handler that will release slot i is on the stack; on top, it makes no requests.
Handles(f, i) == f.fn = "handler" /\ f.slot = i
Nested(i, s) == \E k \in 1..Len(s) : Handles(s[k], i)
EndsNext(i, s) == s # <<>> /\ Handles(s[Len(s)], i) /\ s[Len(s)].left = 0
Running(i, s, got, r) == (r \notin got /\ Nested(i, s)) \/ EndsNext(i, s)

OneSession ==
  \A i, j \in Slots : sessions[i].sid # NoSid /\ sessions[i].req = sessions[j].req => i = j

CallsOnce ==
  \A r \in Requests : Len(calls[r]) <= 1 /\ (calls[r] # <<>> => sidOf[r] # NoSid)

\* A session whose callback has been made is about to be released, and until then no
\* answer to its request can arrive.
CalledInv ==
  \A i \in Slots : sessions[i].sid # NoSid /\ calls[sessions[i].req] # <<>> =>
    Running(i, stk, sent, sessions[i].req)

CallInv ==
  /\ Retries = FALSE
  /\ OneSession /\ CallsOnce
  /\ FineStack(stk, sessions, calls, sidOf)
  /\ CalledInv

RInv == IInv /\ CallInv

-----------------------------------------------------------------------------
(* The stack *)

LEMMA FineTop ==
  ASSUME NEW s \in Seq(Frames), s # <<>>, NEW table, NEW done, NEW sids,
         FineStack(s, table, done, sids)
  PROVE  /\ FineStack(Front(s), table, done, sids)
         /\ Fine(s[Len(s)], table, done, sids)
         /\ \A k \in 1..Len(Front(s)) : Differ(Front(s)[k], s[Len(s)])
<1> DEFINE n == Len(s)
           t == Front(s)
<1>1. n \in Nat \ {0} /\ Len(t) = n - 1 /\ \A k \in 1..(n - 1) : t[k] = s[k]
  BY Popped
<1>2. \A k \in 1..n : /\ Fine(s[k], table, done, sids)
                      /\ \A l \in 1..n : k < l => Differ(s[k], s[l])
  BY DEF FineStack
<1> HIDE DEF n, t
<1>3. n \in 1..n /\ \A k \in 1..(n - 1) : k \in 1..n /\ k < n
  BY <1>1
<1> QED BY <1>1, <1>2, <1>3 DEF FineStack, n, t

LEMMA FineAppend ==
  ASSUME NEW s \in Seq(Frames), NEW f \in Frames, NEW table, NEW done, NEW sids,
         FineStack(s, table, done, sids), Fine(f, table, done, sids),
         \A k \in 1..Len(s) : Differ(s[k], f)
  PROVE  FineStack(Append(s, f), table, done, sids)
BY Pushed DEF FineStack

LEMMA FineKept ==
  ASSUME NEW s, NEW table, NEW done, NEW sids, NEW table2, NEW done2, NEW sids2,
         FineStack(s, table, done, sids),
         \A k \in 1..Len(s) : Fine(s[k], table, done, sids) => Fine(s[k], table2, done2, sids2)
  PROVE  FineStack(s, table2, done2, sids2)
BY DEF FineStack

LEMMA NestedFront ==
  ASSUME NEW s \in Seq(Frames), s # <<>>, NEW i, Nested(i, s), ~Handles(s[Len(s)], i)
  PROVE  Nested(i, Front(s))
BY Popped DEF Nested

LEMMA NestedAppend ==
  ASSUME NEW s \in Seq(Frames), NEW f \in Frames, NEW i
  PROVE  /\ Nested(i, s) \/ Handles(f, i) => Nested(i, Append(s, f))
         /\ Handles(f, i) /\ f.left = 0 => EndsNext(i, Append(s, f))
<1>1. Nested(i, s) => Nested(i, Append(s, f))
  BY Pushed DEF Nested
<1>2. Len(s) + 1 \in 1..(Len(s) + 1) /\ Append(s, f) # <<>>
  BY Pushed
<1> QED BY <1>1, <1>2, Pushed DEF Nested, EndsNext

Called(i) == sessions[i].sid # NoSid /\ calls[sessions[i].req] # <<>>

\* Unless the top frame is its handler, the callback of a session runs further down,
\* and the answer to its request has been read.
LEMMA CalledBelow ==
  ASSUME RInv, stk # <<>>, NEW i \in Slots, Called(i), ~Handles(Top, i)
  PROVE  sessions[i].req \notin sent /\ Nested(i, Caller)
<1>1. stk \in Seq(Frames)
  BY DEF RInv, IInv, StackInv, ProperStack
<1>2. sessions[i].req \notin sent /\ Nested(i, stk)
  BY DEF RInv, CallInv, CalledInv, Called, Running, EndsNext, Top
<1> QED BY <1>1, <1>2, NestedFront DEF Top, Caller

LEMMA CalledBusy ==
  ASSUME RInv, NEW i \in Slots, Called(i), stk = <<>> \/ ~(Top.fn = "handler" /\ Top.left = 0)
  PROVE  sessions[i].req \notin sent /\ Nested(i, stk)
BY DEF RInv, CallInv, CalledInv, Called, Running, EndsNext, Top, Handles

\* The facts about the stack, its top and the frames below that the steps start from.
LEMMA TopFacts ==
  ASSUME RInv, stk # <<>>
  PROVE  /\ stk \in Seq(Frames) /\ Caller \in Seq(Frames) /\ Top \in Frames
         /\ FineStack(Caller, sessions, calls, sidOf)
         /\ Fine(Top, sessions, calls, sidOf)
         /\ \A k \in 1..Len(Caller) : Differ(Caller[k], Top)
BY FineTop, Popped DEF RInv, CallInv, IInv, StackInv, ProperStack, Top, Caller

\* A step that keeps the table, the callbacks and what the server has got, and leaves
\* the running callbacks where they are.
LEMMA CallStackStep ==
  ASSUME RInv, UNCHANGED <<sessions, calls, sidOf, sent>>,
         FineStack(stk', sessions, calls, sidOf),
         \A i \in Slots : Called(i) => Running(i, stk', sent, sessions[i].req)
  PROVE  CallInv'
BY DEF RInv, CallInv, OneSession, CallsOnce, CalledInv, Called

-----------------------------------------------------------------------------
(* The actions keep CallInv *)

LEMMA BeginCalls ==
  ASSUME RInv, NEW kind \in Kinds, NEW r \in Requests, NEW caller \in Seq(Frames),
         Begin(kind, r, caller), FineStack(caller, sessions, calls, sidOf),
         \A i \in Slots : Called(i) => sessions[i].req \notin sent /\ Nested(i, caller)
  PROVE  CallInv'
<1> DEFINE i == FirstOf(Slots \ Occupied)
           f == PublishCall(kind, r, i)
<1>0. SidsDiffer /\ TypeInv /\ SessionInv
  BY DEF RInv, IInv
<1>1. i \in Slots /\ sessions[i].sid = NoSid
  BY FirstIsMember DEF Begin, Occupied
<1>2. /\ sidOf[r] = NoSid
      /\ sessions' = Claimed(i, kind, r)
      /\ sidOf' = [sidOf EXCEPT ![r] = SessionId(usid)]
      /\ stk' = Append(caller, f)
      /\ UNCHANGED <<sent, calls>>
  BY DEF Begin
<1>3. f \in Frames /\ f.fn = "publish" /\ f.req = r
  BY <1>1, NewFrames DEF PublishCall
<1> HIDE DEF i, f
<1>4. SessionId(usid) # NoSid
  BY <1>0 DEF TypeInv, SidsDiffer
<1>5. /\ sessions'[i] = [sid |-> SessionId(usid), req |-> r, kind |-> kind, expired |-> FALSE]
      /\ \A j \in Slots \ {i} : sessions'[j] = sessions[j]
  BY <1>0, <1>1, <1>2 DEF TypeInv, Claimed
<1>6. \A q \in Requests : sidOf'[q] = IF q = r THEN SessionId(usid) ELSE sidOf[q]
  BY <1>0, <1>2 DEF TypeInv
<1>7. calls[r] = <<>> /\ CallsOnce'
  BY <1>2, <1>4, <1>6 DEF RInv, CallInv, CallsOnce
<1>8. \A j \in Slots : sessions[j].sid # NoSid => sessions[j].req \in Requests /\ sessions[j].req # r
  BY <1>0, <1>2 DEF SessionInv
<1>9. OneSession'
  <2>1. \A j \in Slots : sessions[j].sid = NoSid => sessions[j].req = NoRequest
    BY <1>0 DEF TypeInv, NoSession
  <2>2. NoRequest \notin Requests
    BY SessionsAssumption
  <2> QED BY <1>1, <1>5, <1>8, <2>1, <2>2 DEF RInv, CallInv, OneSession
<1>10. FineStack(stk', sessions', calls, sidOf')
  <2>1. ASSUME NEW k \in 1..Len(caller), Fine(caller[k], sessions, calls, sidOf)
        PROVE  Fine(caller[k], sessions', calls, sidOf') /\ Differ(caller[k], f)
    <3>1. caller[k] \in Frames
      OBVIOUS
    <3>2. CASE caller[k].fn = "publish"
      <4>1. caller[k].req \in Requests /\ sidOf[caller[k].req] # NoSid
        BY <2>1, <3>1, <3>2, FrameFields DEF Fine
      <4> QED BY <1>2, <1>3, <1>6, <2>1, <3>2, <4>1 DEF Fine, Differ
    <3>3. CASE caller[k].fn # "publish"
      BY <1>1, <1>3, <1>5, <2>1, <3>3 DEF Fine, Differ
    <3> QED BY <3>2, <3>3
  <2>2. FineStack(caller, sessions', calls, sidOf') /\ \A k \in 1..Len(caller) : Differ(caller[k], f)
    BY <2>1 DEF FineStack
  <2>3. Fine(f, sessions', calls, sidOf')
    BY <1>3, <1>4, <1>6, <1>7 DEF Fine
  <2> QED BY <1>2, <1>3, <2>2, <2>3, FineAppend
<1>11. CalledInv'
  <2> SUFFICES ASSUME NEW j \in Slots, sessions'[j].sid # NoSid, calls'[sessions'[j].req] # <<>>
               PROVE  Running(j, stk', sent', sessions'[j].req)
    BY DEF CalledInv
  <2>1. j # i
    BY <1>2, <1>5, <1>7
  <2>2. sessions'[j] = sessions[j] /\ sessions[j].req \notin sent /\ Nested(j, caller)
    BY <1>2, <1>5, <2>1 DEF Called
  <2> QED BY <1>2, <1>3, <2>2, NestedAppend DEF Running
<1> QED BY <1>2, <1>7, <1>9, <1>10, <1>11 DEF RInv, CallInv

LEMMA BeginFailsCalls ==
  ASSUME RInv, NEW caller, BeginFails(caller), FineStack(caller, sessions, calls, sidOf),
         \A i \in Slots : Called(i) => sessions[i].req \notin sent /\ Nested(i, caller)
  PROVE  CallInv'
BY CallStackStep DEF BeginFails, Running

LEMMA CallCalls == RInv /\ Call => CallInv'
<1> SUFFICES ASSUME RInv, Call PROVE CallInv'
  OBVIOUS
<1>1. stk = <<>> /\ <<>> \in Seq(Frames) /\ FineStack(<<>>, sessions, calls, sidOf)
  BY DEF Call, FineStack
<1>2. \A i \in Slots : Called(i) => sessions[i].req \notin sent /\ Nested(i, <<>>)
  BY <1>1, CalledBusy
<1> QED BY <1>1, <1>2, BeginCalls, BeginFailsCalls DEF Call

\* What a handler makes its requests from: itself, with fewer left.
LEMMA HandlerCaller ==
  ASSUME RInv, At("handler"), Top.left > 0, NEW g, g = [Top EXCEPT !.left = @ - 1]
  PROVE  /\ g \in Frames /\ g.fn = "handler" /\ Replace(g) \in Seq(Frames)
         /\ FineStack(Replace(g), sessions, calls, sidOf)
         /\ \A i \in Slots : Called(i) => sessions[i].req \notin sent /\ Nested(i, Replace(g))
<1>1. stk # <<>> /\ Top.fn = "handler"
  BY DEF At
<1>2. Top \in [fn : {"handler"}, slot : 0..MaxSessions, makes : Kinds, left : 0..2]
  BY <1>1, TopFacts, FrameFields
<1>3. g \in Frames /\ g.fn = "handler" /\ g.slot = Top.slot
  BY <1>2 DEF Frames
<1>4. FineStack(Replace(g), sessions, calls, sidOf)
  <2>1. Fine(g, sessions, calls, sidOf) /\ \A k \in 1..Len(Caller) : Differ(Caller[k], g)
    BY <1>1, <1>3, TopFacts DEF Fine, Differ
  <2> QED BY <1>1, <1>3, <2>1, TopFacts, FineAppend DEF Replace
<1>5. ASSUME NEW i \in Slots, Called(i)
      PROVE  sessions[i].req \notin sent /\ Nested(i, Replace(g))
  <2>1. sessions[i].req \notin sent /\ Nested(i, stk)
    BY <1>1, <1>2, <1>5, CalledBusy
  <2>2. Nested(i, Caller) \/ Handles(g, i)
    BY <1>1, <1>3, <2>1, TopFacts, NestedFront DEF Handles, Top, Caller
  <2> QED BY <1>1, <1>3, <2>1, <2>2, TopFacts, NestedAppend DEF Replace
<1>6. Replace(g) \in Seq(Frames)
  BY <1>1, <1>3, TopFacts, Pushed DEF Replace
<1> QED BY <1>3, <1>4, <1>5, <1>6

LEMMA HandlerRequestCalls == RInv /\ HandlerRequest => CallInv'
<1> SUFFICES ASSUME RInv, HandlerRequest PROVE CallInv'
  OBVIOUS
<1> DEFINE g == [Top EXCEPT !.left = @ - 1]
<1>1. /\ At("handler") /\ Top.left > 0
      /\ BeginFails(Replace(g)) \/ \E r \in Requests : Begin(Top.makes, r, Replace(g))
  BY DEF HandlerRequest
<1>2. Top.makes \in Kinds
  BY <1>1, TopFacts, FrameFields DEF At
<1> HIDE DEF g
<1>3. /\ Replace(g) \in Seq(Frames)
      /\ FineStack(Replace(g), sessions, calls, sidOf)
      /\ \A i \in Slots : Called(i) => sessions[i].req \notin sent /\ Nested(i, Replace(g))
  BY <1>1, HandlerCaller DEF g
<1> QED BY <1>1, <1>2, <1>3, BeginCalls, BeginFailsCalls

\* Steps that push, replace or pop a frame and change nothing else.
LEMMA PushCalls ==
  ASSUME RInv, NEW f \in Frames, stk' = Append(stk, f),
         UNCHANGED <<sessions, calls, sidOf, sent>>,
         stk = <<>> \/ ~(Top.fn = "handler" /\ Top.left = 0),
         Fine(f, sessions, calls, sidOf), \A k \in 1..Len(stk) : Differ(stk[k], f)
  PROVE  CallInv'
<1>1. stk \in Seq(Frames) /\ FineStack(stk, sessions, calls, sidOf)
  BY DEF RInv, CallInv, IInv, StackInv, ProperStack
<1>2. FineStack(stk', sessions, calls, sidOf)
  BY <1>1, FineAppend
<1>3. \A i \in Slots : Called(i) => Running(i, stk', sent, sessions[i].req)
  BY <1>1, CalledBusy, NestedAppend DEF Running
<1> QED BY <1>2, <1>3, CallStackStep

LEMMA ReplaceCalls ==
  ASSUME RInv, stk # <<>>, Top.fn # "handler",
         NEW f \in Frames, f.fn \in {"yield", "scan", "publish"},
         f.fn = "publish" => Top.fn = "publish" /\ f.req = Top.req /\ f.sent,
         stk' = Replace(f), UNCHANGED <<sessions, calls, sidOf, sent>>
  PROVE  CallInv'
<1>1. Fine(f, sessions, calls, sidOf) /\ \A k \in 1..Len(Caller) : Differ(Caller[k], f)
  BY TopFacts DEF Fine, Differ
<1>2. FineStack(stk', sessions, calls, sidOf)
  BY <1>1, TopFacts, FineAppend DEF Replace
<1>3. \A i \in Slots : Called(i) => Running(i, stk', sent, sessions[i].req)
  BY TopFacts, CalledBelow, NestedAppend DEF Running, Handles, Replace
<1> QED BY <1>2, <1>3, CallStackStep

LEMMA PopCalls ==
  ASSUME RInv, stk # <<>>, Top.fn # "handler", stk' = Caller,
         UNCHANGED <<sessions, calls, sidOf, sent>>
  PROVE  CallInv'
<1>1. FineStack(stk', sessions, calls, sidOf)
  BY TopFacts
<1>2. \A i \in Slots : Called(i) => Running(i, stk', sent, sessions[i].req)
  BY CalledBelow DEF Running, Handles
<1> QED BY <1>1, <1>2, CallStackStep

\* A handler without a session adds nothing.
LEMMA PushedPlain ==
  ASSUME NEW s \in Seq(Frames), NEW table, NEW done, NEW sids, FineStack(s, table, done, sids),
         NEW kind, NEW n, Handler(0, kind, n) \in Frames
  PROVE  FineStack(Append(s, Handler(0, kind, n)), table, done, sids)
<1>1. Handler(0, kind, n).fn = "handler" /\ Handler(0, kind, n).slot = 0
  BY DEF Handler
<1>2. Fine(Handler(0, kind, n), table, done, sids)
  BY <1>1 DEF Fine
<1>3. \A k \in 1..Len(s) : Differ(s[k], Handler(0, kind, n))
  BY <1>1 DEF Differ
<1> QED BY <1>2, <1>3, FineAppend

\* The session a reply matches is the one of its own request.
LEMMA ReplyFindsItsOwn ==
  ASSUME IInv, NEW r \in Requests, r \in sent, NEW i \in Slots, SameSession(i, sidOf[r])
  PROVE  sessions[i].req = r
<1>1. /\ sessions[i].req \in Requests /\ sidOf[sessions[i].req] # NoSid
      /\ IsPrefix(sidOf[r], sidOf[sessions[i].req]) /\ sidOf[r] # NoSid
  BY DEF IInv, SessionInv, SameSession
<1> QED BY <1>1 DEF IInv, SidInv

LEMMA YieldCalls == RInv /\ (Yield \/ YieldEnds) => CallInv'
<1> SUFFICES ASSUME RInv, Yield \/ YieldEnds PROVE CallInv'
  OBVIOUS
<1>1. CASE Yield
  <2>1. YieldCall \in Frames /\ Fine(YieldCall, sessions, calls, sidOf)
    BY NewFrames DEF YieldCall, Fine
  <2>2. stk = <<>> /\ stk' = Append(stk, YieldCall) /\ UNCHANGED <<sessions, calls, sidOf, sent>>
    BY <1>1 DEF Yield
  <2>3. \A k \in 1..Len(stk) : Differ(stk[k], YieldCall)
    BY <2>2
  <2> QED BY <2>1, <2>2, <2>3, PushCalls
<1>2. CASE YieldEnds
  <2>1. Scan(1) \in Frames /\ Scan(1).fn = "scan"
    BY NewFrames, SessionsAssumption DEF Scan
  <2> QED BY <1>2, <2>1, ReplaceCalls DEF YieldEnds, At
<1> QED BY <1>1, <1>2

\* What the server gets: a request whose callback has not been made.
LEMMA PublishSendsCalls == RInv /\ PublishSends => CallInv'
<1> SUFFICES ASSUME RInv, PublishSends PROVE CallInv'
  OBVIOUS
<1>1. /\ stk # <<>> /\ Top.fn = "publish" /\ ~Top.sent
      /\ sent' = sent \cup {Top.req}
      /\ UNCHANGED <<sessions, sidOf, calls>>
  BY DEF PublishSends, At
<1>2. Top \in [fn : {"publish"}, kind : Kinds, req : Requests, slot : Slots, sent : BOOLEAN]
  BY <1>1, TopFacts, FrameFields
<1>3. calls[Top.req] = <<>>
  BY <1>1, TopFacts DEF Fine
<1>4. \A i \in Slots : Called(i) => sessions[i].req \notin sent' /\ Nested(i, Caller)
  BY <1>1, <1>3, CalledBelow DEF Called, Handles
<1>5. FineStack(stk', sessions, calls, sidOf) /\ \A i \in Slots : Called(i) => Nested(i, stk')
  <2>1. CASE Top.kind = "get"
    <3> DEFINE g == [Top EXCEPT !.sent = TRUE]
    <3>1. g \in Frames /\ g.fn = "publish" /\ g.sent /\ g.req = Top.req
      BY <1>2 DEF Frames
    <3>2. stk' = Append(Caller, g)
      BY <2>1 DEF PublishSends, Replace
    <3> HIDE DEF g
    <3>3. Fine(g, sessions, calls, sidOf) /\ \A k \in 1..Len(Caller) : Differ(Caller[k], g)
      BY <1>1, <3>1, TopFacts DEF Fine, Differ
    <3> QED BY <1>1, <1>4, <3>1, <3>2, <3>3, TopFacts, FineAppend, NestedAppend
  <2>2. CASE Top.kind # "get"
    BY <1>1, <1>4, <2>2, TopFacts DEF PublishSends
  <2> QED BY <2>1, <2>2
<1> QED BY <1>1, <1>4, <1>5 DEF RInv, CallInv, OneSession, CallsOnce, CalledInv, Running, Called

LEMMA PublishEndsCalls == RInv /\ (PublishFails \/ PublishReturns) => CallInv'
<1> SUFFICES ASSUME RInv, PublishFails \/ PublishReturns PROVE CallInv'
  OBVIOUS
<1>1. /\ stk # <<>> /\ Top.fn = "publish" /\ stk' = Caller
      /\ UNCHANGED <<sent, sidOf, calls>>
  BY DEF PublishFails, PublishReturns, At
<1>2. CASE UNCHANGED sessions
  BY <1>1, <1>2, PopCalls
<1>3. CASE ~Top.sent /\ sessions' = Released(Top.slot)
  <2>1. Top \in [fn : {"publish"}, kind : Kinds, req : Requests, slot : Slots, sent : BOOLEAN]
    BY <1>1, TopFacts, FrameFields
  <2>2. sessions[Top.slot].req = Top.req /\ calls[Top.req] = <<>>
    BY <1>1, <1>3, TopFacts, TopFrame DEF RInv, Fine, Owned, Unsent
  <2>3. /\ \A j \in Slots \ {Top.slot} : sessions'[j] = sessions[j]
        /\ sessions'[Top.slot] = NoSession
    BY <1>3, <2>1, SessionsAssumption DEF RInv, IInv, TypeInv, Released, Slots
  <2>4. NoSession.sid = NoSid /\ NoSession.req = NoRequest
    BY DEF NoSession
  <2>5. OneSession'
    <3>1. \A j \in Slots : sessions[j].sid # NoSid => sessions[j].req \in Requests
      BY DEF RInv, IInv, SessionInv
    <3> QED BY <2>3, <2>4, <3>1, SessionsAssumption DEF RInv, CallInv, OneSession
  <2>6. FineStack(Caller, sessions', calls, sidOf)
    <3>1. \A k \in 1..Len(Caller) :
            Fine(Caller[k], sessions, calls, sidOf) => Fine(Caller[k], sessions', calls, sidOf)
      BY <2>2, <2>3 DEF Fine
    <3> QED BY <1>1, <3>1, TopFacts, FineKept
  <2>7. CalledInv'
    BY <1>1, <2>3, <2>4, CalledBelow DEF CalledInv, Called, Handles, Running
  <2> QED BY <1>1, <2>5, <2>6, <2>7 DEF RInv, CallInv, CallsOnce
<1> QED BY <1>2, <1>3 DEF PublishFails, PublishReturns

\* A callback that had not been made is made, and its handler put on top.
LEMMA CallbackMade ==
  ASSUME RInv, NEW i \in Slots, sessions[i].sid # NoSid, calls[sessions[i].req] = <<>>,
         NEW status, NEW reply, calls' = CalledBack(i, status, reply),
         NEW s \in Seq(Frames), FineStack(s, sessions, calls, sidOf),
         \A j \in Slots : Called(j) => sessions[j].req \notin sent' /\ Nested(j, s),
         NEW kind \in Kinds, NEW n \in 0..2, stk' = Append(s, Handler(i, kind, n)),
         sessions[i].req \notin sent' \/ n = 0,
         \A k \in 1..Len(s) : s[k].fn = "publish" => s[k].sent \/ s[k].req # sessions[i].req,
         UNCHANGED <<sessions, sidOf>>
  PROVE  CallInv'
<1> DEFINE q == sessions[i].req
           f == Handler(i, kind, n)
           c == [status |-> status, reply |-> reply]
<1>1. q \in Requests /\ sidOf[q] # NoSid
  BY DEF RInv, IInv, SessionInv
<1>2. \A r \in Requests : calls'[r] = IF r = q THEN Append(calls[r], c) ELSE calls[r]
  BY DEF CalledBack, RInv, IInv, TypeInv
<1>3. calls'[q] # <<>> /\ Len(calls'[q]) = 1
  <2>1. calls'[q] = Append(<<>>, c)
    BY <1>1, <1>2
  <2>2. Append(<<>>, c) # <<>> /\ Len(Append(<<>>, c)) = 1
    OBVIOUS
  <2> QED BY <2>1, <2>2
<1>4. /\ f \in Frames /\ f.fn = "handler" /\ f.slot = i /\ f.left = n
  <2>1. i \in 0..MaxSessions
    BY SessionsAssumption DEF Slots
  <2> QED BY <2>1, NewFrames DEF Handler
<1> HIDE DEF q, f, c
<1>5. CallsOnce'
  <2>1. \A r \in Requests : r # q => calls'[r] = calls[r]
    BY <1>2
  <2>2. \A r \in Requests : Len(calls[r]) <= 1 /\ (calls[r] # <<>> => sidOf[r] # NoSid)
    BY DEF RInv, CallInv, CallsOnce
  <2>3. sidOf' = sidOf
    OBVIOUS
  <2>4. ASSUME NEW r \in Requests
        PROVE  Len(calls'[r]) <= 1 /\ (calls'[r] # <<>> => sidOf'[r] # NoSid)
    <3>1. CASE r = q
      <4>1. Len(calls'[r]) = 1
        BY <1>3, <3>1
      <4>2. sidOf'[r] # NoSid
        BY <1>1, <2>3, <3>1
      <4> QED BY <4>1, <4>2
    <3>2. CASE r # q
      BY <2>1, <2>2, <2>3, <3>2
    <3> QED BY <3>1, <3>2
  <2> QED BY <2>4 DEF CallsOnce
<1>6. \A j \in Slots : sessions[j].sid # NoSid => sessions[j].req \in Requests /\ (sessions[j].req = q => j = i)
  BY DEF RInv, IInv, SessionInv, CallInv, OneSession, q
<1>7. ASSUME NEW k \in 1..Len(s), Fine(s[k], sessions, calls, sidOf)
      PROVE  Fine(s[k], sessions, calls', sidOf) /\ Differ(s[k], f)
  <2>1. s[k] \in Frames
    OBVIOUS
  <2>2. CASE s[k].fn = "publish"
    BY <1>2, <1>4, <1>7, <2>1, <2>2, FrameFields DEF Fine, Differ, q
  <2>3. CASE s[k].fn = "handler" /\ s[k].slot # 0
    BY <1>1, <1>2, <1>4, <1>6, <1>7, <2>3 DEF Fine, Differ, q
  <2>4. CASE s[k].fn = "handler" /\ s[k].slot = 0
    BY <1>4, <2>4 DEF Fine, Differ
  <2>5. CASE s[k].fn \notin {"publish", "handler"}
    BY <2>5 DEF Fine, Differ
  <2> QED BY <2>2, <2>3, <2>4, <2>5
<1>8. FineStack(stk', sessions, calls', sidOf)
  <2>1. FineStack(s, sessions, calls', sidOf) /\ \A k \in 1..Len(s) : Differ(s[k], f)
    BY <1>7 DEF FineStack
  <2>2. Fine(f, sessions, calls', sidOf)
    BY <1>1, <1>2, <1>3, <1>4 DEF Fine, q
  <2> QED BY <1>4, <2>1, <2>2, FineAppend DEF f
<1>9. CalledInv'
  <2> SUFFICES ASSUME NEW j \in Slots, sessions[j].sid # NoSid, calls'[sessions[j].req] # <<>>
               PROVE  Running(j, stk', sent', sessions[j].req)
    BY DEF CalledInv
  <2>1. CASE j = i
    BY <1>4, <2>1, NestedAppend DEF Running, Handles, q, f
  <2>2. CASE j # i
    BY <1>2, <1>4, <1>6, <2>2, NestedAppend DEF Running, Called, f
  <2> QED BY <2>1, <2>2
<1> QED BY <1>5, <1>8, <1>9 DEF RInv, CallInv, OneSession

LEMMA ScanCalls == RInv /\ (ScanSlot \/ ScanEnds) => CallInv'
<1> SUFFICES ASSUME RInv, ScanSlot \/ ScanEnds PROVE CallInv'
  OBVIOUS
<1>1. stk # <<>> /\ Top.fn = "scan" /\ Caller = <<>>
  BY TopFrame DEF ScanSlot, ScanEnds, At, RInv
<1>2. CASE ScanEnds
  BY <1>1, <1>2, PopCalls DEF ScanEnds
<1>3. CASE ScanSlot
  <2> DEFINE i == Top.slot
             s == Replace(Scan(i + 1))
  <2>1. i \in Slots /\ i + 1 \in 1..(MaxSessions + 1)
    BY <1>3, SessionsAssumption DEF ScanSlot, Slots
  <2>2. Scan(i + 1) \in Frames /\ Scan(i + 1).fn = "scan"
    BY <2>1, NewFrames DEF Scan
  <2>3. CASE ~Overdue(i)
    BY <1>1, <1>3, <2>2, <2>3, ReplaceCalls DEF ScanSlot
  <2>4. CASE Overdue(i)
    <3>1. /\ calls' = CalledBack(i, "timeout", NoRequest)
          /\ stk' = s \o <<Handler(i, "get", IF Retries THEN 1 ELSE 0)>>
          /\ sessions[i].sid # NoSid
          /\ UNCHANGED <<sessions, sidOf, sent>>
      BY <1>3, <2>4 DEF ScanSlot, Overdue, Occupied
    <3>2. s \in Seq(Frames) /\ Len(s) = 1 /\ s[1].fn = "scan" /\ FineStack(s, sessions, calls, sidOf)
      <4>1. s = Append(<<>>, Scan(i + 1))
        BY <1>1 DEF Replace
      <4>2. Fine(Scan(i + 1), sessions, calls, sidOf)
        BY <2>2 DEF Fine
      <4>3. FineStack(<<>>, sessions, calls, sidOf) /\ <<>> \in Seq(Frames)
        BY DEF FineStack
      <4>4. \A k \in 1..Len(<<>>) : Differ(<<>>[k], Scan(i + 1))
        OBVIOUS
      <4> HIDE DEF s
      <4>5. FineStack(Append(<<>>, Scan(i + 1)), sessions, calls, sidOf)
        BY <2>2, <4>2, <4>3, <4>4, FineAppend
      <4>6. /\ Append(<<>>, Scan(i + 1)) \in Seq(Frames) /\ Len(Append(<<>>, Scan(i + 1))) = 1
            /\ Append(<<>>, Scan(i + 1))[1] = Scan(i + 1)
        BY <2>2
      <4> QED BY <2>2, <4>1, <4>5, <4>6
    <3>3. 0 \in 0..2 /\ "get" \in Kinds /\ Handler(i, "get", 0) \in Frames
      BY <2>1, NewFrames, SessionsAssumption DEF Kinds, Slots
    <3>4. stk' = Append(s, Handler(i, "get", 0))
      BY <3>1, <3>2, <3>3, Pushed DEF RInv, CallInv
    <3>5. \A j \in Slots : ~Called(j)
      <4> SUFFICES ASSUME NEW j \in Slots, Called(j) PROVE FALSE
        OBVIOUS
      <4>1. Nested(j, <<>>)
        BY <1>1, CalledBelow DEF Handles
      <4> QED BY <4>1 DEF Nested
    <3> HIDE DEF i, s
    <3>6. calls[sessions[i].req] = <<>>
      BY <2>1, <3>1, <3>5 DEF Called
    <3>7. \A k \in 1..Len(s) : s[k].fn # "publish"
      BY <3>2
    <3> QED BY <2>1, <3>1, <3>2, <3>3, <3>4, <3>5, <3>6, <3>7, CallbackMade
  <2> QED BY <2>3, <2>4
<1> QED BY <1>2, <1>3

LEMMA DeliverCalls == ASSUME RInv, NEW r \in Requests, Deliver(r) PROVE CallInv'
<1> DEFINE matching == {i \in Slots : SameSession(i, sidOf[r])}
           i == FirstOf(matching)
           n == IF sessions[i].kind = "get" THEN Confirms ELSE 0
<1>0. /\ r \in sent /\ stk # <<>> /\ Top.fn \in {"yield", "publish"} /\ sent' = sent \ {r}
      /\ UNCHANGED <<sessions, sidOf>>
  BY DEF Deliver, Reading, At
<1>1. stk \in Seq(Frames) /\ FineStack(stk, sessions, calls, sidOf)
  BY DEF RInv, CallInv, IInv, StackInv, ProperStack
<1>2. Confirms \in 0..2 /\ n \in 0..2 /\ "report" \in Kinds /\ 0 \in 0..MaxSessions
  BY SessionsAssumption DEF Confirms, Kinds
<1>3. \A j \in Slots : Called(j) => sessions[j].req \notin sent /\ Nested(j, stk)
  BY <1>0, CalledBusy
<1>4. CASE matching # {}
  <2>1. i \in Slots /\ SameSession(i, sidOf[r])
    BY <1>4, FirstIsMember
  <2>2. calls' = CalledBack(i, "success", r) /\ stk' = Append(stk, Handler(i, "report", n))
    BY <1>4 DEF Deliver
  <2> HIDE DEF i, n, matching
  <2>3. sessions[i].req = r /\ sessions[i].sid # NoSid
    BY <1>0, <2>1, ReplyFindsItsOwn DEF RInv, SameSession
  <2>4. calls[sessions[i].req] = <<>>
    BY <1>0, <1>3, <2>1, <2>3 DEF Called
  <2>5. \A k \in 1..Len(stk) : stk[k].fn = "publish" => stk[k].sent \/ stk[k].req # r
    <3>1. \A k \in 1..Len(stk) : Owned(stk[k], sessions, sent) /\ stk[k] \in Frames
      BY DEF RInv, IInv, StackInv, ProperStack
    <3> QED BY <1>0, <3>1, FrameFields DEF Owned, Unsent
  <2>6. \A j \in Slots : Called(j) => sessions[j].req \notin sent' /\ Nested(j, stk)
    BY <1>0, <1>3
  <2> QED BY <1>0, <1>1, <1>2, <2>1, <2>2, <2>3, <2>4, <2>5, <2>6, CallbackMade
<1>5. CASE matching = {}
  <2>1. stk' = Append(stk, Handler(0, "report", Confirms)) /\ UNCHANGED calls
    BY <1>5 DEF Deliver
  <2>2. Handler(0, "report", Confirms) \in Frames
    BY <1>2, NewFrames
  <2>3. FineStack(stk', sessions, calls, sidOf)
    BY <1>1, <2>1, <2>2, PushedPlain
  <2>4. CalledInv'
    BY <1>0, <1>1, <1>3, <2>1, <2>2, NestedAppend DEF CalledInv, Called, Running
  <2> QED BY <1>0, <2>1, <2>3, <2>4 DEF RInv, CallInv, OneSession, CallsOnce
<1> QED BY <1>4, <1>5

LEMMA ServerPushCalls == RInv /\ ServerPush => CallInv'
<1> SUFFICES ASSUME RInv, ServerPush PROVE CallInv'
  OBVIOUS
<1>1. /\ stk' = Append(stk, Handler(0, "report", Confirms)) /\ stk # <<>>
      /\ Top.fn \in {"yield", "publish"}
      /\ UNCHANGED <<sessions, sent, sidOf, calls>>
  BY DEF ServerPush, Reading, At
<1>2. Handler(0, "report", Confirms) \in Frames
  BY NewFrames, SessionsAssumption DEF Confirms, Kinds
<1>3. stk \in Seq(Frames) /\ FineStack(stk, sessions, calls, sidOf)
  BY DEF RInv, CallInv, IInv, StackInv, ProperStack
<1>4. FineStack(stk', sessions, calls, sidOf)
  BY <1>1, <1>2, <1>3, PushedPlain
<1>5. \A j \in Slots : Called(j) => Running(j, stk', sent, sessions[j].req)
  BY <1>1, <1>2, <1>3, CalledBusy, NestedAppend DEF Running
<1> QED BY <1>1, <1>4, <1>5, CallStackStep

\* Releasing after the callback: no other session, handler or publish loses anything.
LEMMA HandlerReturnsCalls == RInv /\ HandlerReturns => CallInv'
<1> SUFFICES ASSUME RInv, HandlerReturns PROVE CallInv'
  OBVIOUS
<1> DEFINE i == Top.slot
<1>1. /\ stk # <<>> /\ Top.fn = "handler" /\ stk' = Caller /\ sessions' = Released(i)
      /\ UNCHANGED <<sent, sidOf, calls>>
  BY DEF HandlerReturns, At
<1>2. i \in 0..MaxSessions
  BY <1>1, TopFacts, FrameFields
<1>3. /\ \A j \in Slots : j # i => sessions'[j] = sessions[j]
      /\ i \in Slots => sessions'[i] = NoSession
  BY <1>1, <1>2, SessionsAssumption DEF RInv, IInv, TypeInv, Released, Slots
<1>4. NoSession.sid = NoSid /\ NoSession.req = NoRequest
  BY DEF NoSession
<1>5. OneSession'
  <2>1. \A j \in Slots : sessions[j].sid # NoSid => sessions[j].req \in Requests
    BY DEF RInv, IInv, SessionInv
  <2> QED BY <1>3, <1>4, <2>1, SessionsAssumption DEF RInv, CallInv, OneSession
<1>6. FineStack(Caller, sessions', calls, sidOf)
  <2>1. \A k \in 1..Len(Caller) :
          Fine(Caller[k], sessions, calls, sidOf) => Fine(Caller[k], sessions', calls, sidOf)
    BY <1>1, <1>3, TopFacts DEF Fine, Differ
  <2> QED BY <1>1, <2>1, TopFacts, FineKept
<1>7. CalledInv'
  <2> SUFFICES ASSUME NEW j \in Slots, sessions'[j].sid # NoSid, calls[sessions'[j].req] # <<>>
               PROVE  Running(j, Caller, sent, sessions'[j].req)
    BY <1>1 DEF CalledInv
  <2>1. j # i /\ sessions'[j] = sessions[j]
    BY <1>3, <1>4
  <2> QED BY <1>1, <2>1, CalledBelow DEF Called, Handles, Running
<1> QED BY <1>1, <1>5, <1>6, <1>7 DEF RInv, CallInv, CallsOnce

LEMMA ExpireCalls == ASSUME RInv, NEW i \in Slots, Expire(i) PROVE CallInv'
<1>1. /\ sessions' = [sessions EXCEPT ![i].expired = TRUE]
      /\ UNCHANGED <<usid, stk, sent, pushes, sidOf, calls>>
  BY DEF Expire
<1>2. \A j \in Slots : sessions'[j].sid = sessions[j].sid /\ sessions'[j].req = sessions[j].req
  BY <1>1 DEF RInv, IInv, TypeInv, Sessions
<1>3. FineStack(stk, sessions', calls, sidOf)
  <2>1. \A k \in 1..Len(stk) : Fine(stk[k], sessions, calls, sidOf) => Fine(stk[k], sessions', calls, sidOf)
    BY <1>2 DEF Fine
  <2> QED BY <2>1, FineKept DEF RInv, CallInv
<1> QED BY <1>1, <1>2, <1>3 DEF RInv, CallInv, OneSession, CallsOnce, CalledInv

LEMMA InitCalls == Init /\ Retries = FALSE => CallInv
BY DEF Init, CallInv, OneSession, CallsOnce, FineStack, CalledInv, NoSession

LEMMA NextRInv == RInv /\ [Next]_vars => RInv'
<1> SUFFICES ASSUME RInv, [Next]_vars PROVE RInv'
  OBVIOUS
<1>0. IInv'
  BY NextInv DEF RInv
<1>1. CASE Call \/ Yield \/ ServerPush
  BY <1>0, <1>1, CallCalls, YieldCalls, ServerPushCalls DEF RInv
<1>2. CASE ClientStep
  BY <1>0, <1>2, PublishSendsCalls, PublishEndsCalls, YieldCalls, ScanCalls,
     HandlerRequestCalls, HandlerReturnsCalls DEF ClientStep, RInv
<1>3. CASE \E r \in Requests : Deliver(r)
  BY <1>0, <1>3, DeliverCalls DEF RInv
<1>4. CASE \E i \in Slots : Expire(i)
  BY <1>0, <1>4, ExpireCalls DEF RInv
<1>5. CASE UNCHANGED vars
  <2>1. CallInv'
    BY <1>5 DEF vars, RInv, CallInv, OneSession, CallsOnce, CalledInv
  <2> QED BY <1>0, <2>1 DEF RInv
<1> QED BY <1>1, <1>2, <1>3, <1>4, <1>5 DEF Next

-----------------------------------------------------------------------------
(* The abstract state *)

Fates == [r \in Requests |-> Fate(r)]
Held(r) == \E i \in Slots : sessions[i].req = r
OpenIn(s) == {r \in Requests : \E k \in 1..Len(s) : s[k].fn = "publish" /\ s[k].req = r}

FateFacts ==
  \A r \in Requests :
    /\ sidOf[r] = NoSid => Fate(r) = "unused"
    /\ sidOf[r] # NoSid /\ calls[r] # <<>> =>
         Fate(r) = IF calls[r][1].status = "success" THEN "answered" ELSE "expired"
    /\ sidOf[r] # NoSid /\ calls[r] = <<>> /\ Held(r) => Fate(r) = "pending"
    /\ sidOf[r] # NoSid /\ calls[r] = <<>> /\ ~Held(r) => Fate(r) = "withdrawn"

LEMMA FatesKnown == RInv => FateFacts
<1> SUFFICES ASSUME RInv, NEW r \in Requests
             PROVE  /\ sidOf[r] = NoSid => Fate(r) = "unused"
                    /\ sidOf[r] # NoSid /\ calls[r] # <<>> =>
                         Fate(r) = IF calls[r][1].status = "success" THEN "answered" ELSE "expired"
                    /\ sidOf[r] # NoSid /\ calls[r] = <<>> /\ Held(r) => Fate(r) = "pending"
                    /\ sidOf[r] # NoSid /\ calls[r] = <<>> /\ ~Held(r) => Fate(r) = "withdrawn"
  BY DEF FateFacts
<1>1. calls[r] \in Seq(Callbacks) /\ Len(calls[r]) <= 1 /\ (calls[r] # <<>> => sidOf[r] # NoSid)
  BY DEF RInv, IInv, TypeInv, CallInv, CallsOnce
<1>2. calls[r] = <<>> => Len(calls[r]) = 0 /\ Len(calls[r]) # 1 /\ ~(Len(calls[r]) > 1)
  OBVIOUS
<1>3. calls[r] # <<>> => Len(calls[r]) = 1 /\ ~(Len(calls[r]) > 1)
  <2>1. Len(calls[r]) = 0 => calls[r] = <<>>
    BY <1>1, EmptySeq
  <2>2. Len(calls[r]) \in Nat
    BY <1>1
  <2>3. \A n \in Nat : n <= 1 /\ n # 0 => n = 1 /\ ~(n > 1)
    OBVIOUS
  <2> QED BY <1>1, <2>1, <2>2, <2>3, Zenon
<1>4. CASE sidOf[r] = NoSid
  <2>1. Len(calls[r]) # 1 /\ ~(Len(calls[r]) > 1)
    BY <1>1, <1>2, <1>4
  <2> QED BY <1>4, <2>1 DEF Fate
<1>5. CASE sidOf[r] # NoSid /\ calls[r] # <<>>
  <2>1. Len(calls[r]) = 1 /\ ~(Len(calls[r]) > 1)
    BY <1>3, <1>5
  <2> QED BY <1>5, <2>1 DEF Fate
<1>6. CASE sidOf[r] # NoSid /\ calls[r] = <<>>
  <2>1. Len(calls[r]) # 1 /\ ~(Len(calls[r]) > 1)
    BY <1>2, <1>6
  <2> QED BY <1>6, <2>1 DEF Fate, Held
<1> QED BY <1>4, <1>5, <1>6

LEMMA FatesKnownNext == RInv' => FateFacts'
BY FatesKnown, PTL

LEMMA OpenKnown == RInv => Open = OpenIn(stk)
BY DEF RInv, IInv, StackInv, ProperStack, Open, OpenIn

LEMMA OpenKnownNext == RInv' => Open' = OpenIn(stk')
<1>1. RInv' => (Open = OpenIn(stk))'
  BY OpenKnown, PTL
<1> QED BY <1>1 DEF OpenIn

LEMMA OpenAppend ==
  ASSUME NEW s \in Seq(Frames), NEW f \in Frames
  PROVE  OpenIn(Append(s, f)) = IF f.fn = "publish" THEN OpenIn(s) \cup {f.req} ELSE OpenIn(s)
<1>1. /\ Len(s) \in Nat /\ Len(Append(s, f)) = Len(s) + 1 /\ Append(s, f)[Len(s) + 1] = f
      /\ \A k \in 1..Len(s) : Append(s, f)[k] = s[k]
  BY Pushed
<1>2. f.fn = "publish" => f.req \in Requests
  BY FrameFields
<1>3. \A k \in 1..(Len(s) + 1) : k \in 1..Len(s) \/ k = Len(s) + 1
  BY <1>1
<1>4. Len(s) + 1 \in 1..(Len(s) + 1) /\ \A k \in 1..Len(s) : k \in 1..(Len(s) + 1)
  BY <1>1
<1> QED BY <1>1, <1>2, <1>3, <1>4 DEF OpenIn

LEMMA OpenTop ==
  ASSUME RInv, stk # <<>>
  PROVE  /\ Top.fn # "publish" => Open = OpenIn(Caller)
         /\ Top.fn = "publish" => /\ Top.req \in Requests \ OpenIn(Caller)
                                 /\ Open = OpenIn(Caller) \cup {Top.req}
<1>1. /\ stk \in Seq(Frames) /\ Caller \in Seq(Frames) /\ Top \in Frames
      /\ \A k \in 1..Len(Caller) : Differ(Caller[k], Top)
  BY TopFacts
<1>2. Len(stk) \in Nat \ {0} /\ Len(Caller) = Len(stk) - 1 /\ \A k \in 1..(Len(stk) - 1) : Caller[k] = stk[k]
  BY <1>1, Popped DEF Caller
<1>3. \A k \in 1..Len(stk) : k \in 1..Len(Caller) \/ k = Len(stk)
  BY <1>2
<1>4. Len(stk) \in 1..Len(stk) /\ \A k \in 1..Len(Caller) : k \in 1..Len(stk)
  BY <1>2
<1>5. Open = OpenIn(stk) /\ (Top.fn = "publish" => Top.req \in Requests)
  BY <1>1, OpenKnown, FrameFields
<1>6. Top.fn = "publish" => Top.req \notin OpenIn(Caller)
  BY <1>1 DEF OpenIn, Differ
<1>7. \A k \in 1..Len(Caller) : k \in 1..Len(stk) /\ Caller[k] = stk[k]
  BY <1>2, <1>4
<1>8. Top = stk[Len(stk)] /\ \A k \in 1..Len(stk) : k \in 1..Len(Caller) \/ stk[k] = Top
  BY <1>3 DEF Top
<1> PICK n \in Nat : n = Len(stk) /\ n \in 1..n
  BY <1>2
<1> PICK m : m = Len(Caller)
  OBVIOUS
<1> PICK top : top = Top
  OBVIOUS
<1>9. OpenIn(stk) = {r \in Requests : \E k \in 1..n : stk[k].fn = "publish" /\ stk[k].req = r}
  BY DEF OpenIn
<1> QED BY <1>4, <1>5, <1>6, <1>7, <1>8 DEF OpenIn

-----------------------------------------------------------------------------
(* Every step is an abstract step *)

AbstractStep == [Table!Next]_(Table!vars)

\* The fates change only with the ids, the callbacks and the sessions that are held.
LEMMA FatesKept ==
  ASSUME RInv, RInv', UNCHANGED <<sidOf, calls>>,
         \A r \in Requests : sidOf[r] # NoSid /\ calls[r] = <<>> => (Held(r)' <=> Held(r))
  PROVE  Fates' = Fates
<1>1. FateFacts /\ FateFacts'
  BY FatesKnown, FatesKnownNext
<1>2. \A r \in Requests : Fate(r)' = Fate(r)
  BY <1>1 DEF FateFacts
<1> QED BY <1>2 DEF Fates

LEMMA QuietStep ==
  ASSUME RInv, RInv', UNCHANGED <<sidOf, calls, sessions>>, OpenIn(stk') = OpenIn(stk)
  PROVE  AbstractStep
<1>1. Fates' = Fates
  BY FatesKept DEF Held
<1>2. Open' = Open
  BY OpenKnown, OpenKnownNext
<1> QED BY <1>1, <1>2 DEF AbstractStep, Table!vars, Fates

LEMMA BeginRefines ==
  ASSUME RInv, RInv', NEW kind \in Kinds, NEW r \in Requests, NEW caller \in Seq(Frames),
         Begin(kind, r, caller), OpenIn(caller) = Open
  PROVE  AbstractStep
<1> DEFINE i == FirstOf(Slots \ Occupied)
           f == PublishCall(kind, r, i)
<1>0. SidsDiffer /\ TypeInv /\ SessionInv /\ CallsOnce
  BY DEF RInv, IInv, CallInv
<1>1. i \in Slots /\ sessions[i].sid = NoSid
  BY FirstIsMember DEF Begin, Occupied
<1>2. /\ sidOf[r] = NoSid
      /\ sessions' = Claimed(i, kind, r)
      /\ sidOf' = [sidOf EXCEPT ![r] = SessionId(usid)]
      /\ stk' = Append(caller, f)
      /\ UNCHANGED <<sent, calls>>
  BY DEF Begin
<1>3. f \in Frames /\ f.fn = "publish" /\ f.req = r
  BY <1>1, NewFrames DEF PublishCall
<1> HIDE DEF i, f
<1>4. SessionId(usid) # NoSid
  BY <1>0 DEF TypeInv, SidsDiffer
<1>5. /\ sessions'[i].req = r
      /\ \A j \in Slots \ {i} : sessions'[j] = sessions[j]
  BY <1>0, <1>1, <1>2 DEF TypeInv, Claimed
<1>6. \A q \in Requests : sidOf'[q] = IF q = r THEN SessionId(usid) ELSE sidOf[q]
  BY <1>0, <1>2 DEF TypeInv
<1>7. sessions[i].req = NoRequest /\ NoRequest \notin Requests
  BY <1>0, <1>1, SessionsAssumption DEF TypeInv, NoSession
<1>8. FateFacts /\ FateFacts'
  BY FatesKnown, FatesKnownNext
<1>9. Fate(r) = "unused" /\ Fate(r)' = "pending"
  <2>1. Held(r)' /\ calls'[r] = <<>>
    BY <1>0, <1>1, <1>2, <1>5 DEF Held, CallsOnce
  <2> QED BY <1>2, <1>4, <1>6, <1>8, <2>1 DEF FateFacts
<1>10. \A q \in Requests \ {r} : Fate(q)' = Fate(q)
  <2>1. \A q \in Requests \ {r} : Held(q)' <=> Held(q)
    BY <1>1, <1>5, <1>7 DEF Held
  <2> QED BY <1>2, <1>6, <1>8, <2>1 DEF FateFacts
<1>11. Fates' = [Fates EXCEPT ![r] = "pending"] /\ Fates[r] = "unused"
  BY <1>9, <1>10 DEF Fates
<1>12. Open' = Open \cup {r}
  BY <1>2, <1>3, OpenAppend, OpenKnownNext
<1>13. Table!Begin(r)
  BY <1>11, <1>12 DEF Table!Begin, Table!Becomes, Fates
<1> QED BY <1>13 DEF AbstractStep, Table!Next

LEMMA BeginFailsRefines ==
  ASSUME RInv, RInv', NEW caller, BeginFails(caller), OpenIn(caller) = Open
  PROVE  AbstractStep
BY QuietStep, OpenKnown DEF BeginFails

\* The stack after the innermost call is replaced by one that is no publish.
LEMMA OpenReplaced ==
  ASSUME RInv, stk # <<>>, Top.fn # "publish", NEW f \in Frames, f.fn # "publish"
  PROVE  OpenIn(Replace(f)) = Open /\ Replace(f) \in Seq(Frames)
BY TopFacts, OpenTop, OpenAppend, Pushed DEF Replace

LEMMA CallRefines == RInv /\ RInv' /\ Call => AbstractStep
<1> SUFFICES ASSUME RInv, RInv', Call PROVE AbstractStep
  OBVIOUS
<1>1. stk = <<>> /\ <<>> \in Seq(Frames)
  BY DEF Call
<1>2. OpenIn(<<>>) = Open
  BY <1>1, OpenKnown
<1> QED BY <1>1, <1>2, BeginRefines, BeginFailsRefines DEF Call

LEMMA HandlerRequestRefines == RInv /\ RInv' /\ HandlerRequest => AbstractStep
<1> SUFFICES ASSUME RInv, RInv', HandlerRequest PROVE AbstractStep
  OBVIOUS
<1> DEFINE g == [Top EXCEPT !.left = @ - 1]
<1>1. /\ At("handler") /\ Top.left > 0
      /\ BeginFails(Replace(g)) \/ \E r \in Requests : Begin(Top.makes, r, Replace(g))
  BY DEF HandlerRequest
<1>2. Top.makes \in Kinds
  BY <1>1, TopFacts, FrameFields DEF At
<1> HIDE DEF g
<1>3. Replace(g) \in Seq(Frames) /\ OpenIn(Replace(g)) = Open
  <2>1. g \in Frames /\ g.fn = "handler"
    BY <1>1, HandlerCaller DEF g
  <2> QED BY <1>1, <2>1, OpenReplaced DEF At
<1> QED BY <1>1, <1>2, <1>3, BeginRefines, BeginFailsRefines

LEMMA YieldRefines == RInv /\ RInv' /\ (Yield \/ YieldEnds) => AbstractStep
<1> SUFFICES ASSUME RInv, RInv', Yield \/ YieldEnds PROVE AbstractStep
  OBVIOUS
<1>1. /\ YieldCall \in Frames /\ YieldCall.fn = "yield"
      /\ Scan(1) \in Frames /\ Scan(1).fn = "scan"
  BY NewFrames, SessionsAssumption DEF YieldCall, Scan
<1>2. CASE Yield
  <2>1. stk = <<>> /\ <<>> \in Seq(Frames) /\ stk' = Append(<<>>, YieldCall)
    BY <1>2 DEF Yield
  <2>2. OpenIn(stk') = OpenIn(stk)
    BY <1>1, <2>1, OpenAppend
  <2> QED BY <1>2, <2>2, QuietStep DEF Yield
<1>3. CASE YieldEnds
  <2>1. OpenIn(stk') = OpenIn(stk)
    BY <1>1, <1>3, OpenReplaced, OpenKnown DEF YieldEnds, At
  <2> QED BY <1>3, <2>1, QuietStep DEF YieldEnds
<1> QED BY <1>2, <1>3

\* The call returns and keeps the session.
LEMMA ReturnRefines ==
  ASSUME RInv, RInv', stk # <<>>, Top.fn = "publish", stk' = Caller,
         UNCHANGED <<sessions, sidOf, calls>>
  PROVE  AbstractStep
<1>1. Fates' = Fates
  BY FatesKept DEF Held
<1>2. Top.req \in Requests /\ Top.req \in Open /\ Open' = Open \ {Top.req}
  BY OpenTop, OpenKnownNext
<1>3. Table!Return(Top.req)
  BY <1>1, <1>2 DEF Table!Return, Fates
<1> QED BY <1>2, <1>3 DEF AbstractStep, Table!Next

LEMMA PublishSendsRefines == RInv /\ RInv' /\ PublishSends => AbstractStep
<1> SUFFICES ASSUME RInv, RInv', PublishSends PROVE AbstractStep
  OBVIOUS
<1> DEFINE g == [Top EXCEPT !.sent = TRUE]
<1>1. /\ stk # <<>> /\ Top.fn = "publish" /\ UNCHANGED <<sessions, sidOf, calls>>
      /\ stk' = IF Top.kind = "get" THEN Replace(g) ELSE Caller
  BY DEF PublishSends, At
<1>2. g \in Frames /\ g.fn = "publish" /\ g.req = Top.req
  <2>1. Top \in [fn : {"publish"}, kind : Kinds, req : Requests, slot : Slots, sent : BOOLEAN]
    BY <1>1, TopFacts, FrameFields
  <2> QED BY <2>1 DEF Frames
<1> HIDE DEF g
<1>3. CASE Top.kind = "get"
  <2>1. OpenIn(stk') = OpenIn(stk)
    BY <1>1, <1>2, <1>3, TopFacts, OpenTop, OpenAppend, OpenKnown DEF Replace
  <2> QED BY <1>1, <2>1, QuietStep
<1>4. CASE Top.kind # "get"
  BY <1>1, <1>4, ReturnRefines
<1> QED BY <1>3, <1>4

LEMMA PublishEndsRefines == RInv /\ RInv' /\ (PublishFails \/ PublishReturns) => AbstractStep
<1> SUFFICES ASSUME RInv, RInv', PublishFails \/ PublishReturns PROVE AbstractStep
  OBVIOUS
<1>1. /\ stk # <<>> /\ Top.fn = "publish" /\ stk' = Caller
      /\ UNCHANGED <<sidOf, calls>>
  BY DEF PublishFails, PublishReturns, At
<1>2. CASE UNCHANGED sessions
  BY <1>1, <1>2, ReturnRefines
<1>3. CASE ~Top.sent /\ sessions' = Released(Top.slot)
  <2>0. PICK q \in Requests : q = Top.req
    BY <1>1, TopFacts, FrameFields
  <2>1. Top \in [fn : {"publish"}, kind : Kinds, req : Requests, slot : Slots, sent : BOOLEAN]
    BY <1>1, TopFacts, FrameFields
  <2>2. sessions[Top.slot].req = q /\ calls[q] = <<>> /\ sidOf[q] # NoSid
    BY <1>1, <1>3, <2>0, TopFacts, TopFrame DEF RInv, Fine, Owned, Unsent
  <2>3. /\ \A j \in Slots \ {Top.slot} : sessions'[j] = sessions[j]
        /\ sessions'[Top.slot] = NoSession
    BY <1>3, <2>1, SessionsAssumption DEF RInv, IInv, TypeInv, Released, Slots
  <2>4. NoSession.req = NoRequest /\ NoSession.sid = NoSid /\ NoRequest \notin Requests
    BY SessionsAssumption DEF NoSession
  <2>5. q \in Requests /\ q \in Open /\ Open' = Open \ {q}
    BY <1>1, <2>0, OpenTop, OpenKnownNext
  <2>6. Held(q) /\ ~Held(q)'
    <3>1. \A j \in Slots : sessions[j].sid = NoSid => sessions[j] = NoSession
      BY DEF RInv, IInv, TypeInv
    <3>2. \A j \in Slots : sessions[j].req = q => j = Top.slot
      BY <2>1, <2>2, <2>4, <2>5, <3>1 DEF RInv, CallInv, OneSession
    <3> QED BY <2>1, <2>2, <2>3, <2>4, <2>5, <3>2 DEF Held
  <2>7. FateFacts /\ FateFacts'
    BY FatesKnown, FatesKnownNext
  <2>8. Fate(q) = "pending" /\ Fate(q)' = "withdrawn"
    BY <1>1, <2>2, <2>5, <2>6, <2>7 DEF FateFacts
  <2>9. \A r \in Requests \ {q} : Fate(r)' = Fate(r)
    <3>1. \A r \in Requests \ {q} : Held(r)' <=> Held(r)
      BY <2>1, <2>2, <2>3, <2>4 DEF Held
    <3> QED BY <1>1, <2>7, <3>1 DEF FateFacts
  <2>10. Fates' = [Fates EXCEPT ![q] = "withdrawn"] /\ Fates[q] = "pending"
    BY <2>5, <2>8, <2>9 DEF Fates
  <2>11. Table!Withdraw(q)
    BY <2>5, <2>10 DEF Table!Withdraw, Table!Becomes, Fates
  <2> QED BY <2>5, <2>11 DEF AbstractStep, Table!Next
<1> QED BY <1>2, <1>3 DEF PublishFails, PublishReturns

\* A callback: the fate of its request is decided, whatever runs on the stack.
LEMMA CallbackRefines ==
  ASSUME RInv, RInv', NEW i \in Slots, sessions[i].sid # NoSid, calls[sessions[i].req] = <<>>,
         NEW status \in {"success", "timeout"}, NEW reply, calls' = CalledBack(i, status, reply),
         OpenIn(stk') = Open, UNCHANGED <<sessions, sidOf>>
  PROVE  AbstractStep
<1>0. PICK q \in Requests : q = sessions[i].req
  BY DEF RInv, IInv, SessionInv
<1> DEFINE c == [status |-> status, reply |-> reply]
           to == IF status = "success" THEN "answered" ELSE "expired"
<1>1. sidOf[q] # NoSid
  BY <1>0 DEF RInv, IInv, SessionInv
<1>2. \A r \in Requests : calls'[r] = IF r = q THEN Append(calls[r], c) ELSE calls[r]
  BY <1>0 DEF CalledBack, RInv, IInv, TypeInv
<1>3. calls'[q] # <<>> /\ calls'[q][1].status = status
  <2>1. calls'[q] = Append(<<>>, c) /\ c.status = status
    BY <1>0, <1>2
  <2>2. Append(<<>>, c) # <<>> /\ Append(<<>>, c)[1] = c
    OBVIOUS
  <2> QED BY <2>1, <2>2
<1>4. Held(q) /\ Held(q)'
  BY <1>0 DEF Held
<1>5. FateFacts /\ FateFacts'
  BY FatesKnown, FatesKnownNext
<1>6. calls[q] = <<>>
  BY <1>0
<1> HIDE DEF c
<1>7. Fate(q) = "pending" /\ Fate(q)' = to
  BY <1>1, <1>3, <1>4, <1>5, <1>6 DEF FateFacts
<1>8. \A r \in Requests \ {q} : Fate(r)' = Fate(r)
  <2>1. \A r \in Requests : Held(r)' <=> Held(r)
    BY DEF Held
  <2> QED BY <1>2, <1>5, <2>1 DEF FateFacts
<1>9. Fates' = [Fates EXCEPT ![q] = to] /\ Fates[q] = "pending"
  BY <1>1, <1>7, <1>8 DEF Fates
<1>10. UNCHANGED Open
  BY OpenKnownNext
<1>11. Table!Answer(q) \/ Table!Expire(q)
  BY <1>9, <1>10 DEF Table!Answer, Table!Expire, Table!Becomes, Fates
<1> QED BY <1>1, <1>11 DEF AbstractStep, Table!Next

LEMMA ScanRefines == RInv /\ RInv' /\ (ScanSlot \/ ScanEnds) => AbstractStep
<1> SUFFICES ASSUME RInv, RInv', ScanSlot \/ ScanEnds PROVE AbstractStep
  OBVIOUS
<1>1. stk # <<>> /\ Top.fn = "scan" /\ Caller = <<>>
  BY TopFrame DEF ScanSlot, ScanEnds, At, RInv
<1>2. CASE ScanEnds
  <2>1. OpenIn(stk') = OpenIn(stk)
    BY <1>1, <1>2, OpenTop, OpenKnown DEF ScanEnds
  <2> QED BY <1>2, <2>1, QuietStep DEF ScanEnds
<1>3. CASE ScanSlot
  <2>0. PICK i \in Slots : i = Top.slot
    BY <1>3 DEF ScanSlot
  <2> DEFINE s == Replace(Scan(i + 1))
             h == Handler(i, "get", 0)
  <2>1. i + 1 \in 1..(MaxSessions + 1) /\ i \in 0..MaxSessions
    BY SessionsAssumption DEF Slots
  <2>2. /\ Scan(i + 1) \in Frames /\ Scan(i + 1).fn = "scan"
        /\ h \in Frames /\ h.fn = "handler"
    <3>1. 0 \in 0..2 /\ "get" \in Kinds
      BY DEF Kinds
    <3>2. Scan(i + 1) \in Frames /\ h \in Frames
      BY <2>1, <3>1, NewFrames
    <3> QED BY <3>2 DEF Scan, Handler
  <2> HIDE DEF h
  <2>3. OpenIn(s) = Open /\ s \in Seq(Frames)
    BY <1>1, <2>2, OpenReplaced
  <2> HIDE DEF s
  <2>4. CASE ~Overdue(i)
    <3>1. stk' = s /\ UNCHANGED <<sidOf, calls, sessions>>
      BY <1>3, <2>0, <2>4 DEF ScanSlot, s
    <3> QED BY <2>3, <3>1, QuietStep, OpenKnown
  <2>5. CASE Overdue(i)
    <3>1. /\ calls' = CalledBack(i, "timeout", NoRequest)
          /\ stk' = s \o <<h>>
          /\ sessions[i].sid # NoSid
          /\ UNCHANGED <<sessions, sidOf>>
      BY <1>3, <2>0, <2>5 DEF ScanSlot, Overdue, Occupied, RInv, CallInv, s, h
    <3>2. OpenIn(stk') = Open
      <4>1. stk' = Append(s, h)
        BY <2>2, <2>3, <3>1, Pushed
      <4>2. OpenIn(Append(s, h)) = OpenIn(s)
        BY <2>2, <2>3, OpenAppend
      <4> QED BY <2>3, <4>1, <4>2
    <3>3. calls[sessions[i].req] = <<>>
      <4> SUFFICES ASSUME Called(i) PROVE FALSE
        BY <3>1 DEF Called
      <4>1. Nested(i, <<>>)
        BY <1>1, CalledBelow DEF Handles
      <4> QED BY <4>1 DEF Nested
    <3> QED BY <3>1, <3>2, <3>3, CallbackRefines
  <2> QED BY <2>4, <2>5
<1> QED BY <1>2, <1>3

LEMMA DeliverRefines == ASSUME RInv, RInv', NEW r \in Requests, Deliver(r) PROVE AbstractStep
<1> DEFINE matching == {i \in Slots : SameSession(i, sidOf[r])}
<1>0. /\ r \in sent /\ stk # <<>> /\ Top.fn \in {"yield", "publish"}
      /\ UNCHANGED <<sessions, sidOf>>
  BY DEF Deliver, Reading, At
<1>1. stk \in Seq(Frames) /\ OpenIn(stk) = Open
  BY OpenKnown DEF RInv, IInv, StackInv, ProperStack
<1>2. ASSUME NEW i \in 0..MaxSessions, NEW n \in 0..2
      PROVE  OpenIn(Append(stk, Handler(i, "report", n))) = Open
  <2>1. Handler(i, "report", n) \in Frames /\ Handler(i, "report", n).fn = "handler"
    BY NewFrames DEF Handler, Kinds
  <2> QED BY <1>1, <2>1, OpenAppend
<1>3. CASE matching # {}
  <2>1. PICK i \in Slots : i = FirstOf(matching) /\ SameSession(i, sidOf[r])
    BY <1>3, FirstIsMember
  <2>2. /\ calls' = CalledBack(i, "success", r)
        /\ stk' = Append(stk, Handler(i, "report", IF sessions[i].kind = "get" THEN Confirms ELSE 0))
    BY <1>3, <2>1 DEF Deliver
  <2> HIDE DEF matching
  <2>3. sessions[i].req = r /\ sessions[i].sid # NoSid
    BY <1>0, <2>1, ReplyFindsItsOwn DEF RInv, SameSession
  <2>4. calls[sessions[i].req] = <<>>
    BY <1>0, <2>1, <2>3, CalledBusy DEF Called
  <2>5. OpenIn(stk') = Open
    BY <1>2, <2>2, SessionsAssumption DEF Slots, Confirms
  <2> QED BY <1>0, <2>2, <2>3, <2>4, <2>5, CallbackRefines
<1>4. CASE matching = {}
  <2>1. stk' = Append(stk, Handler(0, "report", Confirms)) /\ UNCHANGED calls
    BY <1>4 DEF Deliver
  <2>2. OpenIn(stk') = OpenIn(stk)
    BY <1>1, <1>2, <2>1, SessionsAssumption DEF Confirms
  <2> QED BY <1>0, <2>1, <2>2, QuietStep
<1> QED BY <1>3, <1>4

LEMMA ServerPushRefines == RInv /\ RInv' /\ ServerPush => AbstractStep
<1> SUFFICES ASSUME RInv, RInv', ServerPush PROVE AbstractStep
  OBVIOUS
<1>1. /\ stk' = Append(stk, Handler(0, "report", Confirms))
      /\ UNCHANGED <<sessions, sidOf, calls>>
  BY DEF ServerPush
<1>2. Handler(0, "report", Confirms) \in Frames /\ Handler(0, "report", Confirms).fn = "handler"
  <2>1. 0 \in 0..MaxSessions /\ Confirms \in 0..2 /\ "report" \in Kinds
    BY SessionsAssumption DEF Confirms, Kinds
  <2>2. Handler(0, "report", Confirms) \in Frames
    BY <2>1, NewFrames
  <2> QED BY <2>2 DEF Handler
<1>3. OpenIn(stk') = OpenIn(stk)
  BY <1>1, <1>2, OpenAppend DEF RInv, IInv, StackInv, ProperStack
<1> QED BY <1>1, <1>3, QuietStep

\* The session released is one whose callback has been made: no fate changes.
LEMMA HandlerReturnsRefines == RInv /\ RInv' /\ HandlerReturns => AbstractStep
<1> SUFFICES ASSUME RInv, RInv', HandlerReturns PROVE AbstractStep
  OBVIOUS
<1>1. /\ stk # <<>> /\ Top.fn = "handler" /\ stk' = Caller /\ sessions' = Released(Top.slot)
      /\ UNCHANGED <<sidOf, calls>>
  BY DEF HandlerReturns, At
<1>2. PICK i \in 0..MaxSessions : i = Top.slot
  BY <1>1, TopFacts, FrameFields
<1>3. /\ \A j \in Slots : j # i => sessions'[j] = sessions[j]
      /\ i \in Slots => sessions'[i] = NoSession
  BY <1>1, <1>2, SessionsAssumption DEF RInv, IInv, TypeInv, Released, Slots
<1>4. i \in Slots => calls[sessions[i].req] # <<>>
  BY <1>1, <1>2, TopFacts, SessionsAssumption DEF Fine, Slots
<1>5. NoSession.req = NoRequest /\ NoRequest \notin Requests
  BY SessionsAssumption DEF NoSession
<1>6. \A r \in Requests : calls[r] = <<>> => (Held(r)' <=> Held(r))
  BY <1>3, <1>4, <1>5 DEF Held
<1>7. Fates' = Fates
  BY <1>1, <1>6, FatesKept
<1>8. UNCHANGED Open
  BY <1>1, OpenTop, OpenKnownNext
<1> QED BY <1>7, <1>8 DEF AbstractStep, Table!vars, Fates

LEMMA ExpireRefines == ASSUME RInv, RInv', NEW i \in Slots, Expire(i) PROVE AbstractStep
<1>1. sessions' = [sessions EXCEPT ![i].expired = TRUE] /\ UNCHANGED <<stk, sidOf, calls>>
  BY DEF Expire
<1>2. \A j \in Slots : sessions'[j].req = sessions[j].req
  BY <1>1 DEF RInv, IInv, TypeInv, Sessions
<1>3. Fates' = Fates
  BY <1>1, <1>2, FatesKept DEF Held
<1>4. UNCHANGED Open
  BY <1>1, OpenKnown, OpenKnownNext
<1> QED BY <1>3, <1>4 DEF AbstractStep, Table!vars, Fates

LEMMA NextRefines == RInv /\ RInv' /\ [Next]_vars => AbstractStep
<1> SUFFICES ASSUME RInv, RInv', [Next]_vars PROVE AbstractStep
  OBVIOUS
<1>1. CASE Call \/ Yield \/ ServerPush
  BY <1>1, CallRefines, YieldRefines, ServerPushRefines
<1>2. CASE ClientStep
  BY <1>2, PublishSendsRefines, PublishEndsRefines, YieldRefines, ScanRefines,
     HandlerRequestRefines, HandlerReturnsRefines DEF ClientStep
<1>3. CASE \E r \in Requests : Deliver(r)
  BY <1>3, DeliverRefines
<1>4. CASE \E i \in Slots : Expire(i)
  BY <1>4, ExpireRefines
<1>5. CASE UNCHANGED vars
  BY <1>5, QuietStep DEF vars
<1> QED BY <1>1, <1>2, <1>3, <1>4, <1>5 DEF Next

LEMMA InitRefines == Init => Table!Init
<1> SUFFICES ASSUME Init PROVE Table!Init
  OBVIOUS
<1>1. \A r \in Requests : Fate(r) = "unused"
  BY DEF Init, Fate
<1>2. Open = {}
  BY DEF Init, Open
<1> QED BY <1>1, <1>2 DEF Table!Init

-----------------------------------------------------------------------------

\* A request is answered or timed out, never both, and never twice.
THEOREM CalledBackOnce == Spec /\ SidsDiffer /\ Retries = FALSE => []OneCallback
<1>1. Init /\ SidsDiffer /\ Retries = FALSE => RInv
  BY InitInv, InitCalls DEF RInv
<1>2. RInv => OneCallback
  BY DEF RInv, CallInv, CallsOnce, OneCallback
<1> QED BY <1>1, <1>2, NextRInv, PTL DEF Spec

\* The sessions implement the abstract table: a request's callback comes once, only
\* after it was made and only while a session holds it, and a request given up by its
\* own call is never called back.  (That each one ends is liveness.)
THEOREM ImplementsTable == Spec /\ SidsDiffer /\ Retries = FALSE => Table!Spec
<1>1. Init /\ SidsDiffer /\ Retries = FALSE => RInv
  BY InitInv, InitCalls DEF RInv
<1>2. RInv /\ RInv' /\ [Next]_vars => [Table!Next]_(Table!vars)
  BY NextRefines DEF AbstractStep
<1> QED BY <1>1, <1>2, InitRefines, NextRInv, PTL DEF Spec, Table!Spec
=============================================================================
