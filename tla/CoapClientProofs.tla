-------------------------- MODULE CoapClientProofs --------------------------
(***************************************************************************)
(* Theorems about CoapClient, for every number of sessions, requests and   *)
(* copies under way: answers are matched, with callbacks that yield too;   *)
(* without those the sessions implement RequestTable.                      *)
(***************************************************************************)
EXTENDS CoapClient, FiniteSetTheorems, SequenceTheorems, WellFoundedInduction, TLAPS

-----------------------------------------------------------------------------
(* The inductive invariant *)

Sessions == [id : 0..MaxId, req : All \cup {NoRequest}, expired : BOOLEAN]
Callbacks == [status : {"success", "timeout"}, reply : All \cup {NoRequest}]

\* A session has the id its request was sent with; an id belongs to one request; and
\* only what was sent is answered.
TableInv(table, ids) ==
  /\ table \in [Slots -> Sessions]
  /\ \A i \in Slots : /\ table[i].id = NoId <=> table[i] = NoSession
                      /\ table[i].id # NoId =>
                           table[i].req \in All /\ table[i].id = ids[table[i].req]
IdInv(ids) ==
  /\ ids \in [All -> 0..MaxId]
  /\ \A r, q \in All : ids[r] # NoId /\ ids[r] = ids[q] => r = q
ReplyInv(copies, ids) ==
  /\ copies \in [All -> 0..MaxCopies]
  /\ \A r \in All : copies[r] > 0 => ids[r] # NoId

\* Authentication starts once, before anything is sent, and then keeps its id.
Start == AuthCall("start")
Proper(s, authId) ==
  /\ s \in Seq(Frames)
  /\ \A k \in 1..Len(s) : s[k] # Start /\ (s[k].fn = "auth" => authId # NoId)
StackInv == IF stk = <<Start>> THEN \A r \in All : idOf[r] = NoId ELSE Proper(stk, idOf[Auth])

CallInv == calls \in [Requests -> Seq(Callbacks)] /\ AnswersMatch
CountInv == packetId \in 0..MaxId /\ auth \in {"initial", "success", "failed", "timeout"}

IInv ==
  /\ TableInv(sessions, idOf) /\ IdInv(idOf) /\ ReplyInv(replies, idOf)
  /\ StackInv /\ CallInv /\ CountInv

-----------------------------------------------------------------------------
(* Slots, frames and the stack *)

LEMMA FirstIsMember == \A S \in SUBSET Slots : S # {} => FirstOf(S) \in S
<1> SUFFICES ASSUME NEW S \in SUBSET Slots, S # {} PROVE FirstOf(S) \in S
  OBVIOUS
<1>1. S \subseteq Nat
  BY BoundsAssumption DEF Slots
<1>2. PICK x \in S : \A y \in S : <<y, x>> \notin OpToRel(<, Nat)
  BY <1>1, NatLessThanWellFounded, WFMin
<1>3. \A y \in S : x <= y
  <2> TAKE y \in S
  <2>1. x \in Nat /\ y \in Nat
    BY <1>1, <1>2
  <2>2. <<y, x>> \notin {ss \in Nat \X Nat : ss[1] < ss[2]}
    BY <1>2 DEF OpToRel
  <2> QED BY <2>1, <2>2
<1> QED BY <1>3 DEF FirstOf

LEMMA FrameFields ==
  \A f \in Frames :
    /\ f.fn \in {"auth", "scan", "read", "handler"}
    /\ f.fn = "auth" => f \in [fn : {"auth"}, at : {"start", "send", "loop"}]
    /\ f.fn = "scan" => f \in [fn : {"scan"}, slot : 1..(MaxSessions + 1)]
    /\ f.fn = "handler" => f \in [fn : {"handler"}, slot : Slots, left : 0..MaxCalls]
BY DEF Frames, ReadCall

LEMMA NewFrames ==
  /\ \A at \in {"start", "send", "loop"} : AuthCall(at) \in Frames /\ AuthCall(at).fn = "auth"
  /\ \A i \in 1..(MaxSessions + 1) : Scan(i) \in Frames /\ Scan(i).fn = "scan"
  /\ ReadCall \in Frames /\ ReadCall.fn = "read"
  /\ \A i \in Slots, n \in 0..MaxCalls : Handler(i, n) \in Frames /\ Handler(i, n).fn = "handler"
  /\ AuthCall("send") # Start /\ AuthCall("loop") # Start
  /\ \A f \in Frames : f.fn # "auth" => f # Start
BY DEF Frames, AuthCall, Scan, ReadCall, Handler, Start

LEMMA Popped ==
  ASSUME NEW S, NEW s \in Seq(S), s # <<>>
  PROVE  /\ Len(s) \in Nat \ {0} /\ s[Len(s)] \in S
         /\ SubSeq(s, 1, Len(s) - 1) \in Seq(S)
         /\ Len(SubSeq(s, 1, Len(s) - 1)) = Len(s) - 1
         /\ \A k \in 1..(Len(s) - 1) : SubSeq(s, 1, Len(s) - 1)[k] = s[k]
<1>1. Len(s) \in Nat \ {0} /\ s[Len(s)] \in S
  OBVIOUS
<1> QED BY <1>1, SubSeqProperties

LEMMA ProperFront ==
  ASSUME NEW s, NEW id, Proper(s, id), s # <<>>
  PROVE  Proper(Front(s), id) /\ s[Len(s)] \in Frames
<1>1. s \in Seq(Frames)
  BY DEF Proper
<1>2. /\ Len(s) \in Nat \ {0} /\ s[Len(s)] \in Frames
      /\ Front(s) \in Seq(Frames)
      /\ Len(Front(s)) = Len(s) - 1
      /\ \A k \in 1..(Len(s) - 1) : Front(s)[k] = s[k]
  BY <1>1, Popped DEF Front
<1>3. \A k \in 1..(Len(s) - 1) : s[k] # Start /\ (s[k].fn = "auth" => id # NoId)
  BY <1>2 DEF Proper
<1> QED BY <1>2, <1>3 DEF Proper

LEMMA ProperAppend ==
  ASSUME NEW s, NEW id, NEW f \in Frames, Proper(s, id), f # Start, f.fn = "auth" => id # NoId
  PROVE  Proper(Append(s, f), id)
<1>1. /\ s \in Seq(Frames) /\ Append(s, f) \in Seq(Frames) /\ Len(Append(s, f)) = Len(s) + 1
      /\ Append(s, f)[Len(s) + 1] = f /\ \A k \in 1..Len(s) : Append(s, f)[k] = s[k]
  BY DEF Proper
<1> QED BY <1>1 DEF Proper

LEMMA ProperLater ==
  ASSUME NEW s, NEW id, NEW newer, Proper(s, id), id # NoId => newer # NoId
  PROVE  Proper(s, newer)
BY DEF Proper

LEMMA ProperIsNotFresh ==
  ASSUME NEW s, NEW id, Proper(s, id)
  PROVE  s # <<Start>>
<1> SUFFICES ASSUME s = <<Start>> PROVE FALSE
  OBVIOUS
<1>1. Len(s) = 1 /\ s[1] = Start
  OBVIOUS
<1> QED BY <1>1 DEF Proper

\* Where the client is not about to start, its stack is proper.
LEMMA Started ==
  ASSUME StackInv, stk = <<>> \/ Top # Start
  PROVE  Proper(stk, idOf[Auth])
<1>1. CASE stk = <<>>
  BY <1>1 DEF StackInv
<1>2. CASE Top # Start
  <2>1. stk # <<Start>>
    BY <1>2 DEF Top
  <2> QED BY <2>1 DEF StackInv
<1> QED BY <1>1, <1>2

\* A step that leaves the ids alone and ends with a proper stack.
LEMMA StackKept ==
  ASSUME Proper(stk', idOf'[Auth])
  PROVE  StackInv'
BY ProperIsNotFresh DEF StackInv

-----------------------------------------------------------------------------
(* Sessions and callbacks *)

LEMMA NoSessionType == NoSession \in Sessions /\ NoSession.id = NoId
BY BoundsAssumption DEF NoSession, Sessions, NoId

LEMMA NextIdType ==
  ASSUME CountInv PROVE NextId \in 1..MaxId /\ NextId # NoId
BY BoundsAssumption DEF CountInv, NextId, NoId

LEMMA TableReleased ==
  ASSUME NEW table, NEW ids, NEW i, TableInv(table, ids)
  PROVE  TableInv([table EXCEPT ![i] = NoSession], ids)
BY NoSessionType DEF TableInv

LEMMA TableExpired ==
  ASSUME NEW table, NEW ids, NEW i \in Slots, TableInv(table, ids), table[i].id # NoId
  PROVE  TableInv([table EXCEPT ![i].expired = TRUE], ids)
<1>1. table[i] \in Sessions
  BY DEF TableInv
<1>2. /\ [table[i] EXCEPT !.expired = TRUE] \in Sessions
      /\ [table[i] EXCEPT !.expired = TRUE].id = table[i].id
      /\ [table[i] EXCEPT !.expired = TRUE].req = table[i].req
  BY <1>1 DEF Sessions
<1>3. [table[i] EXCEPT !.expired = TRUE] # NoSession
  BY <1>2, NoSessionType
<1> QED BY <1>2, <1>3 DEF TableInv

\* Requests sent before keep their sessions, and the new one may get a session.
LEMMA TableClaimed ==
  ASSUME NEW ids, NEW r \in All, NEW id \in 1..MaxId,
         TableInv(sessions, idOf), ids[r] = id,
         \A q \in All : idOf[q] # NoId => ids[q] = idOf[q]
  PROVE  TableInv(SessionFor(r, id), ids)
<1> DEFINE i == FirstOf(Slots \ Occupied)
           s == [id |-> id, req |-> r, expired |-> FALSE]
<1>1. TableInv(sessions, ids)
  BY DEF TableInv
<1>2. CASE Occupied = Slots
  BY <1>1, <1>2 DEF SessionFor
<1>3. CASE Occupied # Slots
  <2>1. i \in Slots
    <3>1. Slots \ Occupied \in SUBSET Slots /\ Slots \ Occupied # {}
      BY <1>3 DEF Occupied
    <3> QED BY <3>1, FirstIsMember
  <2>2. s \in Sessions /\ s.id = id /\ s.req = r /\ s.id # NoId
    BY BoundsAssumption DEF Sessions, NoId
  <2>3. s # NoSession
    BY <2>2, NoSessionType
  <2>4. SessionFor(r, id) = [sessions EXCEPT ![i] = s]
    BY <1>3 DEF SessionFor, Claimed
  <2> HIDE DEF i, s
  <2> QED BY <1>1, <2>1, <2>2, <2>3, <2>4 DEF TableInv
<1> QED BY <1>2, <1>3

LEMMA CallKeeps ==
  ASSUME CallInv, NEW r \in Requests, NEW status \in {"success", "timeout"},
         NEW reply \in All \cup {NoRequest}, status = "success" => reply = r,
         calls' = CalledBack(r, status, reply)
  PROVE  CallInv'
<1> DEFINE c == [status |-> status, reply |-> reply]
<1>1. c \in Callbacks /\ c.status = status /\ c.reply = reply
  BY DEF Callbacks
<1>2. calls \in [Requests -> Seq(Callbacks)] /\ calls' = [calls EXCEPT ![r] = Append(@, c)]
  BY DEF CallInv, CalledBack
<1> HIDE DEF c
<1>3. calls' \in [Requests -> Seq(Callbacks)]
  BY <1>1, <1>2
<1>4. ASSUME NEW q \in Requests, NEW k \in DOMAIN calls'[q], calls'[q][k].status = "success"
      PROVE  calls'[q][k].reply = q
  <2>1. CASE q # r
    <3>1. calls'[q] = calls[q]
      BY <1>2, <2>1
    <3> QED BY <1>4, <3>1 DEF CallInv, AnswersMatch
  <2>2. CASE q = r
    <3>1. calls'[r] = Append(calls[r], c) /\ calls[r] \in Seq(Callbacks)
      BY <1>2
    <3>2. CASE k = Len(calls[r]) + 1
      BY <1>1, <1>4, <2>2, <3>1, <3>2
    <3>3. CASE k # Len(calls[r]) + 1
      <4>1. k \in DOMAIN calls[r] /\ calls'[r][k] = calls[r][k]
        BY <2>2, <3>1, <3>3
      <4> QED BY <1>4, <2>2, <4>1 DEF CallInv, AnswersMatch
    <3> QED BY <3>2, <3>3
  <2> QED BY <2>1, <2>2
<1> QED BY <1>3, <1>4 DEF CallInv, AnswersMatch

\* Copies of a reply to a request that has been sent.
LEMMA WrittenKeeps ==
  ASSUME NEW r \in All, NEW n \in Copies(r), NEW ids,
         ReplyInv(replies, idOf), Written(r, n), ids[r] # NoId,
         \A q \in All : idOf[q] # NoId => ids[q] # NoId
  PROVE  ReplyInv(replies', ids)
<1>1. replies \in [All -> 0..MaxCopies] /\ \A q \in All : replies[q] > 0 => idOf[q] # NoId
  BY DEF ReplyInv
<1>2. n \in 0..(MaxCopies - replies[r])
  BY DEF Copies
<1>3. replies[r] + n \in 0..MaxCopies
  BY <1>1, <1>2, BoundsAssumption
<1>4. replies' = [replies EXCEPT ![r] = replies[r] + n]
  BY DEF Written
<1>5. replies' \in [All -> 0..MaxCopies]
  BY <1>1, <1>3, <1>4
<1> QED BY <1>1, <1>4, <1>5 DEF ReplyInv

-----------------------------------------------------------------------------
(* The parts of a step *)

LEMMA QuietStep ==
  ASSUME IInv, UNCHANGED <<sessions, packetId, replies, idOf>>,
         auth' \in {"initial", "success", "failed", "timeout"},
         calls' = calls \/ CallInv', Proper(stk', idOf[Auth])
  PROVE  IInv'
<1>1. StackInv'
  BY StackKept
<1>2. CallInv'
  BY DEF IInv, CallInv, AnswersMatch
<1> QED BY <1>1, <1>2 DEF IInv, CountInv

\* Returning, moving on within a call, and calling.
LEMMA StackMoves ==
  ASSUME StackInv, stk # <<>>, Top # Start
  PROVE  /\ Top \in Frames /\ Proper(stk, idOf[Auth]) /\ Proper(Caller, idOf[Auth])
         /\ \A f \in Frames : f.fn # "auth" => Proper(Replace(f), idOf[Auth])
         /\ Top.fn = "auth" => idOf[Auth] # NoId
<1>1. Proper(stk, idOf[Auth])
  BY Started
<1>2. Proper(Caller, idOf[Auth]) /\ Top \in Frames
  BY <1>1, ProperFront DEF Caller, Top
<1>3. \A f \in Frames : f.fn # "auth" => Proper(Replace(f), idOf[Auth])
  BY <1>2, ProperAppend, NewFrames DEF Replace
<1>4. Top.fn = "auth" => idOf[Auth] # NoId
  <2>1. Len(stk) \in 1..Len(stk)
    <3>1. stk \in Seq(Frames)
      BY <1>1 DEF Proper
    <3> QED BY <3>1
  <2> QED BY <1>1, <2>1 DEF Proper, Top
<1> QED BY <1>1, <1>2, <1>3, <1>4

LEMMA NotStart ==
  ASSUME NEW fn, At(fn), fn # "auth" \/ Top.at # "start"
  PROVE  stk # <<>> /\ Top # Start
BY DEF At, Start, AuthCall

\* A session that is taken belongs to a request of the program.
LEMMA OwnerType ==
  ASSUME IInv, NEW i \in Slots, sessions[i].id # NoId
  PROVE  sessions[i].req \in All /\ sessions[i].id = idOf[sessions[i].req]
BY DEF IInv, TableInv

-----------------------------------------------------------------------------
(* Authentication *)

LEMMA AuthStartKeeps ==
  ASSUME IInv, AuthStart
  PROVE  IInv'
<1> USE DEF AuthStart
<1>1. stk = <<Start>>
  <2>1. ~Proper(stk, idOf[Auth]) \/ Top # Start
    <3>1. ASSUME Proper(stk, idOf[Auth]), stk # <<>>
          PROVE  Top # Start
      <4>1. stk \in Seq(Frames) /\ Len(stk) \in 1..Len(stk)
        <5>1. stk \in Seq(Frames)
          BY <3>1 DEF Proper
        <5> QED BY <3>1, <5>1
      <4> QED BY <3>1, <4>1 DEF Proper, Top
    <3> QED BY <3>1 DEF At
  <2>2. ASSUME stk # <<Start>>
        PROVE  FALSE
    <3>1. Proper(stk, idOf[Auth]) /\ stk # <<>>
      BY <2>2 DEF IInv, StackInv, At
    <3>2. Top \in Frames
      BY <3>1, ProperFront DEF Top
    <3>3. Top \in [fn : {"auth"}, at : {"start", "send", "loop"}]
      BY <3>2, FrameFields DEF At
    <3>4. Top = Start
      BY <3>3 DEF Start, AuthCall
    <3> QED BY <2>1, <3>1, <3>4
  <2> QED BY <2>2
<1>2. \A r \in All : idOf[r] = NoId
  BY <1>1 DEF IInv, StackInv
<1>3. NextId \in 1..MaxId /\ NextId # NoId
  BY NextIdType DEF IInv
<1>4. Auth \in All /\ idOf \in [All -> 0..MaxId]
  BY DEF All, IInv, IdInv
<1>5. idOf'[Auth] = NextId /\ \A r \in All \ {Auth} : idOf'[r] = NoId
  BY <1>2, <1>4
<1>6. idOf' \in [All -> 0..MaxId]
  BY <1>3, <1>4
<1>7. IdInv(idOf')
  BY <1>5, <1>6 DEF IdInv
<1>8. TableInv(sessions', idOf')
  BY <1>2 DEF IInv, TableInv
<1>9. ReplyInv(replies', idOf')
  BY <1>2 DEF IInv, ReplyInv
<1>10. Proper(stk', idOf'[Auth])
  <2>1. stk' = <<AuthCall("send")>>
    <3>1. Caller = <<>>
      BY <1>1 DEF Caller, Front
    <3> QED BY <3>1 DEF Replace
  <2>2. AuthCall("send") \in Frames /\ AuthCall("send") # Start /\ AuthCall("send").fn = "auth"
    BY NewFrames
  <2> HIDE DEF AuthStart
  <2>3. stk' \in Seq(Frames) /\ Len(stk') = 1 /\ stk'[1] = AuthCall("send")
    BY <2>1, <2>2
  <2> QED BY <1>3, <1>5, <2>2, <2>3 DEF Proper
<1>11. CallInv' /\ CountInv'
  BY <1>3 DEF IInv, CallInv, CountInv, AnswersMatch
<1> QED BY <1>7, <1>8, <1>9, <1>10, <1>11, StackKept DEF IInv

LEMMA AuthSendKeeps ==
  ASSUME IInv, NEW n \in Copies(Auth), AuthSend(n)
  PROVE  IInv'
<1> USE DEF AuthSend
<1>1. stk # <<>> /\ Top # Start /\ Auth \in All
  BY NotStart DEF All
<1>2. idOf[Auth] # NoId /\ Proper(Caller, idOf[Auth])
  BY <1>1, StackMoves DEF IInv, At
<1>3. idOf[Auth] \in 1..MaxId
  <2>1. idOf[Auth] \in 0..MaxId
    BY <1>1 DEF IInv, IdInv
  <2> QED BY <1>2, <2>1 DEF NoId
<1>4. TableInv(sessions', idOf')
  BY <1>1, <1>3, TableClaimed DEF IInv
<1>5. ReplyInv(replies', idOf')
  BY <1>1, <1>2, WrittenKeeps DEF IInv
<1>6. Proper(stk', idOf'[Auth])
  BY <1>2, NewFrames, ProperAppend DEF Replace
<1>7. CallInv' /\ CountInv'
  BY DEF IInv, CallInv, CountInv, AnswersMatch
<1> QED BY <1>4, <1>5, <1>6, <1>7, StackKept DEF IInv

LEMMA AuthLoopKeeps ==
  ASSUME IInv, AuthLoop
  PROVE  IInv'
<1> USE DEF AuthLoop
<1>1. stk # <<>> /\ Top # Start
  BY NotStart
<1>2. idOf[Auth] # NoId /\ Proper(Caller, idOf[Auth]) /\ Proper(stk, idOf[Auth])
  BY <1>1, StackMoves DEF IInv, At
<1>3. 1 \in 1..(MaxSessions + 1)
  BY BoundsAssumption
<1>4. Proper(stk', idOf[Auth])
  BY <1>2, <1>3, NewFrames, ProperAppend DEF Replace
<1> QED BY <1>4, QuietStep DEF IInv, CountInv

-----------------------------------------------------------------------------
(* Requests *)

LEMMA BuildFailsKeeps ==
  ASSUME IInv, BuildFails
  PROVE  IInv'
<1> USE DEF BuildFails
<1>1. CountInv'
  BY NextIdType DEF IInv, CountInv
<1>2. StackInv' /\ CallInv'
  BY DEF IInv, StackInv, Proper, CallInv, AnswersMatch
<1> QED BY <1>1, <1>2 DEF IInv

LEMMA SendKeeps ==
  ASSUME IInv, NEW r \in Requests, NEW n \in Copies(r), NEW after, Send(r, n, after),
         Proper(after, idOf[Auth])
  PROVE  IInv'
<1> USE DEF Send
<1>1. NextId \in 1..MaxId /\ NextId # NoId
  BY NextIdType DEF IInv
<1>2. r \in All /\ Auth \in All /\ r # Auth /\ idOf \in [All -> 0..MaxId]
  BY RequestsAssumption DEF All, IInv, IdInv
<1>3. idOf'[r] = NextId /\ \A q \in All \ {r} : idOf'[q] = idOf[q]
  BY <1>2
<1>4. idOf' \in [All -> 0..MaxId]
  BY <1>1, <1>2
<1>5. \A q \in All : idOf[q] # NoId => idOf'[q] = idOf[q]
  BY <1>3
<1>6. \A q \in All : idOf[q] # NoId => idOf[q] # NextId
  BY DEF IdIsFresh
<1>7. IdInv(idOf')
  <2> SUFFICES ASSUME NEW p \in All, NEW q \in All, idOf'[p] # NoId, idOf'[p] = idOf'[q]
               PROVE  p = q
    BY <1>4 DEF IdInv
  <2>1. CASE p = r \/ q = r
    BY <1>1, <1>3, <1>6, <2>1
  <2>2. CASE p # r /\ q # r
    BY <1>3, <2>2 DEF IInv, IdInv
  <2> QED BY <2>1, <2>2
<1>8. TableInv(sessions', idOf')
  BY <1>1, <1>2, <1>3, <1>5, TableClaimed DEF IInv
<1>9. ReplyInv(replies', idOf')
  BY <1>1, <1>2, <1>3, <1>5, WrittenKeeps DEF IInv
<1>10. Proper(stk', idOf'[Auth])
  BY <1>2, <1>3
<1>11. CallInv' /\ CountInv'
  BY <1>1 DEF IInv, CallInv, CountInv, AnswersMatch
<1> QED BY <1>7, <1>8, <1>9, <1>10, <1>11, StackKept DEF IInv

LEMMA RequestKeeps ==
  ASSUME IInv, Request
  PROVE  IInv'
<1>1. CASE BuildFails
  BY <1>1, BuildFailsKeeps
<1>2. ASSUME NEW r \in Requests, NEW n \in Copies(r), Send(r, n, <<>>), stk = <<>>
      PROVE  IInv'
  <2>1. Proper(<<>>, idOf[Auth])
    BY <1>2, Started DEF IInv
  <2> QED BY <1>2, <2>1, SendKeeps
<1> QED BY <1>1, <1>2 DEF Request

LEMMA HandlerRequestKeeps ==
  ASSUME IInv, HandlerRequest
  PROVE  IInv'
<1> DEFINE caller == Replace([Top EXCEPT !.left = @ - 1])
           after == IF Nests THEN Append(caller, Scan(1)) ELSE caller
<1>1. At("handler") /\ Top.left > 0 /\ stk # <<>> /\ Top # Start
  BY NotStart DEF HandlerRequest
<1>2. Top \in [fn : {"handler"}, slot : Slots, left : 0..MaxCalls]
  BY <1>1, StackMoves, FrameFields DEF IInv, At
<1>3. [Top EXCEPT !.left = @ - 1] \in Frames /\ [Top EXCEPT !.left = @ - 1].fn # "auth"
  <2>1. Top.left - 1 \in 0..MaxCalls
    BY <1>1, <1>2, BoundsAssumption
  <2>2. [Top EXCEPT !.left = @ - 1] \in [fn : {"handler"}, slot : Slots, left : 0..MaxCalls]
    BY <1>2, <2>1
  <2> QED BY <2>2 DEF Frames
<1>4. Proper(caller, idOf[Auth])
  BY <1>1, <1>3, StackMoves DEF IInv
<1>5. Proper(after, idOf[Auth])
  <2>1. Scan(1) \in Frames /\ Scan(1).fn # "auth" /\ Scan(1) # Start
    BY BoundsAssumption, NewFrames
  <2> HIDE DEF caller
  <2> QED BY <1>4, <2>1, ProperAppend
<1>6. PICK r \in Requests : \E n \in Copies(r) : Send(r, n, after)
  BY DEF HandlerRequest
<1> HIDE DEF after
<1> QED BY <1>5, <1>6, SendKeeps

-----------------------------------------------------------------------------
(* tc_iot_coap_yield *)

LEMMA YieldKeeps ==
  ASSUME IInv, Yield
  PROVE  IInv'
<1>1. Proper(<<>>, idOf[Auth])
  BY Started DEF IInv, Yield
<1>2. Scan(1) \in Frames /\ Scan(1).fn # "auth" /\ Scan(1) # Start
  BY BoundsAssumption, NewFrames
<1>3. stk' = Append(<<>>, Scan(1))
  BY DEF Yield
<1>4. Proper(stk', idOf[Auth])
  BY <1>1, <1>2, <1>3, ProperAppend
<1> QED BY <1>4, QuietStep DEF IInv, CountInv, Yield

LEMMA ScanSlotKeeps ==
  ASSUME IInv, ScanSlot
  PROVE  IInv'
<1> DEFINE i == FirstOf(Overdue(Top.slot))
           r == sessions[i].req
           next == Replace(Scan(i + 1))
<1>1. At("scan") /\ Overdue(Top.slot) # {} /\ stk # <<>> /\ Top # Start
  BY NotStart DEF ScanSlot
<1>2. i \in Slots /\ sessions[i].id # NoId
  <2>1. Overdue(Top.slot) \in SUBSET Slots
    BY DEF Overdue, Occupied
  <2>2. i \in Overdue(Top.slot)
    BY <1>1, <2>1, FirstIsMember
  <2> QED BY <2>2 DEF Overdue, Occupied
<1>3. r \in All
  BY <1>2, OwnerType
<1>4. Scan(i + 1) \in Frames /\ Scan(i + 1).fn # "auth"
  <2> HIDE DEF i
  <2>1. i + 1 \in 1..(MaxSessions + 1)
    BY <1>2, BoundsAssumption DEF Slots
  <2> QED BY <2>1, NewFrames
<1>5. Proper(next, idOf[Auth])
  <2> HIDE DEF i
  <2> QED BY <1>1, <1>4, StackMoves DEF IInv
<1>6. \A n \in 0..MaxCalls : Proper(Append(next, Handler(i, n)), idOf[Auth])
  <2> HIDE DEF i, next
  <2> TAKE n \in 0..MaxCalls
  <2>1. Handler(i, n) \in Frames /\ Handler(i, n).fn # "auth" /\ Handler(i, n) # Start
    BY <1>2, NewFrames
  <2> QED BY <1>5, <2>1, ProperAppend
<1>7. 0 \in 0..MaxCalls /\ MaxCalls \in 0..MaxCalls
  BY BoundsAssumption
<1>8. CASE r = Auth
  <2>1. /\ auth' = "timeout" /\ stk' = Append(next, Handler(i, 0)) /\ calls' = calls
        /\ UNCHANGED <<sessions, packetId, replies, idOf>>
    BY <1>8 DEF ScanSlot
  <2> HIDE DEF next, i, r
  <2> QED BY <1>6, <1>7, <2>1, QuietStep
<1>9. CASE r # Auth
  <2>1. /\ calls' = CalledBack(r, "timeout", NoRequest)
        /\ stk' = Append(next, Handler(i, IF Nests THEN 0 ELSE MaxCalls))
        /\ auth' = auth /\ UNCHANGED <<sessions, packetId, replies, idOf>>
    BY <1>9 DEF ScanSlot
  <2>2. r \in Requests
    BY <1>3, <1>9 DEF All
  <2> HIDE DEF next, i, r
  <2>3. CallInv'
    BY <2>1, <2>2, CallKeeps DEF IInv
  <2>4. Proper(stk', idOf[Auth])
    BY <1>6, <1>7, <2>1
  <2> QED BY <2>1, <2>3, <2>4, QuietStep DEF IInv, CountInv
<1> QED BY <1>8, <1>9

LEMMA ScanEndsKeeps ==
  ASSUME IInv, ScanEnds
  PROVE  IInv'
<1>1. stk # <<>> /\ Top # Start
  BY NotStart DEF ScanEnds
<1>2. Proper(stk', idOf[Auth])
  BY <1>1, NewFrames, StackMoves DEF IInv, ScanEnds
<1> QED BY <1>2, QuietStep DEF IInv, CountInv, ScanEnds

LEMMA ReadEndsKeeps ==
  ASSUME IInv, ReadEnds
  PROVE  IInv'
<1>1. stk # <<>> /\ Top # Start
  BY NotStart DEF ReadEnds
<1>2. Proper(stk', idOf[Auth])
  BY <1>1, StackMoves DEF IInv, ReadEnds
<1> QED BY <1>2, QuietStep DEF IInv, CountInv, ReadEnds

\* The session a reply is matched to is that of its own request: ids are never shared.
LEMMA DeliverKeeps ==
  ASSUME IInv, NEW r \in All, Deliver(r)
  PROVE  IInv'
<1> DEFINE i == FirstOf(Matching(r))
           owner == sessions[i].req
<1>1. At("read") /\ replies[r] > 0 /\ stk # <<>> /\ Top # Start
  BY NotStart DEF Deliver
<1>2. idOf[r] # NoId
  BY <1>1 DEF IInv, ReplyInv
<1>3. ReplyInv(replies', idOf)
  <2>1. replies \in [All -> 0..MaxCopies] /\ replies' = [replies EXCEPT ![r] = replies[r] - 1]
    BY DEF IInv, ReplyInv, Deliver
  <2>2. replies[r] - 1 \in 0..MaxCopies /\ replies[r] - 1 < replies[r]
    BY <1>1, <2>1, BoundsAssumption
  <2>3. replies' \in [All -> 0..MaxCopies]
    BY <2>1, <2>2
  <2> QED BY <1>2, <2>1, <2>2, <2>3 DEF IInv, ReplyInv
<1>4. UNCHANGED <<sessions, packetId, idOf>>
  BY DEF Deliver
<1>5. TableInv(sessions', idOf') /\ IdInv(idOf') /\ ReplyInv(replies', idOf')
  BY <1>3, <1>4 DEF IInv
<1>6. CASE Matching(r) = {}
  <2>1. stk' = Caller /\ auth' = auth /\ calls' = calls
    BY <1>6 DEF Deliver
  <2>2. Proper(stk', idOf'[Auth])
    BY <1>1, <1>4, <2>1, StackMoves DEF IInv
  <2>3. CallInv' /\ CountInv'
    BY <1>4, <2>1 DEF IInv, CallInv, CountInv, AnswersMatch
  <2> QED BY <1>5, <2>2, <2>3, StackKept DEF IInv
<1>7. CASE Matching(r) # {}
  <2>1. i \in Slots /\ sessions[i].id = idOf[r]
    <3>1. Matching(r) \in SUBSET Slots
      BY DEF Matching
    <3>2. i \in Matching(r)
      BY <1>7, <3>1, FirstIsMember
    <3> QED BY <3>2 DEF Matching
  <2>2. owner = r
    <3> HIDE DEF i
    <3>1. owner \in All /\ sessions[i].id = idOf[owner]
      BY <1>2, <2>1, OwnerType
    <3> QED BY <1>2, <2>1, <3>1 DEF IInv, IdInv
  <2>3. \A n \in 0..MaxCalls : Proper(Replace(Handler(i, n)), idOf'[Auth])
    <3> HIDE DEF i, owner
    <3> TAKE n \in 0..MaxCalls
    <3>1. Handler(i, n) \in Frames /\ Handler(i, n).fn # "auth"
      BY <2>1, NewFrames
    <3> QED BY <1>1, <1>4, <3>1, StackMoves DEF IInv
  <2>4. 0 \in 0..MaxCalls /\ MaxCalls \in 0..MaxCalls
    BY BoundsAssumption
  <2>5. CASE owner = Auth
    <3>1. AuthAnswered /\ stk' = Replace(Handler(i, 0)) /\ calls' = calls
      BY <1>7, <2>5 DEF Deliver
    <3>2. CallInv' /\ CountInv'
      BY <1>4, <3>1 DEF IInv, CallInv, CountInv, AnswersMatch, AuthAnswered
    <3> HIDE DEF i, owner
    <3>3. Proper(stk', idOf'[Auth])
      BY <2>3, <2>4, <3>1
    <3> QED BY <1>5, <3>2, <3>3, StackKept DEF IInv
  <2>6. CASE owner # Auth
    <3>1. /\ calls' = CalledBack(owner, "success", r) /\ stk' = Replace(Handler(i, MaxCalls))
          /\ auth' = auth
      BY <1>7, <2>6 DEF Deliver
    <3> HIDE DEF i, owner
    <3>2. r \in Requests /\ calls' = CalledBack(r, "success", r)
      BY <2>2, <2>6, <3>1 DEF All
    <3>3. CallInv'
      BY <3>2, CallKeeps DEF IInv
    <3>4. CountInv'
      BY <1>4, <3>1 DEF IInv, CountInv
    <3>5. Proper(stk', idOf'[Auth])
      BY <2>3, <2>4, <3>1
    <3> QED BY <1>5, <3>3, <3>4, <3>5, StackKept DEF IInv
  <2> QED BY <2>5, <2>6
<1> QED BY <1>6, <1>7

LEMMA HandlerReturnsKeeps ==
  ASSUME IInv, HandlerReturns
  PROVE  IInv'
<1> USE DEF HandlerReturns
<1>1. stk # <<>> /\ Top # Start
  BY NotStart
<1>2. TableInv(sessions', idOf')
  BY TableReleased DEF IInv, Released
<1>3. Proper(stk', idOf'[Auth])
  BY <1>1, StackMoves DEF IInv
<1>4. CallInv' /\ CountInv'
  BY DEF IInv, CallInv, CountInv, AnswersMatch
<1> QED BY <1>2, <1>3, <1>4, StackKept DEF IInv

LEMMA ExpireKeeps ==
  ASSUME IInv, NEW i \in Slots, Expire(i)
  PROVE  IInv'
<1> USE DEF Expire
<1>1. TableInv(sessions', idOf')
  BY TableExpired DEF IInv, Occupied
<1>2. CallInv' /\ CountInv' /\ StackInv'
  BY DEF IInv, CallInv, CountInv, AnswersMatch, StackInv, Proper
<1> QED BY <1>1, <1>2 DEF IInv

-----------------------------------------------------------------------------
(* The theorems *)

LEMMA InitHolds == Init => IInv
<1> SUFFICES ASSUME Init PROVE IInv
  OBVIOUS
<1> USE DEF Init
<1>1. TableInv(sessions, idOf)
  BY NoSessionType DEF TableInv
<1>2. 0 \in 0..MaxId /\ 0 \in 0..MaxCopies
  BY BoundsAssumption
<1>3. IdInv(idOf) /\ ReplyInv(replies, idOf)
  BY <1>2 DEF IdInv, ReplyInv, NoId
<1>4. StackInv
  BY DEF StackInv, Start
<1>5. CallInv /\ CountInv
  BY <1>2 DEF CallInv, CountInv, AnswersMatch
<1> QED BY <1>1, <1>3, <1>4, <1>5 DEF IInv

LEMMA Inductive == IInv /\ [Next]_vars => IInv'
<1> SUFFICES ASSUME IInv, [Next]_vars PROVE IInv'
  OBVIOUS
<1>1. CASE ClientStep
  BY <1>1, AuthStartKeeps, AuthLoopKeeps, AuthSendKeeps, ScanSlotKeeps, ScanEndsKeeps,
     ReadEndsKeeps, HandlerRequestKeeps, HandlerReturnsKeeps DEF ClientStep
<1>2. CASE Request
  BY <1>2, RequestKeeps
<1>3. CASE Yield
  BY <1>3, YieldKeeps
<1>4. CASE \E r \in All : Deliver(r)
  BY <1>4, DeliverKeeps
<1>5. CASE \E i \in Slots : Expire(i)
  BY <1>5, ExpireKeeps
<1>6. CASE UNCHANGED vars
  BY <1>6 DEF vars, IInv, TableInv, IdInv, ReplyInv, StackInv, Proper, CallInv, AnswersMatch, CountInv
<1> QED BY <1>1, <1>2, <1>3, <1>4, <1>5, <1>6 DEF Next

LEMMA InvariantHolds == Spec => []IInv
BY InitHolds, Inductive, PTL DEF Spec

\* Types: a slot is free exactly when its id is 0, whatever the table holds and however
\* deep callbacks and yields nest.
THEOREM TypeCorrect == Spec => []TypeOK
<1>1. IInv => TypeOK
  <2> SUFFICES ASSUME IInv PROVE TypeOK
    OBVIOUS
  <2>1. stk \in Seq(Frames)
    <3>1. CASE stk = <<Start>>
      BY <3>1, NewFrames DEF Start
    <3>2. CASE stk # <<Start>>
      BY <3>2 DEF IInv, StackInv, Proper
    <3> QED BY <3>1, <3>2
  <2> QED BY <2>1 DEF TypeOK, IInv, TableInv, Sessions, IdInv, ReplyInv, CountInv
<1> QED BY <1>1, InvariantHolds, PTL

\* A callback that is told of success gets the reply to its own request: for every size
\* of the table, with replies lost, repeated, late and out of order, and with callbacks
\* that send and yield.
THEOREM AnswersAreMatched == Spec => []AnswersMatch
<1>1. IInv => AnswersMatch
  BY DEF IInv, CallInv
<1> QED BY <1>1, InvariantHolds, PTL

-----------------------------------------------------------------------------
(* The request table: without a yield inside a callback, only the innermost *)
(* call can be a callback, and its session is the one with a call made.     *)

Plain(s) == \A k \in 1..Len(s) : s[k].fn # "handler"
Handles(i) == At("handler") /\ Top.slot = i
Held(r) == \E i \in Slots : sessions[i].req = r

OneSession ==
  \A i, j \in Slots : sessions[i].req \in Requests /\ sessions[i].req = sessions[j].req => i = j
CallsOnce ==
  \A r \in Requests : Len(calls[r]) <= 1 /\ (calls[r] # <<>> => idOf[r] # NoId)
FlatStack == stk # <<>> => Plain(Caller)
HandledInv ==
  \A i \in Slots :
    /\ Handles(i) => sessions[i].id # NoId
    /\ sessions[i].req \in Requests => (Handles(i) <=> calls[sessions[i].req] # <<>>)

OnceInv == OneSession /\ CallsOnce /\ FlatStack /\ HandledInv
OInv == IInv /\ OnceInv /\ ~Nests

LEMMA StackType == IInv => stk \in Seq(Frames)
<1> SUFFICES ASSUME IInv PROVE stk \in Seq(Frames)
  OBVIOUS
<1>1. CASE stk = <<Start>>
  BY <1>1, NewFrames DEF Start
<1>2. CASE stk # <<Start>>
  BY <1>2 DEF IInv, StackInv, Proper
<1> QED BY <1>1, <1>2

LEMMA Calling ==
  ASSUME OInv, stk # <<>>
  PROVE  /\ stk \in Seq(Frames) /\ Caller \in Seq(Frames) /\ Top \in Frames /\ Plain(Caller)
         /\ Top.fn # "handler" => Plain(stk)
<1>1. stk \in Seq(Frames)
  BY StackType DEF OInv
<1>2. /\ Len(stk) \in Nat \ {0} /\ Top \in Frames /\ Caller \in Seq(Frames)
      /\ Len(Caller) = Len(stk) - 1
      /\ \A k \in 1..(Len(stk) - 1) : Caller[k] = stk[k]
  BY <1>1, Popped DEF Caller, Front, Top
<1>3. Plain(Caller)
  BY DEF OInv, OnceInv, FlatStack
<1>4. ASSUME Top.fn # "handler", NEW k \in 1..Len(stk) PROVE stk[k].fn # "handler"
  <2>1. CASE k = Len(stk)
    BY <1>4, <2>1 DEF Top
  <2>2. CASE k # Len(stk)
    <3>1. k \in 1..Len(Caller) /\ Caller[k] = stk[k]
      BY <1>2, <2>2
    <3> QED BY <1>3, <3>1 DEF Plain
  <2> QED BY <2>1, <2>2
<1> QED BY <1>1, <1>2, <1>3, <1>4 DEF Plain

LEMMA Idle == OInv /\ stk = <<>> => stk \in Seq(Frames) /\ Plain(stk)
BY StackType DEF OInv, Plain

LEMMA PlainAppend ==
  ASSUME NEW s \in Seq(Frames), Plain(s), NEW f \in Frames, f.fn # "handler"
  PROVE  Append(s, f) \in Seq(Frames) /\ Plain(Append(s, f))
<1>1. /\ Append(s, f) \in Seq(Frames) /\ Len(Append(s, f)) = Len(s) + 1
      /\ Append(s, f)[Len(s) + 1] = f /\ \A k \in 1..Len(s) : Append(s, f)[k] = s[k]
  OBVIOUS
<1> QED BY <1>1 DEF Plain

\* The innermost call after a push, and after a return.
LEMMA Pushes ==
  ASSUME NEW s \in Seq(Frames), Plain(s), NEW f \in Frames, stk' = Append(s, f)
  PROVE  FlatStack' /\ \A i \in Slots : Handles(i)' <=> f.fn = "handler" /\ f.slot = i
<1>1. /\ stk' \in Seq(Frames) /\ Len(stk') = Len(s) + 1 /\ stk' # <<>>
      /\ stk'[Len(stk')] = f /\ \A k \in 1..Len(s) : stk'[k] = s[k]
  OBVIOUS
<1>2. /\ Len(SubSeq(stk', 1, Len(stk') - 1)) = Len(stk') - 1
      /\ \A k \in 1..(Len(stk') - 1) : SubSeq(stk', 1, Len(stk') - 1)[k] = stk'[k]
  BY <1>1, Popped
<1>3. Plain(Caller')
  BY <1>1, <1>2 DEF Plain, Caller, Front
<1>4. FlatStack'
  BY <1>3 DEF FlatStack, Plain
<1>5. ASSUME NEW i \in Slots PROVE Handles(i)' <=> f.fn = "handler" /\ f.slot = i
  BY <1>1 DEF Handles, At, Top
<1> QED BY <1>4, <1>5

LEMMA Returns ==
  ASSUME stk' \in Seq(Frames), Plain(stk')
  PROVE  FlatStack' /\ \A i \in Slots : ~Handles(i)'
<1>1. ASSUME stk' # <<>>
      PROVE  Plain(Caller') /\ stk'[Len(stk')].fn # "handler"
  <2>1. /\ Len(stk') \in Nat \ {0}
        /\ Len(SubSeq(stk', 1, Len(stk') - 1)) = Len(stk') - 1
        /\ \A k \in 1..(Len(stk') - 1) : SubSeq(stk', 1, Len(stk') - 1)[k] = stk'[k]
    BY <1>1, Popped
  <2>2. Len(stk') \in 1..Len(stk')
    BY <2>1
  <2> QED BY <2>1, <2>2 DEF Plain, Caller, Front
<1>2. FlatStack'
  BY <1>1 DEF FlatStack, Plain
<1>3. ASSUME NEW i \in Slots PROVE ~Handles(i)'
  BY <1>1 DEF Handles, At, Top
<1> QED BY <1>2, <1>3

\* Where the call on top is no callback, nothing is being called back.
LEMMA NothingHandled ==
  ASSUME OInv, stk = <<>> \/ Top.fn # "handler"
  PROVE  /\ \A i \in Slots : ~Handles(i)
         /\ \A i \in Slots : sessions[i].req \in Requests => calls[sessions[i].req] = <<>>
BY DEF OInv, OnceInv, HandledInv, Handles, At

-----------------------------------------------------------------------------
(* What a step does to the table *)

LEMMA SlotClaimed ==
  ASSUME IInv, NEW r, NEW id, sessions' = SessionFor(r, id)
  PROVE  \/ sessions' = sessions
         \/ \E i \in Slots :
              /\ sessions[i].id = NoId /\ sessions[i].req = NoRequest
              /\ sessions'[i].id = id /\ sessions'[i].req = r
              /\ \A j \in Slots \ {i} : sessions'[j] = sessions[j]
<1>1. CASE Occupied = Slots
  BY <1>1 DEF SessionFor
<1>2. CASE Occupied # Slots
  <2>1. Slots \ Occupied \in SUBSET Slots /\ Slots \ Occupied # {}
    BY <1>2 DEF Occupied
  <2>2. PICK i \in Slots : i = FirstOf(Slots \ Occupied) /\ i \notin Occupied
    BY <2>1, FirstIsMember
  <2>3. sessions' = [sessions EXCEPT ![i] = [id |-> id, req |-> r, expired |-> FALSE]]
    BY <1>2, <2>2 DEF SessionFor, Claimed
  <2>4. sessions \in [Slots -> Sessions] /\ sessions[i].id = NoId /\ sessions[i] = NoSession
    BY <2>2 DEF Occupied, IInv, TableInv
  <2>5. sessions[i].req = NoRequest
    BY <2>4 DEF NoSession
  <2>6. /\ sessions'[i] = [id |-> id, req |-> r, expired |-> FALSE]
        /\ \A j \in Slots \ {i} : sessions'[j] = sessions[j]
    BY <2>3, <2>4
  <2>7. sessions'[i].id = id /\ sessions'[i].req = r
    BY <2>6
  <2>8. /\ sessions[i].id = NoId /\ sessions[i].req = NoRequest
        /\ sessions'[i].id = id /\ sessions'[i].req = r
        /\ \A j \in Slots \ {i} : sessions'[j] = sessions[j]
    BY <2>4, <2>5, <2>6, <2>7
  <2> QED BY <2>8
<1> QED BY <1>1, <1>2

LEMMA NoOwner == NoRequest \notin All /\ Auth \notin Requests /\ NoRequest \notin Requests
BY RequestsAssumption DEF All

LEMMA HeldWasSent ==
  ASSUME IInv, NEW i \in Slots, sessions[i].req \in Requests
  PROVE  sessions[i].id # NoId /\ idOf[sessions[i].req] # NoId
<1>1. sessions[i].id # NoId
  <2>1. sessions[i].id = NoId => sessions[i].req = NoRequest
    BY DEF IInv, TableInv, NoSession
  <2> QED BY <2>1, NoOwner
<1> QED BY <1>1, OwnerType

LEMMA RequestsKept ==
  ASSUME OInv, FlatStack', \A i \in Slots : Handles(i)' <=> Handles(i), UNCHANGED calls,
         \A i \in Slots : sessions'[i].id = sessions[i].id /\ sessions'[i].req = sessions[i].req,
         \A r \in Requests : idOf[r] # NoId => idOf'[r] # NoId
  PROVE  OnceInv'
<1>1. OneSession'
  BY DEF OInv, OnceInv, OneSession
<1>2. CallsOnce'
  BY DEF OInv, OnceInv, CallsOnce
<1>3. HandledInv'
  BY DEF OInv, OnceInv, HandledInv
<1> QED BY <1>1, <1>2, <1>3 DEF OnceInv

LEMMA ClaimOnce ==
  ASSUME OInv, NEW r \in All, NEW id, id # NoId, sessions' = SessionFor(r, id),
         r \in Requests => idOf[r] = NoId,
         FlatStack', \A i \in Slots : Handles(i)' <=> Handles(i), UNCHANGED calls,
         \A q \in Requests : idOf[q] # NoId => idOf'[q] # NoId
  PROVE  OnceInv'
<1>1. CASE sessions' = sessions
  BY <1>1, RequestsKept
<1>2. CASE sessions' # sessions
  <2>1. PICK i \in Slots :
          /\ sessions[i].id = NoId /\ sessions[i].req = NoRequest
          /\ sessions'[i].id = id /\ sessions'[i].req = r
          /\ \A j \in Slots \ {i} : sessions'[j] = sessions[j]
    BY <1>2, SlotClaimed DEF OInv
  <2>2. \A j \in Slots : r \in Requests => sessions[j].req # r
    BY HeldWasSent DEF OInv
  <2>3. r \in Requests => calls[r] = <<>>
    BY DEF OInv, OnceInv, CallsOnce
  <2>4. ~Handles(i)
    BY <2>1 DEF OInv, OnceInv, HandledInv
  <2>5. OneSession'
    BY <2>1, <2>2 DEF OInv, OnceInv, OneSession
  <2>6. CallsOnce'
    BY DEF OInv, OnceInv, CallsOnce
  <2>7. HandledInv'
    <3> SUFFICES ASSUME NEW j \in Slots
                 PROVE  /\ Handles(j)' => sessions'[j].id # NoId
                        /\ sessions'[j].req \in Requests =>
                             (Handles(j)' <=> calls'[sessions'[j].req] # <<>>)
      BY DEF HandledInv
    <3>1. CASE j = i
      BY <2>1, <2>3, <2>4, <3>1
    <3>2. CASE j # i
      BY <2>1, <3>2 DEF OInv, OnceInv, HandledInv
    <3> QED BY <3>1, <3>2
  <2> QED BY <2>5, <2>6, <2>7 DEF OnceInv
<1> QED BY <1>1, <1>2

LEMMA CalledOne ==
  ASSUME OInv, NEW q \in Requests, calls[q] = <<>>, NEW status, NEW reply,
         calls' = CalledBack(q, status, reply)
  PROVE  /\ calls'[q] = <<[status |-> status, reply |-> reply]>>
         /\ Len(calls'[q]) = 1 /\ calls'[q] # <<>>
         /\ \A r \in Requests \ {q} : calls'[r] = calls[r]
<1> DEFINE c == [status |-> status, reply |-> reply]
<1>1. calls' = [calls EXCEPT ![q] = Append(@, c)] /\ DOMAIN calls = Requests
  BY DEF CalledBack, OInv, IInv, CallInv
<1> HIDE DEF c
<1>2. calls'[q] = Append(<<>>, c) /\ \A r \in Requests \ {q} : calls'[r] = calls[r]
  BY <1>1
<1>3. Append(<<>>, c) = <<c>> /\ Len(<<c>>) = 1 /\ <<c>> # <<>>
  OBVIOUS
<1> QED BY <1>2, <1>3 DEF c

LEMMA CallbackOnce ==
  ASSUME OInv, NEW i \in Slots, sessions[i].req \in Requests,
         calls[sessions[i].req] = <<>>,
         NEW status, NEW reply, calls' = CalledBack(sessions[i].req, status, reply),
         FlatStack', \A j \in Slots : Handles(j)' <=> j = i, \A j \in Slots : ~Handles(j),
         UNCHANGED <<sessions, idOf>>
  PROVE  OnceInv'
<1>0. PICK q \in Requests : q = sessions[i].req
  OBVIOUS
<1>1. /\ Len(calls'[q]) = 1 /\ calls'[q] # <<>>
      /\ \A r \in Requests \ {q} : calls'[r] = calls[r]
  BY <1>0, CalledOne
<1>2. idOf[q] # NoId /\ sessions[i].id # NoId
  BY <1>0, HeldWasSent DEF OInv
<1>3. OneSession'
  BY DEF OInv, OnceInv, OneSession
<1>4. CallsOnce'
  <2> SUFFICES ASSUME NEW r \in Requests
               PROVE  Len(calls'[r]) <= 1 /\ (calls'[r] # <<>> => idOf'[r] # NoId)
    BY DEF CallsOnce
  <2>1. CASE r = q
    <3>1. Len(calls'[r]) = 1
      BY <1>1, <2>1
    <3>2. Len(calls'[r]) <= 1
      BY <3>1
    <3>3. idOf'[r] # NoId
      BY <1>2, <2>1
    <3> QED BY <3>2, <3>3
  <2>2. CASE r # q
    <3>1. calls'[r] = calls[r]
      BY <1>1, <2>2
    <3> QED BY <3>1 DEF OInv, OnceInv, CallsOnce
  <2> QED BY <2>1, <2>2
<1>5. HandledInv'
  <2> SUFFICES ASSUME NEW j \in Slots
               PROVE  /\ Handles(j)' => sessions'[j].id # NoId
                      /\ sessions'[j].req \in Requests =>
                           (Handles(j)' <=> calls'[sessions'[j].req] # <<>>)
    BY DEF HandledInv
  <2>1. CASE j = i
    BY <1>0, <1>1, <1>2, <2>1
  <2>2. CASE j # i
    <3>1. sessions[j].req # q
      BY <1>0, <2>2 DEF OInv, OnceInv, OneSession
    <3>2. sessions[j].req \in Requests => calls'[sessions[j].req] = <<>>
      BY <1>1, <3>1 DEF OInv, OnceInv, HandledInv
    <3> QED BY <2>2, <3>2
  <2> QED BY <2>1, <2>2
<1> QED BY <1>3, <1>4, <1>5 DEF OnceInv

\* The callback of the authentication: no request is concerned.
LEMMA AuthCallbackOnce ==
  ASSUME OInv, NEW i \in Slots, sessions[i].id # NoId, sessions[i].req = Auth,
         FlatStack', \A j \in Slots : Handles(j)' <=> j = i, \A j \in Slots : ~Handles(j),
         UNCHANGED <<sessions, idOf, calls>>
  PROVE  OnceInv'
<1>1. OneSession'
  BY DEF OInv, OnceInv, OneSession
<1>2. CallsOnce'
  BY DEF OInv, OnceInv, CallsOnce
<1>3. HandledInv'
  BY NoOwner DEF OInv, OnceInv, HandledInv
<1> QED BY <1>1, <1>2, <1>3 DEF OnceInv

LEMMA ReleaseOnce ==
  ASSUME OInv, NEW i \in Slots, Handles(i),
         \A j \in Slots \ {i} : sessions'[j] = sessions[j], sessions'[i] = NoSession,
         FlatStack', \A j \in Slots : ~Handles(j)', UNCHANGED <<idOf, calls>>
  PROVE  OnceInv'
<1>1. NoSession.req = NoRequest
  BY DEF NoSession
<1>2. OneSession'
  BY <1>1, NoOwner DEF OInv, OnceInv, OneSession
<1>3. CallsOnce'
  BY DEF OInv, OnceInv, CallsOnce
<1>4. \A j \in Slots \ {i} : ~Handles(j)
  BY DEF Handles
<1>5. HandledInv'
  BY <1>1, <1>4, NoOwner DEF OInv, OnceInv, HandledInv
<1> QED BY <1>2, <1>3, <1>5 DEF OnceInv

-----------------------------------------------------------------------------
(* The five things a step can do *)

StackStays == FlatStack' /\ \A i \in Slots : Handles(i)' <=> Handles(i)
IdsStay == \A r \in Requests : idOf[r] # NoId => idOf'[r] # NoId
Starts(i) == FlatStack' /\ \A j \in Slots : ~Handles(j) /\ (Handles(j)' <=> j = i)

Quiet ==
  /\ StackStays /\ IdsStay /\ UNCHANGED calls
  /\ \A i \in Slots : sessions'[i].id = sessions[i].id /\ sessions'[i].req = sessions[i].req
Claim ==
  /\ StackStays /\ IdsStay /\ UNCHANGED calls
  /\ \E r \in All, id \in 1..MaxId :
       sessions' = SessionFor(r, id) /\ (r \in Requests => idOf[r] = NoId)
CallBack ==
  \E i \in Slots, status \in {"success", "timeout"}, reply \in All \cup {NoRequest} :
    /\ sessions[i].req \in Requests /\ calls[sessions[i].req] = <<>>
    /\ calls' = CalledBack(sessions[i].req, status, reply)
    /\ Starts(i) /\ UNCHANGED <<sessions, idOf>>
AuthBack ==
  \E i \in Slots :
    /\ sessions[i].id # NoId /\ sessions[i].req = Auth
    /\ Starts(i) /\ UNCHANGED <<sessions, idOf, calls>>
Release ==
  \E i \in Slots :
    /\ Handles(i) /\ sessions'[i] = NoSession
    /\ \A j \in Slots \ {i} : sessions'[j] = sessions[j]
    /\ FlatStack' /\ \A j \in Slots : ~Handles(j)'
    /\ UNCHANGED <<idOf, calls>>
Effect == Quiet \/ Claim \/ CallBack \/ AuthBack \/ Release

LEMMA EffectOnce == OInv /\ Effect => OnceInv'
<1> SUFFICES ASSUME OInv, Effect PROVE OnceInv'
  OBVIOUS
<1>1. CASE Quiet
  BY <1>1, RequestsKept DEF Quiet, StackStays, IdsStay
<1>2. CASE Claim
  <2>1. \A id \in 1..MaxId : id # NoId
    BY BoundsAssumption DEF NoId
  <2> QED BY <1>2, <2>1, ClaimOnce DEF Claim, StackStays, IdsStay
<1>3. CASE CallBack
  BY <1>3, CallbackOnce DEF CallBack, Starts
<1>4. CASE AuthBack
  BY <1>4, AuthCallbackOnce DEF AuthBack, Starts
<1>5. CASE Release
  BY <1>5, ReleaseOnce DEF Release
<1> QED BY <1>1, <1>2, <1>3, <1>4, <1>5 DEF Effect

\* A call that is no callback goes on, calls or returns.
LEMMA MovesOn ==
  ASSUME OInv, stk = <<>> \/ Top.fn # "handler",
         NEW s \in Seq(Frames), Plain(s), NEW f \in Frames, f.fn # "handler",
         stk' \in {s, Append(s, f)}
  PROVE  StackStays
<1>1. \A i \in Slots : ~Handles(i)
  BY NothingHandled
<1>2. stk' \in Seq(Frames) /\ Plain(stk')
  BY PlainAppend
<1> QED BY <1>1, <1>2, Returns DEF StackStays

LEMMA AuthEffects == OInv /\ (AuthStart \/ AuthLoop \/ \E n \in Copies(Auth) : AuthSend(n)) => Effect
<1> SUFFICES ASSUME OInv, AuthStart \/ AuthLoop \/ \E n \in Copies(Auth) : AuthSend(n) PROVE Effect
  OBVIOUS
<1>1. stk # <<>> /\ Top.fn = "auth"
  BY DEF AuthStart, AuthLoop, AuthSend, At
<1>2. /\ stk \in Seq(Frames) /\ Caller \in Seq(Frames) /\ Plain(stk) /\ Plain(Caller)
  BY <1>1, Calling
<1>3. /\ Scan(1) \in Frames /\ Scan(1).fn # "handler"
      /\ \A at \in {"send", "loop"} : AuthCall(at) \in Frames /\ AuthCall(at).fn # "handler"
  BY NewFrames, BoundsAssumption
<1>4. Auth \notin Requests /\ Auth \in All
  BY NoOwner DEF All
<1>5. CASE AuthStart
  <2>1. StackStays
    BY <1>1, <1>2, <1>3, <1>5, MovesOn DEF AuthStart, Replace
  <2>2. IdsStay
    BY <1>4, <1>5 DEF AuthStart, IdsStay, OInv, IInv, IdInv, All
  <2> QED BY <1>5, <2>1, <2>2 DEF AuthStart, Quiet, Effect
<1>6. CASE AuthLoop
  <2>1. StackStays
    <3>1. stk' \in {Caller, Append(Caller, AuthCall("send")), Append(stk, Scan(1))}
      BY <1>6 DEF AuthLoop, Replace
    <3> QED BY <1>1, <1>2, <1>3, <3>1, MovesOn
  <2> QED BY <1>6, <2>1 DEF AuthLoop, Quiet, IdsStay, Effect
<1>7. CASE \E n \in Copies(Auth) : AuthSend(n)
  <2>1. PICK n \in Copies(Auth) : AuthSend(n)
    BY <1>7
  <2>2. StackStays
    BY <1>1, <1>2, <1>3, <2>1, MovesOn DEF AuthSend, Replace
  <2>3. Auth \in All /\ idOf[Auth] \in 1..MaxId
    <3>1. Top # Start /\ idOf[Auth] \in 0..MaxId
      BY <1>4, <2>1, NotStart DEF AuthSend, OInv, IInv, IdInv
    <3>2. idOf[Auth] # NoId
      BY <1>1, <3>1, StackMoves DEF OInv, IInv
    <3> QED BY <1>4, <3>1, <3>2, BoundsAssumption DEF NoId
  <2>4. sessions' = SessionFor(Auth, idOf[Auth]) /\ UNCHANGED <<idOf, calls>>
    BY <2>1 DEF AuthSend
  <2> QED BY <1>4, <2>2, <2>3, <2>4 DEF Claim, IdsStay, Effect
<1> QED BY <1>5, <1>6, <1>7

LEMMA SendEffects ==
  ASSUME OInv, NEW r \in Requests, NEW n \in Copies(r), NEW after, Send(r, n, after), StackStays
  PROVE  Effect
<1>1. r \in All /\ idOf[r] = NoId /\ NextId \in 1..MaxId
  BY NextIdType DEF Send, OInv, IInv, All
<1>2. IdsStay
  BY <1>1 DEF Send, IdsStay, OInv, IInv, IdInv, All
<1> QED BY <1>1, <1>2 DEF Send, Claim, Effect

LEMMA RequestEffects == OInv /\ Request => Effect
<1> SUFFICES ASSUME OInv, Request PROVE Effect
  OBVIOUS
<1>1. StackStays
  <2>1. stk = <<>> /\ stk' = <<>>
    BY DEF Request, Send, BuildFails
  <2>2. ReadCall \in Frames /\ ReadCall.fn # "handler" /\ <<>> \in Seq(Frames) /\ Plain(<<>>)
    BY <2>1, NewFrames, Idle
  <2> QED BY <2>1, <2>2, MovesOn
<1>2. CASE BuildFails
  BY <1>1, <1>2 DEF BuildFails, Quiet, IdsStay, Effect
<1>3. CASE ~BuildFails
  <2>1. PICK r \in Requests : \E n \in Copies(r) : Send(r, n, <<>>)
    BY <1>3 DEF Request
  <2> QED BY <1>1, <2>1, SendEffects
<1> QED BY <1>2, <1>3

LEMMA HandlerRequestEffects == OInv /\ HandlerRequest => Effect
<1> SUFFICES ASSUME OInv, HandlerRequest PROVE Effect
  OBVIOUS
<1> DEFINE f == [Top EXCEPT !.left = @ - 1]
<1>1. stk # <<>> /\ Top.fn = "handler" /\ Top.left > 0
  BY DEF HandlerRequest, At
<1>2. PICK r \in Requests : \E n \in Copies(r) : Send(r, n, Append(Caller, f))
  BY DEF HandlerRequest, OInv, Replace
<1>3. Top \in [fn : {"handler"}, slot : Slots, left : 0..MaxCalls]
  BY <1>1, Calling, FrameFields
<1>4. f \in Frames /\ f.fn = "handler" /\ f.slot = Top.slot
  <2>1. Top.left - 1 \in 0..MaxCalls
    BY <1>1, <1>3, BoundsAssumption
  <2>2. f \in [fn : {"handler"}, slot : Slots, left : 0..MaxCalls]
    BY <1>3, <2>1
  <2> QED BY <1>3, <2>2 DEF Frames
<1> HIDE DEF f
<1>5. stk' = Append(Caller, f)
  BY <1>2 DEF Send
<1>6. StackStays
  <2>1. Caller \in Seq(Frames) /\ Plain(Caller)
    BY <1>1, Calling
  <2>2. FlatStack' /\ \A i \in Slots : Handles(i)' <=> f.slot = i
    BY <1>4, <1>5, <2>1, Pushes
  <2>3. \A i \in Slots : Handles(i) <=> Top.slot = i
    BY <1>1 DEF Handles, At
  <2> QED BY <1>4, <2>2, <2>3 DEF StackStays
<1> QED BY <1>2, <1>6, SendEffects

LEMMA QuietEffects ==
  OInv /\ (Yield \/ ScanEnds \/ ReadEnds \/ (\E i \in Slots : Expire(i)) \/ UNCHANGED vars) => Effect
<1> SUFFICES ASSUME OInv,
                    Yield \/ ScanEnds \/ ReadEnds \/ (\E i \in Slots : Expire(i)) \/ UNCHANGED vars
             PROVE  Effect
  OBVIOUS
<1>1. /\ Scan(1) \in Frames /\ Scan(1).fn # "handler"
      /\ ReadCall \in Frames /\ ReadCall.fn # "handler"
  BY NewFrames, BoundsAssumption
<1>2. CASE Yield
  <2>1. stk = <<>> /\ stk' = Append(<<>>, Scan(1)) /\ <<>> \in Seq(Frames) /\ Plain(<<>>)
    BY <1>2, Idle DEF Yield
  <2>2. StackStays
    BY <1>1, <2>1, MovesOn
  <2> QED BY <1>2, <2>2 DEF Yield, Quiet, IdsStay, Effect
<1>3. CASE ScanEnds \/ ReadEnds
  <2>1. stk # <<>> /\ Top.fn # "handler" /\ stk' \in {Caller, Append(Caller, ReadCall)}
    BY <1>3 DEF ScanEnds, ReadEnds, At, Replace
  <2>2. StackStays
    BY <1>1, <2>1, Calling, MovesOn
  <2> QED BY <1>3, <2>2 DEF ScanEnds, ReadEnds, Quiet, IdsStay, Effect
<1>4. CASE (\E i \in Slots : Expire(i)) \/ UNCHANGED vars
  <2>1. UNCHANGED <<stk, idOf, calls>>
    BY <1>4 DEF Expire, vars
  <2>2. StackStays
    BY <2>1 DEF StackStays, FlatStack, Handles, At, Top, Caller, OInv, OnceInv
  <2>3. \A j \in Slots : sessions'[j].id = sessions[j].id /\ sessions'[j].req = sessions[j].req
    BY <1>4 DEF Expire, vars, OInv, IInv, TableInv, Sessions
  <2> QED BY <2>1, <2>2, <2>3 DEF Quiet, IdsStay, Effect
<1> QED BY <1>2, <1>3, <1>4

LEMMA ScanSlotEffects == OInv /\ ScanSlot => Effect
<1> SUFFICES ASSUME OInv, ScanSlot PROVE Effect
  OBVIOUS
<1>1. stk # <<>> /\ Top.fn = "scan" /\ Overdue(Top.slot) # {}
  BY DEF ScanSlot, At
<1>2. PICK i \in Slots : i = FirstOf(Overdue(Top.slot)) /\ sessions[i].id # NoId
  <2>1. Overdue(Top.slot) \in SUBSET Slots
    BY DEF Overdue, Occupied
  <2>2. FirstOf(Overdue(Top.slot)) \in Overdue(Top.slot)
    BY <1>1, <2>1, FirstIsMember
  <2> QED BY <2>2 DEF Overdue, Occupied
<1>3. PICK q \in All : q = sessions[i].req
  BY <1>2, OwnerType DEF OInv
<1> DEFINE next == Append(Caller, Scan(i + 1))
<1>4. next \in Seq(Frames) /\ Plain(next)
  <2>1. i + 1 \in 1..(MaxSessions + 1)
    BY BoundsAssumption DEF Slots
  <2>2. Scan(i + 1) \in Frames /\ Scan(i + 1).fn # "handler"
    BY <2>1, NewFrames
  <2> QED BY <1>1, <2>2, Calling, PlainAppend
<1>5. UNCHANGED <<sessions, idOf>>
  BY DEF ScanSlot
<1>6. ASSUME NEW n \in 0..MaxCalls, stk' = Append(next, Handler(i, n))
      PROVE  Starts(i)
  <2>1. Handler(i, n) \in Frames /\ Handler(i, n).fn = "handler" /\ Handler(i, n).slot = i
    BY NewFrames DEF Handler
  <2> HIDE DEF next
  <2>2. FlatStack' /\ \A j \in Slots : Handles(j)' <=> i = j
    BY <1>4, <1>6, <2>1, Pushes
  <2>3. \A j \in Slots : ~Handles(j)
    BY <1>1, NothingHandled
  <2> QED BY <2>2, <2>3 DEF Starts
<1>7. 0 \in 0..MaxCalls /\ MaxCalls \in 0..MaxCalls
  BY BoundsAssumption
<1>8. CASE q = Auth
  <2>1. calls' = calls /\ stk' = Append(next, Handler(i, 0))
    BY <1>2, <1>3, <1>8 DEF ScanSlot, Replace
  <2>2. Starts(i)
    BY <1>6, <1>7, <2>1
  <2> QED BY <1>2, <1>3, <1>5, <1>8, <2>1, <2>2 DEF AuthBack, Effect
<1>9. CASE q # Auth
  <2>1. /\ calls' = CalledBack(q, "timeout", NoRequest)
        /\ stk' = Append(next, Handler(i, MaxCalls))
    BY <1>2, <1>3, <1>9 DEF ScanSlot, Replace, OInv
  <2>2. Starts(i)
    BY <1>6, <1>7, <2>1
  <2>3. q \in Requests /\ calls[q] = <<>>
    BY <1>1, <1>3, <1>9, NothingHandled DEF All
  <2> QED BY <1>3, <1>5, <2>1, <2>2, <2>3 DEF CallBack, Effect
<1> QED BY <1>8, <1>9

LEMMA DeliverEffects == ASSUME OInv, NEW r \in All, Deliver(r) PROVE Effect
<1>1. /\ stk # <<>> /\ Top.fn = "read" /\ replies[r] > 0
      /\ UNCHANGED <<sessions, idOf>>
  BY DEF Deliver, At
<1>2. Caller \in Seq(Frames) /\ Plain(Caller)
  BY <1>1, Calling
<1>3. CASE Matching(r) = {}
  <2>1. stk' = Caller /\ UNCHANGED calls
    BY <1>3 DEF Deliver
  <2>2. ReadCall \in Frames /\ ReadCall.fn # "handler"
    BY NewFrames
  <2>3. StackStays
    BY <1>1, <1>2, <2>1, <2>2, MovesOn
  <2> QED BY <1>1, <2>1, <2>3 DEF Quiet, IdsStay, Effect
<1>4. CASE Matching(r) # {}
  <2>1. PICK i \in Slots : i = FirstOf(Matching(r)) /\ sessions[i].id = idOf[r]
    <3>1. Matching(r) \in SUBSET Slots
      BY DEF Matching
    <3>2. FirstOf(Matching(r)) \in Matching(r)
      BY <1>4, <3>1, FirstIsMember
    <3> QED BY <3>2 DEF Matching
  <2>2. idOf[r] # NoId
    BY <1>1 DEF OInv, IInv, ReplyInv
  <2>3. sessions[i].req = r
    <3>1. sessions[i].req \in All /\ sessions[i].id = idOf[sessions[i].req]
      BY <2>1, <2>2, OwnerType DEF OInv
    <3> QED BY <2>1, <2>2, <3>1 DEF OInv, IInv, IdInv
  <2>4. ASSUME NEW n \in 0..MaxCalls, stk' = Append(Caller, Handler(i, n))
        PROVE  Starts(i)
    <3>1. Handler(i, n) \in Frames /\ Handler(i, n).fn = "handler" /\ Handler(i, n).slot = i
      BY NewFrames DEF Handler
    <3>2. FlatStack' /\ \A j \in Slots : Handles(j)' <=> i = j
      BY <1>2, <2>4, <3>1, Pushes
    <3>3. \A j \in Slots : ~Handles(j)
      BY <1>1, NothingHandled
    <3> QED BY <3>2, <3>3 DEF Starts
  <2>5. 0 \in 0..MaxCalls /\ MaxCalls \in 0..MaxCalls
    BY BoundsAssumption
  <2>6. CASE r = Auth
    <3>1. calls' = calls /\ stk' = Append(Caller, Handler(i, 0))
      BY <1>4, <2>1, <2>3, <2>6 DEF Deliver, Replace
    <3>2. Starts(i)
      BY <2>4, <2>5, <3>1
    <3> QED BY <1>1, <2>1, <2>2, <2>3, <2>6, <3>1, <3>2 DEF AuthBack, Effect
  <2>7. CASE r # Auth
    <3>1. calls' = CalledBack(r, "success", r) /\ stk' = Append(Caller, Handler(i, MaxCalls))
      BY <1>4, <2>1, <2>3, <2>7 DEF Deliver, Replace
    <3>2. Starts(i)
      BY <2>4, <2>5, <3>1
    <3>3. sessions[i].req \in Requests /\ calls[sessions[i].req] = <<>>
      <4>1. sessions[i].req \in Requests
        BY <2>3, <2>7 DEF All
      <4> QED BY <1>1, <4>1, NothingHandled
    <3> QED BY <1>1, <2>3, <3>1, <3>2, <3>3 DEF CallBack, Effect
  <2> QED BY <2>6, <2>7
<1> QED BY <1>3, <1>4

LEMMA HandlerReturnsEffects == OInv /\ HandlerReturns => Effect
<1> SUFFICES ASSUME OInv, HandlerReturns PROVE Effect
  OBVIOUS
<1>1. /\ stk # <<>> /\ Top.fn = "handler" /\ stk' = Caller /\ sessions' = Released(Top.slot)
      /\ UNCHANGED <<idOf, calls>>
  BY DEF HandlerReturns, At
<1>2. PICK i \in Slots : i = Top.slot
  <2>1. Top \in [fn : {"handler"}, slot : Slots, left : 0..MaxCalls]
    BY <1>1, Calling, FrameFields
  <2> QED BY <2>1
<1>3. sessions'[i] = NoSession /\ \A j \in Slots \ {i} : sessions'[j] = sessions[j]
  BY <1>1, <1>2 DEF Released, OInv, IInv, TableInv
<1>4. Handles(i)
  BY <1>1, <1>2 DEF Handles, At
<1>5. stk' \in Seq(Frames) /\ Plain(stk')
  BY <1>1, Calling
<1>6. FlatStack' /\ \A j \in Slots : ~Handles(j)'
  BY <1>5, Returns
<1> QED BY <1>1, <1>3, <1>4, <1>6 DEF Release, Effect

LEMMA NextEffects == OInv /\ [Next]_vars => Effect
<1> SUFFICES ASSUME OInv, [Next]_vars PROVE Effect
  OBVIOUS
<1>1. CASE ClientStep
  BY <1>1, AuthEffects, ScanSlotEffects, QuietEffects, HandlerRequestEffects,
     HandlerReturnsEffects DEF ClientStep
<1>2. CASE Request
  BY <1>2, RequestEffects
<1>3. CASE Yield \/ (\E i \in Slots : Expire(i)) \/ UNCHANGED vars
  BY <1>3, QuietEffects
<1>4. CASE \E r \in All : Deliver(r)
  BY <1>4, DeliverEffects
<1> QED BY <1>1, <1>2, <1>3, <1>4 DEF Next

LEMMA NextOnce == OInv /\ [Next]_vars => OInv'
<1> SUFFICES ASSUME OInv, [Next]_vars PROVE OInv'
  OBVIOUS
<1>1. IInv'
  BY Inductive DEF OInv
<1>2. OnceInv'
  BY NextEffects, EffectOnce
<1> QED BY <1>1, <1>2 DEF OInv

LEMMA InitOnce == Init /\ ~Nests => OInv
<1> SUFFICES ASSUME Init, ~Nests PROVE OInv
  OBVIOUS
<1>1. stk = Append(<<>>, Start) /\ Start.fn = "auth"
  BY DEF Init, Start, AuthCall
<1>2. Top.fn = "auth" /\ Caller = <<>>
  BY <1>1 DEF Top, Caller, Front
<1>3. FlatStack
  BY <1>2 DEF FlatStack, Plain
<1>4. \A i \in Slots : ~Handles(i) /\ sessions[i].req \notin Requests
  BY <1>2, NoOwner DEF Init, Handles, At, NoSession
<1>5. CallsOnce
  <2>1. \A r \in Requests : calls[r] = <<>>
    BY DEF Init
  <2> QED BY <2>1 DEF CallsOnce
<1>6. OneSession /\ HandledInv
  BY <1>4 DEF OneSession, HandledInv
<1> QED BY <1>3, <1>5, <1>6, InitHolds DEF OInv, OnceInv

-----------------------------------------------------------------------------
(* Each of them is a step of the table, or none *)

Fates == [r \in Requests |-> Fate(r)]
AbstractStep == [Table!Next]_(Table!vars)

FateFacts ==
  \A r \in Requests :
    /\ calls[r] # <<>> => Fate(r) = IF calls[r][1].status = "success" THEN "answered" ELSE "expired"
    /\ calls[r] = <<>> /\ Held(r) => Fate(r) = "pending"
    /\ calls[r] = <<>> /\ ~Held(r) => Fate(r) = "unused"

LEMMA FatesKnown == OInv => FateFacts
<1> SUFFICES ASSUME OInv, NEW r \in Requests
             PROVE  /\ calls[r] # <<>> =>
                         Fate(r) = IF calls[r][1].status = "success" THEN "answered" ELSE "expired"
                    /\ calls[r] = <<>> /\ Held(r) => Fate(r) = "pending"
                    /\ calls[r] = <<>> /\ ~Held(r) => Fate(r) = "unused"
  BY DEF FateFacts
<1>1. calls[r] \in Seq(Callbacks) /\ Len(calls[r]) <= 1
  BY DEF OInv, IInv, CallInv, OnceInv, CallsOnce
<1>2. CASE calls[r] # <<>>
  <2>1. Len(calls[r]) # 0
    BY <1>1, <1>2, EmptySeq
  <2>2. Len(calls[r]) \in Nat
    BY <1>1
  <2>3. \A n \in Nat : n <= 1 /\ n # 0 => n = 1
    OBVIOUS
  <2>4. Len(calls[r]) = 1
    BY <1>1, <2>1, <2>2, <2>3, Zenon
  <2> QED BY <1>2, <2>4 DEF Fate
<1>3. CASE calls[r] = <<>>
  <2>1. Len(calls[r]) # 1 /\ ~(Len(calls[r]) > 1)
    BY <1>3
  <2> QED BY <1>3, <2>1 DEF Fate, Held
<1> QED BY <1>2, <1>3

LEMMA FatesKnownNext == OInv' => FateFacts'
BY FatesKnown, PTL

\* A request without a callback changes its fate only with the session that holds it.
LEMMA FatesKept ==
  ASSUME OInv, OInv', UNCHANGED calls,
         \A r \in Requests : calls[r] = <<>> => (Held(r)' <=> Held(r))
  PROVE  AbstractStep
<1>1. FateFacts /\ FateFacts'
  BY FatesKnown, FatesKnownNext
<1>2. \A r \in Requests : Fate(r)' = Fate(r)
  BY <1>1 DEF FateFacts
<1>3. Fates' = Fates
  BY <1>2 DEF Fates
<1> QED BY <1>3 DEF AbstractStep, Table!vars, Fates

\* One request's fate changes.
LEMMA FateChanges ==
  ASSUME NEW q \in Requests, NEW to, Fate(q)' = to,
         \A r \in Requests \ {q} : Fate(r)' = Fate(r)
  PROVE  Fates' = [Fates EXCEPT ![q] = to]
BY DEF Fates

LEMMA ClaimRefines == OInv /\ OInv' /\ Claim => AbstractStep
<1> SUFFICES ASSUME OInv, OInv', Claim PROVE AbstractStep
  OBVIOUS
<1>1. PICK r \in All, id \in 1..MaxId :
        sessions' = SessionFor(r, id) /\ (r \in Requests => idOf[r] = NoId)
  BY DEF Claim
<1>2. UNCHANGED calls
  BY DEF Claim
<1>3. CASE sessions' = sessions
  BY <1>2, <1>3, FatesKept DEF Held
<1>4. CASE sessions' # sessions
  <2>1. PICK i \in Slots :
          /\ sessions[i].req = NoRequest /\ sessions'[i].req = r
          /\ \A j \in Slots \ {i} : sessions'[j] = sessions[j]
    BY <1>1, <1>4, SlotClaimed DEF OInv
  <2>2. \A q \in Requests \ {r} : Held(q)' <=> Held(q)
    BY <2>1, NoOwner DEF Held
  <2>3. CASE r \notin Requests
    BY <1>2, <2>2, <2>3, FatesKept
  <2>4. CASE r \in Requests
    <3>1. ~Held(r) /\ Held(r)'
      <4>1. ~Held(r)
        BY <1>1, <2>4, HeldWasSent DEF Held, OInv
      <4> QED BY <2>1, <4>1 DEF Held
    <3>2. calls[r] = <<>>
      BY <1>1, <2>4 DEF OInv, OnceInv, CallsOnce
    <3>3. FateFacts /\ FateFacts'
      BY FatesKnown, FatesKnownNext
    <3>4. Fate(r) = "unused" /\ Fate(r)' = "pending"
      BY <1>2, <2>4, <3>1, <3>2, <3>3 DEF FateFacts
    <3>5. \A q \in Requests \ {r} : Fate(q)' = Fate(q)
      BY <1>2, <2>2, <3>3 DEF FateFacts
    <3>6. Fates' = [Fates EXCEPT ![r] = "pending"] /\ Fates[r] = "unused"
      BY <2>4, <3>4, <3>5, FateChanges DEF Fates
    <3>7. Table!Begin(r)
      BY <3>6 DEF Table!Begin, Table!Becomes, Fates
    <3> QED BY <2>4, <3>7 DEF AbstractStep, Table!Next
  <2> QED BY <2>3, <2>4
<1> QED BY <1>3, <1>4

LEMMA CallBackRefines == OInv /\ OInv' /\ CallBack => AbstractStep
<1> SUFFICES ASSUME OInv, OInv', CallBack PROVE AbstractStep
  OBVIOUS
<1>1. PICK i \in Slots, status \in {"success", "timeout"}, reply \in All \cup {NoRequest} :
        /\ sessions[i].req \in Requests /\ calls[sessions[i].req] = <<>>
        /\ calls' = CalledBack(sessions[i].req, status, reply)
        /\ UNCHANGED sessions
  BY DEF CallBack
<1>2. PICK q \in Requests : q = sessions[i].req
  BY <1>1
<1> DEFINE to == IF status = "success" THEN "answered" ELSE "expired"
<1>3. /\ calls'[q] # <<>> /\ calls'[q][1].status = status
      /\ \A r \in Requests \ {q} : calls'[r] = calls[r]
  <2>1. /\ calls'[q] = <<[status |-> status, reply |-> reply]>> /\ calls'[q] # <<>>
        /\ \A r \in Requests \ {q} : calls'[r] = calls[r]
    BY <1>1, <1>2, CalledOne
  <2> QED BY <2>1
<1>4. FateFacts /\ FateFacts'
  BY FatesKnown, FatesKnownNext
<1>5. Held(q)
  BY <1>2 DEF Held
<1>6. Fate(q) = "pending" /\ Fate(q)' = to
  BY <1>1, <1>2, <1>3, <1>4, <1>5 DEF FateFacts
<1>7. \A r \in Requests \ {q} : Fate(r)' = Fate(r)
  <2>1. \A r \in Requests : Held(r)' <=> Held(r)
    BY <1>1 DEF Held
  <2> QED BY <1>3, <1>4, <2>1 DEF FateFacts
<1>8. Fates' = [Fates EXCEPT ![q] = to] /\ Fates[q] = "pending"
  BY <1>6, <1>7, FateChanges DEF Fates
<1>9. Table!Answer(q) \/ Table!Expire(q)
  BY <1>8 DEF Table!Answer, Table!Expire, Table!Becomes, Fates
<1> QED BY <1>9 DEF AbstractStep, Table!Next

\* The session released is one whose callback has been made, or the authentication's.
LEMMA ReleaseRefines == OInv /\ OInv' /\ Release => AbstractStep
<1> SUFFICES ASSUME OInv, OInv', Release PROVE AbstractStep
  OBVIOUS
<1>1. PICK i \in Slots :
        /\ Handles(i) /\ sessions'[i] = NoSession
        /\ \A j \in Slots \ {i} : sessions'[j] = sessions[j]
        /\ UNCHANGED calls
  BY DEF Release
<1>2. \A r \in Requests : sessions[i].req = r => calls[r] # <<>>
  BY <1>1 DEF OInv, OnceInv, HandledInv
<1>3. NoSession.req = NoRequest
  BY DEF NoSession
<1>4. \A r \in Requests : calls[r] = <<>> => (Held(r)' <=> Held(r))
  BY <1>1, <1>2, <1>3, NoOwner DEF Held
<1> QED BY <1>1, <1>4, FatesKept

LEMMA NextRefines == OInv /\ [Next]_vars => AbstractStep
<1> SUFFICES ASSUME OInv, [Next]_vars PROVE AbstractStep
  OBVIOUS
<1>1. OInv' /\ Effect
  BY NextOnce, NextEffects
<1>2. CASE Quiet \/ AuthBack
  <2>1. UNCHANGED calls /\ \A i \in Slots : sessions'[i].req = sessions[i].req
    BY <1>2 DEF Quiet, AuthBack
  <2>2. \A r \in Requests : Held(r)' <=> Held(r)
    BY <2>1 DEF Held
  <2> QED BY <1>1, <2>1, <2>2, FatesKept
<1> QED BY <1>1, <1>2, ClaimRefines, CallBackRefines, ReleaseRefines DEF Effect

LEMMA InitRefines == Init => Table!Init
<1> SUFFICES ASSUME Init PROVE Table!Init
  OBVIOUS
<1>1. \A r \in Requests : Fate(r) = "unused"
  <2> SUFFICES ASSUME NEW r \in Requests PROVE Fate(r) = "unused"
    OBVIOUS
  <2>1. calls[r] = <<>> /\ \A i \in Slots : sessions[i].req # r
    BY NoOwner DEF Init, NoSession
  <2>2. Len(calls[r]) # 1 /\ ~(Len(calls[r]) > 1)
    BY <2>1
  <2> QED BY <2>1, <2>2 DEF Fate
<1> QED BY <1>1 DEF Table!Init

\* Unless callbacks yield, a request is called back at most once, with its own answer
\* or its timeout, and only while the table holds it: the sessions implement the abstract
\* table of requests.  (That each request ends is liveness.)
THEOREM ImplementsTable == Spec /\ ~Nests => Table!Spec
<1>1. OInv /\ [Next]_vars => [Table!Next]_(Table!vars)
  BY NextRefines DEF AbstractStep
<1> QED BY <1>1, InitOnce, InitRefines, NextOnce, PTL DEF Spec, Table!Spec
=============================================================================
