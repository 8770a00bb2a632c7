----------------------------- MODULE CoapClient -----------------------------
(***************************************************************************)
(* The CoAP client, src/coap/tc_iot_coap.c: authentication, requests over  *)
(* UDP, and the sessions that match replies and timeouts to callbacks.     *)
(*                                                                         *)
(* The program authenticates first, then makes requests and yields, as the *)
(* samples do.  A session is released when its callback has returned; a    *)
(* callback may make requests of its own and, when Nests holds, yields     *)
(* after each of them, as _coap_con_get_rpc_handler of the sample does.    *)
(* stk is the C call stack, the innermost call last.  The network loses,   *)
(* duplicates, delays and reorders requests and replies.                   *)
(***************************************************************************)
EXTENDS Integers, Sequences, FiniteSets, SequencesExt

CONSTANTS
  Requests,     \* the requests with a callback, each made at most once
  Auth,         \* the authentication request
  NoRequest,
  MaxSessions,  \* TC_IOT_COAP_MAX_SESSION_COUNT
  MaxId,        \* TC_IOT_COAP_MAX_MESSAGE_ID
  MaxCalls,     \* bound: the requests one callback makes
  MaxCopies,    \* bound: replies under way at a time
  Nests         \* whether callbacks yield after the requests they make

ASSUME RequestsAssumption == Auth \notin Requests /\ NoRequest \notin Requests \cup {Auth}
ASSUME BoundsAssumption ==
  /\ MaxSessions \in Nat \ {0}
  /\ MaxId \in Nat \ {0}
  /\ MaxCalls \in Nat /\ MaxCopies \in Nat
  /\ Nests \in BOOLEAN

VARIABLES
  sessions,  \* message_id, timer, and whose handler and context, of each slot
  packetId,  \* next_packetid, the last message id given out
  stk,       \* the active calls
  replies,   \* copies of the reply to each request that the network may deliver
  auth,      \* auth_state
  idOf,      \* history: the message id of each request
  calls      \* history: the callbacks of each request

vars == <<sessions, packetId, stk, replies, auth, idOf, calls>>

Slots == 1..MaxSessions
All == Requests \cup {Auth}
NoId == 0
NoSession == [id |-> NoId, req |-> NoRequest, expired |-> FALSE]

\* tc_iot_coap_auth, before its first message, about to send and in its loop; the
\* scan and the read of tc_iot_coap_yield; a callback with the slot released after it
\* and the requests it may still make.
AuthCall(at) == [fn |-> "auth", at |-> at]
Scan(i) == [fn |-> "scan", slot |-> i]
ReadCall == [fn |-> "read"]
Handler(i, left) == [fn |-> "handler", slot |-> i, left |-> left]

Frames ==
  [fn : {"auth"}, at : {"start", "send", "loop"}]
  \cup [fn : {"scan"}, slot : 1..(MaxSessions + 1)]
  \cup {ReadCall}
  \cup [fn : {"handler"}, slot : Slots, left : 0..MaxCalls]

\* Types; a slot is free when its message id is 0, and then all of it is zero.
TypeOK ==
  /\ \A i \in Slots : /\ sessions[i] \in [id : 0..MaxId, req : All \cup {NoRequest}, expired : BOOLEAN]
                      /\ sessions[i].id = NoId <=> sessions[i] = NoSession
  /\ packetId \in 0..MaxId
  /\ stk \in Seq(Frames)
  /\ replies \in [All -> 0..MaxCopies]
  /\ auth \in {"initial", "success", "failed", "timeout"}
  /\ idOf \in [All -> 0..MaxId]

\* tc_iot_coap_construct, and the application calls tc_iot_coap_auth.
Init ==
  /\ sessions = [i \in Slots |-> NoSession]
  /\ packetId = 0
  /\ stk = <<AuthCall("start")>>
  /\ replies = [r \in All |-> 0]
  /\ auth = "initial"
  /\ idOf = [r \in All |-> NoId]
  /\ calls = [r \in Requests |-> <<>>]

-----------------------------------------------------------------------------
(* Message ids and sessions *)

Top == stk[Len(stk)]
At(fn) == stk # <<>> /\ Top.fn = fn
Caller == Front(stk)
Replace(f) == Append(Caller, f)

Occupied == {i \in Slots : sessions[i].id # NoId}
FirstOf(S) == CHOOSE i \in S : \A j \in S : i <= j

\* tc_iot_coap_get_next_pack_id: 1 follows the largest.
NextId == IF packetId = MaxId THEN 1 ELSE packetId + 1

\* Bound: an id returns after 65535 others; here no request gets one used before.
IdIsFresh == \A r \in All : idOf[r] # NoId => idOf[r] # NextId

\* tc_iot_coap_session_init
Claimed(i, id, r) == [sessions EXCEPT ![i] = [id |-> id, req |-> r, expired |-> FALSE]]

\* (slip) tc_iot_coap_session_release that leaves the session in place
NotReleased(i) == sessions
\* tc_iot_coap_session_release
Released(i) == [sessions EXCEPT ![i] = NoSession]

\* tc_iot_coap_send_message: with the table full the message goes out all the same,
\* and nothing will call its callback.
SessionFor(r, id) ==
  IF Occupied = Slots THEN sessions ELSE Claimed(FirstOf(Slots \ Occupied), id, r)

\* do_write: n copies of the message's reply will reach the client, none when the
\* write fails or the network loses the message or the reply.
Written(r, n) == replies' = [replies EXCEPT ![r] = @ + n]
UnderWay == FoldFunction(+, 0, replies)
Copies(r) == {n \in 0..(MaxCopies - replies[r]) : UnderWay + n <= MaxCopies}

-----------------------------------------------------------------------------
(* tc_iot_coap_auth *)

\* The request is built once: every attempt sends the same message id.
AuthStart ==
  /\ At("auth") /\ Top.at = "start"
  /\ packetId' = NextId
  /\ idOf' = [idOf EXCEPT ![Auth] = NextId]
  /\ stk' = Replace(AuthCall("send"))
  /\ UNCHANGED <<sessions, replies, auth, calls>>

\* (slip) an attempt that does not reset the outcome of the one before it
AuthSendKept(n) ==
  /\ At("auth") /\ Top.at = "send"
  /\ sessions' = SessionFor(Auth, idOf[Auth])
  /\ Written(Auth, n)
  /\ stk' = Replace(AuthCall("loop"))
  /\ UNCHANGED <<packetId, auth, idOf, calls>>
AuthSend(n) ==
  /\ At("auth") /\ Top.at = "send"
  /\ auth' = "initial"
  /\ sessions' = SessionFor(Auth, idOf[Auth])
  /\ Written(Auth, n)
  /\ stk' = Replace(AuthCall("loop"))
  /\ UNCHANGED <<packetId, idOf, calls>>

AuthLoop ==
  /\ At("auth") /\ Top.at = "loop"
  /\ stk' = CASE auth = "timeout" -> Replace(AuthCall("send"))
              [] auth = "initial" -> Append(stk, Scan(1))
              [] OTHER -> Caller
  /\ UNCHANGED <<sessions, packetId, replies, auth, idOf, calls>>

\* _tc_iot_coap_con_auth_handler of an answer: 2.01 with a payload that is not too
\* long is a token; anything else, an empty acknowledgement included, is a failure.
AuthAnswered == auth' \in {"success", "failed"}

-----------------------------------------------------------------------------
(* tc_iot_coap_publish and tc_iot_coap_rpc *)

\* The message does not fit the buffer: its id is spent.  Bound: not while a session
\* is taken.
BuildFails ==
  /\ Occupied = {}
  /\ packetId' = NextId
  /\ UNCHANGED <<sessions, stk, replies, auth, idOf, calls>>

Send(r, n, after) ==
  /\ idOf[r] = NoId /\ IdIsFresh
  /\ packetId' = NextId
  /\ idOf' = [idOf EXCEPT ![r] = NextId]
  /\ sessions' = SessionFor(r, NextId)
  /\ Written(r, n)
  /\ stk' = after
  /\ UNCHANGED <<auth, calls>>

Request ==
  /\ stk = <<>> /\ auth = "success"
  /\ \/ \E r \in Requests : \E n \in Copies(r) : Send(r, n, <<>>)
     \/ BuildFails

\* A request made by a callback, which then goes on or yields.
HandlerRequest ==
  /\ At("handler") /\ Top.left > 0
  /\ LET caller == Replace([Top EXCEPT !.left = @ - 1])
         after == IF Nests THEN Append(caller, Scan(1)) ELSE caller
     IN \E r \in Requests : \E n \in Copies(r) : Send(r, n, after)

-----------------------------------------------------------------------------
(* tc_iot_coap_yield: overdue sessions first, then one datagram *)

Yield ==
  /\ stk = <<>> /\ auth = "success"
  /\ stk' = <<Scan(1)>>
  /\ UNCHANGED <<sessions, packetId, replies, auth, idOf, calls>>

CalledBack(r, status, reply) == [calls EXCEPT ![r] = Append(@, [status |-> status, reply |-> reply])]

\* The sessions whose timer has run out, from slot k on.
Overdue(k) == {i \in Occupied : i >= k /\ sessions[i].expired}

\* _tc_iot_coap_check_expired_session comes to the next of them; the sample's callbacks
\* only log a timeout.
ScanSlot ==
  LET i == FirstOf(Overdue(Top.slot))
      r == sessions[i].req
      next == Replace(Scan(i + 1))
  IN
  /\ At("scan") /\ Overdue(Top.slot) # {}
  /\ IF r = Auth
     THEN auth' = "timeout" /\ stk' = Append(next, Handler(i, 0)) /\ UNCHANGED calls
     ELSE /\ calls' = CalledBack(r, "timeout", NoRequest)
          /\ stk' = Append(next, Handler(i, IF Nests THEN 0 ELSE MaxCalls))
          /\ UNCHANGED auth
  /\ UNCHANGED <<sessions, packetId, replies, idOf>>

ScanEnds ==
  /\ At("scan") /\ Overdue(Top.slot) = {}
  /\ stk' = Replace(ReadCall)
  /\ UNCHANGED <<sessions, packetId, replies, auth, idOf, calls>>

\* Nothing arrives in time, or what arrives is no CoAP message.
ReadEnds ==
  /\ At("read")
  /\ stk' = Caller
  /\ UNCHANGED <<sessions, packetId, replies, auth, idOf, calls>>

\* (slip) a reply matched to any session that is taken
MatchAny(r) == Occupied
\* tc_iot_coap_session_find: the message id alone, never the token.
Matching(r) == {i \in Slots : sessions[i].id = idOf[r]}

\* A reply to r is read; one without a session goes to default_handler.  Either way
\* the yield is over.
Deliver(r) ==
  LET i == FirstOf(Matching(r))
      owner == sessions[i].req
  IN
  /\ At("read") /\ replies[r] > 0
  /\ replies' = [replies EXCEPT ![r] = @ - 1]
  /\ IF Matching(r) = {} THEN stk' = Caller /\ UNCHANGED <<auth, calls>>
     ELSE IF owner = Auth
     THEN AuthAnswered /\ stk' = Replace(Handler(i, 0)) /\ UNCHANGED calls
     ELSE /\ calls' = CalledBack(owner, "success", r)
          /\ stk' = Replace(Handler(i, MaxCalls))
          /\ UNCHANGED auth
  /\ UNCHANGED <<sessions, packetId, idOf>>

HandlerReturns ==
  /\ At("handler")
  /\ sessions' = Released(Top.slot)
  /\ stk' = Caller
  /\ UNCHANGED <<packetId, replies, auth, idOf, calls>>

-----------------------------------------------------------------------------

\* Time passes while the client waits for a datagram or the application sleeps.
Expire(i) ==
  /\ stk = <<>> \/ At("read")
  /\ i \in Occupied /\ ~sessions[i].expired
  /\ sessions' = [sessions EXCEPT ![i].expired = TRUE]
  /\ UNCHANGED <<packetId, stk, replies, auth, idOf, calls>>

ClientStep ==
  \/ AuthStart \/ AuthLoop
  \/ \E n \in Copies(Auth) : AuthSend(n)
  \/ ScanSlot \/ ScanEnds \/ ReadEnds
  \/ HandlerRequest \/ HandlerReturns

Next ==
  \/ ClientStep
  \/ Request \/ Yield
  \/ \E r \in All : Deliver(r)
  \/ \E i \in Slots : Expire(i)

Spec == Init /\ [][Next]_vars

\* The SDK returns from its calls, the application yields again and again, and timers
\* run out.
FairSpec ==
  /\ Spec
  /\ WF_vars(ClientStep)
  /\ SF_vars(Yield)
  /\ \A i \in Slots : SF_vars(Expire(i))

-----------------------------------------------------------------------------
(* Properties *)

\* A callback with TC_IOT_COAP_CON_SUCCESS gets the reply to its own request: a late
\* or repeated reply to another never reaches it, however slots and callbacks nest.
AnswersMatch ==
  \A r \in Requests : \A k \in DOMAIN calls[r] :
    calls[r][k].status = "success" => calls[r][k].reply = r

Fate(r) ==
  CASE Len(calls[r]) = 1 -> IF calls[r][1].status = "success" THEN "answered" ELSE "expired"
    [] Len(calls[r]) > 1 -> "called twice"
    [] OTHER -> IF \E i \in Slots : sessions[i].req = r THEN "pending" ELSE "unused"

Table == INSTANCE RequestTable WITH fate <- [r \in Requests |-> Fate(r)], open <- {}

\* Unless callbacks yield, the sessions implement the abstract table: every request
\* that got a session ends in exactly one callback.  One sent with the table full was
\* never taken on.
ImplementsRequestTable == Table!FairSpec

\* tc_iot_coap_auth returns as long as messages and answers get through now and then:
\* an answer that comes after its timeout counts for the next attempt.
AuthSendArrives == \E n \in Copies(Auth) : n > 0 /\ AuthSend(n)
AuthReply == Matching(Auth) # {} /\ Deliver(Auth)
NetworkDelivers == SF_vars(AuthSendArrives) /\ SF_vars(AuthReply)
AuthEnds == NetworkDelivers => <>(stk = <<>> /\ auth \in {"success", "failed"})
=============================================================================
