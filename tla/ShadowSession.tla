--------------------------- MODULE ShadowSession ---------------------------
(***************************************************************************)
(* The request sessions of the shadow client, src/iotsuite/tc_iot_shadow.c.*)
(*                                                                         *)
(* A session is held from the call that makes the request until the        *)
(* callback has returned.  Requests are published through the MQTT client, *)
(* which delivers whatever arrives while it waits: callbacks and server    *)
(* pushes run nested in a publish, and the SDK's own callbacks make        *)
(* requests.  stk is the C call stack, the innermost call last.            *)
(***************************************************************************)
EXTENDS Integers, Sequences, FiniteSets, SequencesExt

CONSTANTS
  Requests,      \* the requests the application and the SDK make, each once
  NoRequest,
  MaxSessions,   \* TC_IOT_MAX_SESSION_COUNT
  InitTime,      \* client_init_time & 0xFFFF, a single digit here
  Base, Width,   \* digits of a session id: base, and those usid takes
  Retries,       \* whether the application repeats a request that timed out
  MaxPushes      \* bound: messages the server pushes

ASSUME SessionsAssumption == MaxSessions \in Nat \ {0} /\ NoRequest \notin Requests
ASSUME SidAssumption ==
  /\ Base \in Nat \ {0, 1}
  /\ Width \in Nat \ {0}
  /\ InitTime \in 0..(Base - 1)
ASSUME RunAssumption == Retries \in BOOLEAN /\ MaxPushes \in Nat

VARIABLES
  sessions,  \* sid, request (handler and session_context) and timer of each slot
  usid,      \* the static counter of _get_unique_session_id
  stk,       \* the active calls
  sent,      \* requests the server has got and may still reply to
  pushes,    \* messages the server may still push
  sidOf,     \* history: the session id each request was sent with
  calls      \* history: the callbacks of each request

vars == <<sessions, usid, stk, sent, pushes, sidOf, calls>>

Slots == 1..MaxSessions
UsidSpace == Base ^ Width

\* "%x" of (client_init_time << 16) | usid: the shortest sequence of digits.
Digits(n, w) == [k \in 1..w |-> (n \div Base ^ (w - k)) % Base]
NumberWidth(n) == CHOOSE w \in 1..(Width + 1) : n < Base ^ w /\ (w = 1 \/ n >= Base ^ (w - 1))
SessionId(n) == LET number == InitTime * UsidSpace + n IN Digits(number, NumberWidth(number))

NoSid == <<>>
Usids == 0..(UsidSpace - 1)

\* What the theorems ask of the ids: one for every request, and none a prefix of
\* another.  It is so when client_init_time is not 0, for all ids are then equally
\* long, and not so otherwise.
SidsDiffer ==
  /\ UsidSpace \in Nat \ {0}
  /\ \A n \in Usids : SessionId(n) # NoSid
  /\ \A m, n \in Usids : IsPrefix(SessionId(m), SessionId(n)) => m = n
  /\ IsFiniteSet(Requests) /\ Cardinality(Requests) <= UsidSpace

NoSession == [sid |-> NoSid, req |-> NoRequest, kind |-> "none", expired |-> FALSE]

\* A call blocked in the MQTT client: yield, or the publish of a request; the scan
\* of _tc_iot_check_expired_session; a message handler with the slot it will
\* release (0 for none) and the requests it may still make.
YieldCall == [fn |-> "yield"]
Scan(i) == [fn |-> "scan", slot |-> i]
PublishCall(kind, r, i) == [fn |-> "publish", kind |-> kind, req |-> r, slot |-> i, sent |-> FALSE]
Handler(i, makes, left) == [fn |-> "handler", slot |-> i, makes |-> makes, left |-> left]

Kinds == {"get", "report"}
Frames ==
  {YieldCall} \cup [fn : {"scan"}, slot : 1..(MaxSessions + 1)]
  \cup [fn : {"publish"}, kind : Kinds, req : Requests, slot : Slots, sent : BOOLEAN]
  \cup [fn : {"handler"}, slot : 0..MaxSessions, makes : Kinds, left : 0..2]

\* Types; a slot without an id is empty (tc_iot_find_empty_session looks at the id).
TypeOK ==
  /\ \A i \in Slots : /\ sessions[i].sid \in {NoSid} \cup {SessionId(n) : n \in Usids}
                      /\ sessions[i].req \in Requests \cup {NoRequest}
                      /\ sessions[i].kind \in Kinds \cup {"none"}
                      /\ sessions[i].expired \in BOOLEAN
                      /\ sessions[i].sid = NoSid <=> sessions[i] = NoSession
  /\ usid \in Usids
  /\ stk \in Seq(Frames)
  /\ sent \subseteq Requests
  /\ pushes \in 0..MaxPushes

Init ==
  /\ sessions = [i \in Slots |-> NoSession]
  /\ usid = 0
  /\ stk = <<>>
  /\ sent = {}
  /\ pushes = MaxPushes
  /\ sidOf = [r \in Requests |-> NoSid]
  /\ calls = [r \in Requests |-> <<>>]

-----------------------------------------------------------------------------
(* The table *)

Top == stk[Len(stk)]
At(fn) == stk # <<>> /\ Top.fn = fn
Caller == Front(stk)
Replace(f) == Append(Caller, f)

Occupied == {i \in Slots : sessions[i].sid # NoSid}
FirstOf(S) == CHOOSE i \in S : \A j \in S : i <= j

\* (slip) _get_unique_session_id that forgets to count
UsidStuck == usid
\* usid++ of an unsigned short
NextUsid == (usid + 1) % UsidSpace

\* (slip) tc_iot_release_session that leaves the session in place
NotReleased(i) == sessions
\* tc_iot_release_session
Released(i) == IF i = 0 THEN sessions ELSE [sessions EXCEPT ![i] = NoSession]

\* (slip) a session not marked until its publish returns
ClaimedLate(i, kind, r) == sessions
\* tc_iot_fetch_session and the timer, handler and context its callers set.
Claimed(i, kind, r) ==
  [sessions EXCEPT ![i] = [sid |-> SessionId(usid), req |-> r, kind |-> kind, expired |-> FALSE]]

\* strncmp(session->sid, session_id, strlen(session_id)) == 0
SameSession(i, sid) == sessions[i].sid # NoSid /\ IsPrefix(sid, sessions[i].sid)

-----------------------------------------------------------------------------
(* Requests: tc_iot_shadow_get, _update and _delete ("get") publish with QoS 1 *)
(* and keep the session when that fails; tc_iot_shadow_check_and_report        *)
(* ("report") publishes with QoS 0 and releases it.                            *)

\* Bound: no id is used twice (65536 requests between two uses in the code).
IdsRemain == usid + Cardinality({r \in Requests : sidOf[r] = NoSid}) < UsidSpace

\* r gets the first free slot and its publish is under way.
Begin(kind, r, caller) ==
  LET i == FirstOf(Slots \ Occupied) IN
  /\ sidOf[r] = NoSid
  /\ Occupied # Slots
  /\ sessions' = Claimed(i, kind, r)
  /\ usid' = NextUsid
  /\ sidOf' = [sidOf EXCEPT ![r] = SessionId(usid)]
  /\ stk' = Append(caller, PublishCall(kind, r, i))
  /\ UNCHANGED <<sent, pushes, calls>>

\* The document does not fit the buffer, or there is nothing to report: the
\* session is released at once, its id spent.
BeginFails(caller) ==
  /\ Occupied # Slots /\ IdsRemain
  /\ usid' = NextUsid
  /\ stk' = caller
  /\ UNCHANGED <<sessions, sent, pushes, sidOf, calls>>

Call ==
  /\ stk = <<>>
  /\ \/ \E kind \in Kinds, r \in Requests : Begin(kind, r, <<>>)
     \/ BeginFails(<<>>)

\* The publish gets through to the server; one with QoS 0 returns.
PublishSends ==
  /\ At("publish") /\ ~Top.sent
  /\ sent' = sent \cup {Top.req}
  /\ stk' = IF Top.kind = "get" THEN Replace([Top EXCEPT !.sent = TRUE]) ELSE Caller
  /\ UNCHANGED <<sessions, usid, pushes, sidOf, calls>>

\* The publish fails before anything is sent.
PublishFails ==
  /\ At("publish") /\ ~Top.sent
  /\ sessions' = IF Top.kind = "report" THEN Released(Top.slot) ELSE sessions
  /\ stk' = Caller
  /\ UNCHANGED <<usid, sent, pushes, sidOf, calls>>

\* PUBACK, or the end of waiting for it: the session is not looked at again.
PublishReturns ==
  /\ At("publish") /\ Top.sent
  /\ stk' = Caller
  /\ UNCHANGED <<sessions, usid, sent, pushes, sidOf, calls>>

-----------------------------------------------------------------------------
(* tc_iot_shadow_yield: the MQTT client reads, then expired sessions are ended. *)

CalledBack(i, status, reply) ==
  LET r == sessions[i].req IN
  [calls EXCEPT ![r] = Append(@, [status |-> status, reply |-> reply])]

Yield ==
  /\ stk = <<>>
  /\ stk' = <<YieldCall>>
  /\ UNCHANGED <<sessions, usid, sent, pushes, sidOf, calls>>

YieldEnds ==
  /\ At("yield")
  /\ stk' = Replace(Scan(1))
  /\ UNCHANGED <<sessions, usid, sent, pushes, sidOf, calls>>

Overdue(i) == i \in Occupied /\ sessions[i].expired

\* The callback of an overdue session; an application that repeats the request
\* does so from here.
ScanSlot ==
  /\ At("scan") /\ Top.slot \in Slots
  /\ LET i == Top.slot IN
     IF Overdue(i)
     THEN /\ calls' = CalledBack(i, "timeout", NoRequest)
          /\ stk' = Replace(Scan(i + 1)) \o <<Handler(i, "get", IF Retries THEN 1 ELSE 0)>>
     ELSE stk' = Replace(Scan(i + 1)) /\ UNCHANGED calls
  /\ UNCHANGED <<sessions, usid, sent, pushes, sidOf>>

ScanEnds ==
  /\ At("scan") /\ Top.slot \notin Slots
  /\ stk' = Caller
  /\ UNCHANGED <<sessions, usid, sent, pushes, sidOf, calls>>

-----------------------------------------------------------------------------
(* _tc_iot_shadow_on_message_received, called by the MQTT client *)

Reading == At("yield") \/ At("publish")

\* tc_iot_device_on_message_received confirms a control message with two reports.
Confirms == 2

\* The reply to r goes to the first session it matches, else to on_receive_msg.
Deliver(r) ==
  LET matching == {i \in Slots : SameSession(i, sidOf[r])}
      i == FirstOf(matching)
  IN
  /\ Reading /\ r \in sent
  /\ sent' = sent \ {r}
  /\ IF matching # {}
     THEN /\ calls' = CalledBack(i, "success", r)
          /\ stk' = Append(stk, Handler(i, "report", IF sessions[i].kind = "get" THEN Confirms ELSE 0))
     ELSE stk' = Append(stk, Handler(0, "report", Confirms)) /\ UNCHANGED calls
  /\ UNCHANGED <<sessions, usid, pushes, sidOf>>

ServerPush ==
  /\ Reading /\ pushes > 0
  /\ pushes' = pushes - 1
  /\ stk' = Append(stk, Handler(0, "report", Confirms))
  /\ UNCHANGED <<sessions, usid, sent, sidOf, calls>>

HandlerRequest ==
  /\ At("handler") /\ Top.left > 0
  /\ LET caller == Replace([Top EXCEPT !.left = @ - 1]) IN
     \/ \E r \in Requests : Begin(Top.makes, r, caller)
     \/ BeginFails(caller)

HandlerReturns ==
  /\ At("handler")
  /\ sessions' = Released(Top.slot)
  /\ stk' = Caller
  /\ UNCHANGED <<usid, sent, pushes, sidOf, calls>>

-----------------------------------------------------------------------------

\* Time passes: the timer of a session ends.
Expire(i) ==
  /\ i \in Occupied /\ ~sessions[i].expired
  /\ sessions' = [sessions EXCEPT ![i].expired = TRUE]
  /\ UNCHANGED <<usid, stk, sent, pushes, sidOf, calls>>

ClientStep ==
  \/ PublishSends \/ PublishFails \/ PublishReturns
  \/ YieldEnds \/ ScanSlot \/ ScanEnds
  \/ HandlerRequest \/ HandlerReturns

Next ==
  \/ Call \/ Yield \/ ClientStep
  \/ ServerPush
  \/ \E r \in Requests : Deliver(r)
  \/ \E i \in Slots : Expire(i)

Spec == Init /\ [][Next]_vars

\* The SDK returns from its calls, the application yields again and again as the
\* main loops of the samples do, and timers run out.
FairSpec ==
  /\ Spec
  /\ WF_vars(ClientStep)
  /\ SF_vars(Yield)
  /\ \A i \in Slots : WF_vars(Expire(i))

-----------------------------------------------------------------------------
(* Properties *)

\* A callback with TC_IOT_ACK_SUCCESS gets the reply to its own request, however
\* late or out of order the replies are and however often the slots are reused.
AnswersMatch ==
  \A r \in Requests : \A k \in DOMAIN calls[r] :
    calls[r][k].status = "success" => calls[r][k].reply = r

\* A request is answered or timed out, never both, and never twice.
OneCallback == \A r \in Requests : Len(calls[r]) <= 1

\* The session of a request that is still being published stays its own, whatever
\* callbacks run, time out and release sessions while the publish reconnects.  Such
\* requests therefore nest no deeper than there are sessions: every level takes
\* kilobytes of the thread's stack.
OwnsItsSession ==
  \A k \in DOMAIN stk :
    stk[k].fn = "publish" /\ ~stk[k].sent => sessions[stk[k].slot].req = stk[k].req

Open == {r \in Requests : \E k \in DOMAIN stk : stk[k].fn = "publish" /\ stk[k].req = r}

Fate(r) ==
  CASE sidOf[r] = NoSid -> "unused"
    [] Len(calls[r]) = 1 -> IF calls[r][1].status = "success" THEN "answered" ELSE "expired"
    [] Len(calls[r]) > 1 -> "called twice"
    [] OTHER -> IF \E i \in Slots : sessions[i].req = r THEN "pending" ELSE "withdrawn"

Table == INSTANCE RequestTable WITH fate <- [r \in Requests |-> Fate(r)], open <- Open

\* The sessions implement the abstract table: every request that is not withdrawn
\* by its own failing call ends in exactly one callback.
ImplementsRequestTable == Table!FairSpec
=============================================================================
