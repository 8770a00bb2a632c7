------------------------------- MODULE RpcSync -------------------------------
\* The two samples that keep a device in step with its shadow by remote calls: over HTTP,
\* samples/advanced_edition/http/http_rpc_main.c, and over CoAP, .../coap/coap_app_main.c.
\* Each gets the desired state, takes it over, reports what it took, deletes it from the
\* desired state and gets once more.  Over HTTP one call follows the answer of another; over
\* CoAP the get's callback sends the rest and yields after each, and a yield ends with
\* whatever message comes first.  The console sets desired values at any time.  The network
\* loses, delays and reorders calls and answers, and repeats answers.
EXTENDS Integers, Sequences, FiniteSets, SequencesExt

CONSTANTS
  Params,      \* the fields of the template
  MaxCommands, \* bound: values the console sets, numbered in their order
  TooLong,     \* those over TC_IOT_MAX_FIELD_LEN characters
  Fractions,   \* those with a fraction
  Ones,        \* those for a boolean that say 1 for true
  MaxCalls,    \* bound: remote calls
  MaxNested    \* bound: callbacks inside each other

VARIABLES
  transport,   \* "http" or "coap"
  desired,     \* the server's desired value of each field, 0 for none
  told,        \* history: the values that updates brought to the server
  local,       \* the device's data: a command's number, negated when taken or told as
               \* another value
  executed,    \* history: the commands that were taken over as meant
  commands,    \* how many there have been
  frames,      \* the thread, and the callbacks active in its yields
  live,        \* the gets whose session still waits for an answer
  requests,    \* calls on their way to the server
  answers,     \* answers on their way back
  made         \* how many calls there have been

rpcVars ==
  <<transport, desired, told, local, executed, commands, frames, live, requests, answers, made>>

Nothing == [f \in Params |-> 0]

\* A frame is at the call it made last, and waits for its answer or in its yield until rest
\* says how that ended: with its own good answer, with another message, or without any.
\* session is the get whose callback it is.
Frame(at, session, bits, seen) ==
  [at |-> at, session |-> session, bits |-> bits, seen |-> seen, awaits |-> made + 1,
   rest |-> "waits"]

Top == frames[Len(frames)]
Running(t) == frames # <<>> /\ transport = t
Replace(f) == frames' = [frames EXCEPT ![Len(frames)] = f]
Rests(how) == Replace([Top EXCEPT !.rest = how])

---------------------------------------------------------------------------
(* Calls.  An update carries the local data of its moment. *)

Ask(kind, bits, values, seen, answered) ==
  /\ made < MaxCalls
  /\ made' = made + 1
  /\ requests' = requests \cup
       {[id |-> made + 1, kind |-> kind, bits |-> bits, values |-> values, seen |-> seen,
         answered |-> answered]}

DoRpcGet == Ask("get", {}, Nothing, Nothing, FALSE) /\ UNCHANGED live
DoCoapGet == Ask("get", {}, Nothing, Nothing, FALSE) /\ live' = live \cup {made + 1}
Get == IF transport = "http" THEN DoRpcGet ELSE DoCoapGet

\* param_number goes through an int over HTTP.
DoRpcUpdate(bits, values, seen) ==
  Ask("update", bits, [f \in Params |-> IF values[f] \in Fractions THEN -values[f] ELSE values[f]],
      seen, FALSE)
DoCoapUpdate(bits, values, seen) == Ask("update", bits, values, seen, FALSE)
Update(bits, values, seen) ==
  IF transport = "http" THEN DoRpcUpdate(bits, values, seen) ELSE DoCoapUpdate(bits, values, seen)

\* answered: whether the update before it got its own good answer.
DoRpcDelete(bits, seen) == Ask("delete", bits, Nothing, seen, TRUE)
DoCoapDelete(bits, seen) == Ask("delete", bits, Nothing, seen, Top.rest = "own")
Delete(bits, seen) ==
  IF transport = "http" THEN DoRpcDelete(bits, seen) ELSE DoCoapDelete(bits, seen)

---------------------------------------------------------------------------
(* check_and_process_desired *)

\* A value that is too long is passed over.
Fitting(d) == {f \in Params : d[f] # 0 /\ d[f] \notin TooLong}

\* (slip) a value that is too long marked like the others
AllBits(d) == {f \in Params : d[f] # 0}
DesiredBits(d) == Fitting(d)

\* HTTP: anything but f... and 0... is true; CoAP: only "true" is.
ProcessDesired(d) == [f \in Params |-> IF f \in Fitting(d) THEN d[f] ELSE local[f]]
CoapProcessDesired(d) ==
  [f \in Params |-> IF f \in Fitting(d) THEN IF d[f] \in Ones THEN -d[f] ELSE d[f] ELSE local[f]]
TakenOver(d) == IF transport = "http" THEN ProcessDesired(d) ELSE CoapProcessDesired(d)

TakeOver(d) ==
  /\ local' = TakenOver(d)
  /\ executed' = executed \cup {d[f] : f \in {g \in Fitting(d) : TakenOver(d)[g] = d[g]}}

---------------------------------------------------------------------------
(* The thread and the callbacks *)

RpcInit ==
  /\ transport \in {"http", "coap"}
  /\ desired = Nothing /\ local = Nothing
  /\ told = {} /\ executed = {} /\ commands = 0
  /\ frames = <<>> /\ live = {} /\ requests = {} /\ answers = {} /\ made = 0

\* tc_http_rpc_thread, each time it is started, and each round of tc_coap_advance_thread.
StartRound ==
  /\ frames = <<>>
  /\ Get
  /\ frames' = <<Frame("get", 0, {}, Nothing)>>
  /\ UNCHANGED <<transport, desired, told, local, executed, commands, answers>>

\* tc_iot_http_mqapi_rpc returns: what the first get brought is taken over and reported.
HttpAnswer(a) ==
  /\ Running("http") /\ Top.rest = "waits" /\ a.id = Top.awaits
  /\ answers' = answers \ {a}
  /\ IF Top.at # "get" \/ ~a.ok \/ DesiredBits(a.desired) = {}
     THEN Rests(IF a.ok THEN "own" ELSE "failed") /\ UNCHANGED <<local, executed, requests, made>>
     ELSE /\ TakeOver(a.desired)
          /\ Update(DesiredBits(a.desired), TakenOver(a.desired), a.desired)
          /\ Replace(Frame("update", 0, DesiredBits(a.desired), a.desired))
  /\ UNCHANGED <<transport, desired, told, commands, live>>

\* _coap_con_get_rpc_handler, called in the yield of the innermost frame, takes over what is
\* desired, reports it and yields.
GetHandler(a) ==
  /\ a.kind = "get" /\ a.id \in live /\ a.ok /\ DesiredBits(a.desired) # {}
  /\ Len(frames) < MaxNested
  /\ TakeOver(a.desired)
  /\ Update(DesiredBits(a.desired), TakenOver(a.desired), a.desired)
  /\ frames' = Append([frames EXCEPT ![Len(frames)].rest = "other"],
                      Frame("update", a.id, DesiredBits(a.desired), a.desired))
  /\ UNCHANGED live

\* _coap_con_rpc_handler and the default handler only log, and so does the get's on an error.
OtherHandler(a) ==
  /\ ~(a.kind = "get" /\ a.id \in live /\ a.ok /\ DesiredBits(a.desired) # {})
  /\ Rests(IF a.id = Top.awaits /\ a.ok THEN "own" ELSE "other")
  /\ live' = live \ {a.id}
  /\ UNCHANGED <<local, executed, requests, made>>

\* One message ends a yield; the network may have another copy of it.
CoapMessage(a) ==
  /\ Running("coap") /\ Top.rest = "waits"
  /\ answers' \in {answers, answers \ {a}}
  /\ GetHandler(a) \/ OtherHandler(a)
  /\ UNCHANGED <<transport, desired, told, commands>>

\* Nothing came in time.
CallFails ==
  /\ frames # <<>> /\ Top.rest = "waits"
  /\ Rests("failed")
  /\ UNCHANGED <<transport, desired, told, local, executed, commands, live, requests, answers, made>>

\* A session's timer runs out and the scan of a nested yield releases it.
SessionExpires(i) ==
  /\ Running("coap") /\ i \in live
  /\ live' = live \ {i}
  /\ UNCHANGED <<transport, desired, told, local, executed, commands, frames, requests, answers, made>>

\* (slip) the result of the update is not looked at
UpdateEndedSomehow == Top.rest # "waits"
UpdateEnded == Top.rest \in {"own", "other"}

ThenDelete ==
  /\ frames # <<>> /\ Top.at = "update" /\ UpdateEnded
  /\ Delete(Top.bits, Top.seen)
  /\ Replace(Frame("delete", Top.session, Top.bits, Top.seen))
  /\ UNCHANGED <<transport, desired, told, local, executed, commands, live, answers>>

ThenGetAgain ==
  /\ frames # <<>> /\ Top.at = "delete" /\ Top.rest \in {"own", "other"}
  /\ Get
  /\ Replace(Frame("again", Top.session, {}, Nothing))
  /\ UNCHANGED <<transport, desired, told, local, executed, commands, answers>>

\* A callback is over, and with it its session; a round, and all sessions time out before
\* the next.
Returns ==
  /\ frames # <<>>
  /\ \/ Top.rest = "failed"
     \/ Top.at \in {"get", "again"} /\ Top.rest # "waits"
  /\ frames' = Front(frames)
  /\ live' = IF Len(frames) = 1 THEN {} ELSE live \ {Top.session}
  /\ UNCHANGED <<transport, desired, told, local, executed, commands, requests, answers, made>>

---------------------------------------------------------------------------
(* The console, the server and the network *)

Console(f) ==
  /\ commands < MaxCommands
  /\ commands' = commands + 1
  /\ desired' = [desired EXCEPT ![f] = commands + 1]
  /\ UNCHANGED <<transport, told, local, executed, frames, live, requests, answers, made>>

Reply(r, ok) ==
  [id |-> r.id, kind |-> r.kind, ok |-> ok, desired |-> IF r.kind = "get" THEN desired ELSE Nothing]

\* The server handles a call once, or refuses it.
ServerHandles(r) ==
  /\ r \in requests
  /\ requests' = requests \ {r}
  /\ told' = IF r.kind = "update" THEN told \cup {r.values[f] : f \in r.bits} ELSE told
  /\ desired' = IF r.kind = "delete" THEN [f \in Params |-> IF f \in r.bits THEN 0 ELSE desired[f]]
                ELSE desired
  /\ answers' = answers \cup {Reply(r, TRUE)}
  /\ UNCHANGED <<transport, local, executed, commands, frames, live, made>>

ServerRefuses(r) ==
  /\ r \in requests
  /\ requests' = requests \ {r}
  /\ answers' = answers \cup {Reply(r, FALSE)}
  /\ UNCHANGED <<transport, desired, told, local, executed, commands, frames, live, made>>

NetworkLoses ==
  /\ \/ \E r \in requests : requests' = requests \ {r} /\ UNCHANGED answers
     \/ \E a \in answers : answers' = answers \ {a} /\ UNCHANGED requests
  /\ UNCHANGED <<transport, desired, told, local, executed, commands, frames, live, made>>

RpcNext ==
  \/ StartRound \/ CallFails \/ ThenDelete \/ ThenGetAgain \/ Returns
  \/ \E a \in answers : HttpAnswer(a) \/ CoapMessage(a)
  \/ \E i \in live : SessionExpires(i)
  \/ \E f \in Params : Console(f)
  \/ \E r \in requests : ServerHandles(r) \/ ServerRefuses(r)
  \/ NetworkLoses

---------------------------------------------------------------------------
(* Properties *)

\* The commands a step takes from the desired state: what a delete names goes, whatever
\* value is there by now.
Cleared(r) ==
  IF r \in requests' THEN {} ELSE {desired[f] : f \in {g \in r.bits : desired'[g] # desired[g]}}
Overtaken(r, n) == \A f \in r.bits : n # r.seen[f]

Executed(n) == n \in executed \/ (transport = "coap" /\ n \in Ones)
WasTold(r, n) ==
  transport = "http" \/ r.answered => n \in told \/ (n \in Fractions \cup Ones /\ -n \in told)

\* A command leaves the desired state only after the device took it over, as it was meant
\* unless the CoAP sample took a 1 for false, and after an update told the server: always
\* over HTTP, where a fraction is told without it, and over CoAP when the yield after the
\* update ended with the update's own answer.  The one command that may be lost is one that
\* the console set after the get, to which the delete belongs, was answered.
ClearedWasHandled ==
  [][\A r \in requests : \A n \in Cleared(r) : Overtaken(r, n) \/ (Executed(n) /\ WasTold(r, n))]_rpcVars
=============================================================================
