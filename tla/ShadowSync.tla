----------------------------- MODULE ShadowSync -----------------------------
(***************************************************************************)
(* The device data of the shadow client: src/iotsuite/tc_iot_shadow.c from *)
(* tc_iot_shadow_cmp_local on, and src/iotsuite/tc_iot_shadow_property.c.  *)
(*                                                                         *)
(* The device keeps three copies of every property: local, what it has     *)
(* last reported and what the server has last asked for.  A report or a    *)
(* confirmation is built property by property and published with QoS 0;    *)
(* on a broken connection the publish reconnects first, and control        *)
(* messages are handled nested in it.  Local data changes at any time      *)
(* (loops and interrupt handlers of the application).  The server is       *)
(* external.                                                               *)
(***************************************************************************)
EXTENDS Integers, Sequences, FiniteSets, SequencesExt

CONSTANTS
  PropertyTotal,  \* p_shadow_config->property_total
  Values,
  Initial,        \* the static initial value of the three copies
  IntProps,       \* properties of TC_IOT_SHADOW_TYPE_INT
  TooLong,        \* <<property, value>>: strings that do not fit the property
  Refused,        \* <<property, value>>: commands the application refuses
  RoomFor,        \* the properties that fit into the buffer of a document
  AppSets,        \* whether the application's callback itself sets local data
  Interrupts,     \* whether local data changes inside tc_iot_shadow_report_property
  Losses,         \* whether requests fail and a broken connection loses messages
  MaxChanges, MaxControls, MaxDrops, MaxRestarts, MaxFlight   \* bounds

Props == 1..PropertyTotal
Null == "null"

ASSUME PropsAssumption ==
  /\ PropertyTotal \in Nat \ {0}
  /\ Initial \in Values /\ Null \notin Values
  /\ IntProps \subseteq Props
  /\ TooLong \subseteq Props \X Values /\ Refused \subseteq Props \X Values
  /\ RoomFor \in Nat
  /\ AppSets \in BOOLEAN /\ Interrupts \in BOOLEAN /\ Losses \in BOOLEAN
ASSUME BoundsAssumption ==
  {MaxChanges, MaxControls, MaxDrops, MaxRestarts, MaxFlight} \subseteq Nat

VARIABLES
  local, reported, desired,     \* the three copies
  desiredBits, reportedBits,    \* the bit fields of the client
  shadowSeq,                    \* shadow_seq
  stk,                          \* the active calls, the innermost last
  connected,
  uplink, downlink,             \* messages on their way
  srv,                          \* the server's document and its sequence
  budget                        \* what the bounds still allow

device == <<local, reported, desired, desiredBits, reportedBits, shadowSeq>>
network == <<connected, uplink, downlink>>
vars == <<device, stk, network, srv, budget>>

\* A call blocked in tc_iot_mqtt_client_yield, and tc_iot_shadow_check_and_report:
\* the property it looks at, whether it has just copied it to reported (half), the
\* document so far, whether it publishes, and whether a confirmation follows.
YieldCall == [fn |-> "yield"]
Report(next) ==
  [fn |-> "report", at |-> 1, half |-> FALSE, doc |-> <<>>, waits |-> FALSE, next |-> next]
Confirm(doc) == [fn |-> "confirm", doc |-> doc, seq |-> shadowSeq, waits |-> FALSE]

Fresh == [p \in Props |-> Initial]
Get == [method |-> "get", doc |-> <<>>, seq |-> 0]

\* tc_iot_server_init has connected and sent its get request.
DeviceStarts ==
  /\ local = Fresh /\ reported = Fresh /\ desired = Fresh
  /\ desiredBits = {} /\ reportedBits = {}
  /\ shadowSeq = 0

Init ==
  /\ DeviceStarts
  /\ stk = <<>>
  /\ connected = TRUE
  /\ uplink = <<Get>>
  /\ downlink = <<>>
  /\ srv = [reported |-> [p \in Props |-> Null], desired |-> [p \in Props |-> Null], seq |-> 1]
  /\ budget = [changes |-> MaxChanges, controls |-> MaxControls, drops |-> MaxDrops, restarts |-> MaxRestarts]

Top == stk[Len(stk)]
At(fn) == stk # <<>> /\ Top.fn = fn
Caller == Front(stk)
Replace(f) == Append(Caller, f)

Allows(what) == budget[what] > 0
Spends(what) == budget' = [budget EXCEPT ![what] = @ - 1]

-----------------------------------------------------------------------------
(* tc_iot_shadow_check_and_report(do_confirm = false) *)

\* (slip) what has never been reported is not told apart, or only that is reported
Changed(p) == local[p] # reported[p]
Unreported(p) == p \notin reportedBits
Differs(p) == p \notin reportedBits \/ local[p] # reported[p]

\* tc_iot_shadow_copy_local_to_reported, which does not know integers
CopiedToReported(p) == IF p \in IntProps THEN reported ELSE [reported EXCEPT ![p] = local[p]]

AtProperty == At("report") /\ Top.at \in Props

SkipProperty ==
  /\ AtProperty /\ ~Top.half /\ ~Differs(Top.at)
  /\ stk' = Replace([Top EXCEPT !.at = @ + 1])
  /\ UNCHANGED <<device, network, srv, budget>>

\* tc_iot_shadow_report_property copies the value ...
CopyProperty ==
  /\ AtProperty /\ ~Top.half /\ Differs(Top.at)
  /\ reported' = CopiedToReported(Top.at)
  /\ stk' = Replace([Top EXCEPT !.half = TRUE])
  /\ UNCHANGED <<local, desired, desiredBits, reportedBits, shadowSeq, network, srv, budget>>

\* A document with one more property.
Extended(doc, p) == [q \in DOMAIN doc \cup {p} |-> IF q = p THEN local[p] ELSE doc[q]]

\* ... and writes what local data holds by then; a full buffer ends the report.
WriteProperty ==
  /\ AtProperty /\ Top.half
  /\ IF Cardinality(DOMAIN Top.doc) < RoomFor
     THEN /\ reportedBits' = reportedBits \cup {Top.at}
          /\ stk' = Replace([Top EXCEPT !.half = FALSE, !.at = @ + 1, !.doc = Extended(@, Top.at)])
     ELSE stk' = Caller /\ UNCHANGED reportedBits
  /\ UNCHANGED <<local, reported, desired, desiredBits, shadowSeq, network, srv, budget>>

Publishing == (At("report") /\ Top.at > PropertyTotal /\ Top.doc # <<>>) \/ At("confirm")

-----------------------------------------------------------------------------
(* tc_iot_shadow_check_and_report(do_confirm = true), after a successful report in *)
(* tc_iot_confirm_devcie_data                                                      *)

\* (slip) confirms whatever was commanded
Commanded == desiredBits
\* Commands are confirmed when local data has the value.
Done == {p \in desiredBits : desired[p] = local[p]}

\* The frame of the confirmation that follows, and the bits it clears: with more
\* than the buffer holds, some are cleared and nothing is sent.
\* (The document carries nulls; the model keeps the values they stand for.)
Confirmation ==
  IF Done = {} \/ Cardinality(Done) > RoomFor THEN <<>> ELSE <<Confirm(Restrict(local, Done))>>
Cleared == {p \in Done : Cardinality({q \in Done : q < p}) < RoomFor}

\* (slip) tc_iot_confirm_devcie_data that only reports
ReturnAfter(caller) == stk' = caller /\ UNCHANGED desiredBits
\* A report has been sent or was not needed: what follows it.
Continue(caller) ==
  IF Top.fn = "report" /\ Top.next = "confirm"
  THEN /\ stk' = caller \o Confirmation
       /\ desiredBits' = desiredBits \ Cleared
  ELSE stk' = caller /\ UNCHANGED desiredBits

ReportSkipped ==
  /\ At("report") /\ Top.at > PropertyTotal /\ Top.doc = <<>>
  /\ Continue(Caller)
  /\ UNCHANGED <<local, reported, desired, reportedBits, shadowSeq, network, srv, budget>>

PublishSends ==
  /\ Publishing /\ connected
  /\ uplink' = Append(uplink,
       IF Top.fn = "report" THEN [method |-> "update", doc |-> Top.doc, seq |-> 0]
       ELSE [method |-> "delete", doc |-> Top.doc, seq |-> Top.seq])
  /\ Continue(Caller)
  /\ UNCHANGED <<local, reported, desired, reportedBits, shadowSeq, connected, downlink, srv, budget>>

\* The publish finds the connection broken and reconnects.
PublishWaits ==
  /\ Publishing /\ ~connected /\ ~Top.waits
  /\ stk' = Replace([Top EXCEPT !.waits = TRUE])
  /\ UNCHANGED <<device, network, srv, budget>>

\* The connection is not back in time: the call returns
\* with an error, and what it had marked as reported or confirmed stays so.
PublishFails ==
  /\ Losses /\ Publishing /\ ~connected
  /\ stk' = Caller
  /\ UNCHANGED <<device, network, srv, budget>>

Reading == stk # <<>> /\ (Top.fn = "yield" \/ (Publishing /\ Top.waits))

Reconnect ==
  /\ Reading /\ ~connected
  /\ connected' = TRUE
  /\ UNCHANGED <<device, stk, uplink, downlink, srv, budget>>

-----------------------------------------------------------------------------
(* tc_iot_shadow_doc_parse and _tc_iot_sync_shadow_property *)

\* tc_iot_shadow_save_to_cached and tc_iot_shadow_save_string_to_cached
SavedToDesired(p, v) == IF p \in IntProps \/ <<p, v>> \in TooLong THEN desired[p] ELSE v

\* What the callback is shown: the value, or the cached string.
Told(p, v) == IF <<p, v>> \in TooLong THEN desired[p] ELSE v

\* Local data after the callback and, when it succeeds, tc_iot_shadow_save_to_cached.
SavedToLocal(p, v) ==
  IF <<p, v>> \in Refused \/ (p \in IntProps /\ ~AppSets) THEN local[p] ELSE Told(p, v)

\* _tc_iot_sync_shadow_property of the desired values, and the report it starts.
SyncShadowProperty(doc) ==
  LET Synced(saved(_, _), data) == [p \in Props |-> IF p \in DOMAIN doc THEN saved(p, doc[p]) ELSE data[p]]
  IN
  /\ desired' = Synced(SavedToDesired, desired)
  /\ local' = Synced(SavedToLocal, local)
  /\ desiredBits' = desiredBits \cup DOMAIN doc
  /\ stk' = Append(stk, Report("confirm"))

\* tc_iot_shadow_doc_parse: a state that desires nothing leaves everything as it is, its
\* sequence too.
DocParse(m) ==
  IF m.doc = <<>> THEN UNCHANGED <<local, desired, desiredBits, shadowSeq, stk>>
  ELSE shadowSeq' = m.seq /\ SyncShadowProperty(m.doc)

\* A control message, or the reply to the get request.
Deliver ==
  /\ Reading /\ connected /\ downlink # <<>>
  /\ downlink' = Tail(downlink)
  /\ DocParse(Head(downlink))
  /\ UNCHANGED <<reported, reportedBits, connected, uplink, srv, budget>>

-----------------------------------------------------------------------------
(* The application *)

\* Anything that changes local data: a loop, a sensor, an interrupt handler.
Change(p, v) ==
  /\ Allows("changes") /\ v # local[p]
  /\ Interrupts \/ ~(At("report") /\ Top.half)
  /\ local' = [local EXCEPT ![p] = v]
  /\ Spends("changes")
  /\ UNCHANGED <<reported, desired, desiredBits, reportedBits, shadowSeq, stk, network, srv>>

\* tc_iot_report_device_data
AppReport ==
  /\ stk = <<>> /\ Len(uplink) < MaxFlight
  /\ stk' = <<Report("return")>>
  /\ UNCHANGED <<device, network, srv, budget>>

Yield ==
  /\ stk = <<>>
  /\ stk' = <<YieldCall>>
  /\ UNCHANGED <<device, network, srv, budget>>

YieldReturns ==
  /\ At("yield")
  /\ stk' = <<>>
  /\ UNCHANGED <<device, network, srv, budget>>

\* The device is switched off and on again: it starts from its static data and asks
\* for the commands that have piled up.
Restart ==
  /\ Allows("restarts") /\ Spends("restarts")
  /\ local' = Fresh /\ reported' = Fresh /\ desired' = Fresh
  /\ desiredBits' = {} /\ reportedBits' = {} /\ shadowSeq' = 0
  /\ stk' = <<>> /\ connected' = TRUE /\ downlink' = <<>>
  /\ \E k \in 0..Len(uplink) : uplink' = SubSeq(uplink, 1, k) \o <<Get>>
  /\ UNCHANGED srv

-----------------------------------------------------------------------------
(* The server and the network *)

Pending == {p \in Props : srv.desired[p] # Null}

Pushed(s) == [doc |-> Restrict(s.desired, {p \in Props : s.desired[p] # Null}), seq |-> s.seq]

\* A message to a device that is not connected is lost: its session is clean.
Push(s) == downlink' = IF connected THEN Append(downlink, Pushed(s)) ELSE downlink

Control(p, v) ==
  /\ Allows("controls") /\ Spends("controls")
  /\ srv' = [srv EXCEPT !.desired[p] = v, !.seq = @ + 1]
  /\ Push(srv')
  /\ UNCHANGED <<device, stk, connected, uplink>>

\* Data with the values of a document in their places.
Overlaid(data, doc) == [p \in Props |-> IF p \in DOMAIN doc THEN doc[p] ELSE data[p]]

\* An update sets the reported data; a delete with the current sequence forgets
\* commands; a get is answered with the pending ones.
ServerReceives ==
  /\ uplink # <<>>
  /\ uplink' = Tail(uplink)
  /\ LET m == Head(uplink) IN
     CASE m.method = "update" ->
            srv' = [srv EXCEPT !.reported = Overlaid(@, m.doc)] /\ UNCHANGED downlink
       [] m.method = "delete" ->
            /\ srv' = IF m.seq # srv.seq THEN srv
                      ELSE [srv EXCEPT !.desired = Overlaid(@, [p \in DOMAIN m.doc |-> Null])]
            /\ UNCHANGED downlink
       [] m.method = "get" -> Push(srv) /\ UNCHANGED srv
  /\ UNCHANGED <<device, stk, connected, budget>>

\* The connection breaks, with what is on its way if Losses.
Drop ==
  /\ connected /\ Allows("drops") /\ Spends("drops")
  /\ Losses \/ (uplink = <<>> /\ downlink = <<>>)
  /\ connected' = FALSE
  /\ downlink' = <<>>
  /\ \E k \in 0..Len(uplink) : uplink' = SubSeq(uplink, 1, k)
  /\ UNCHANGED <<device, stk, srv>>

-----------------------------------------------------------------------------

ReportStep == SkipProperty \/ CopyProperty \/ WriteProperty \/ ReportSkipped
ClientStep == ReportStep \/ PublishSends \/ PublishWaits \/ PublishFails \/ YieldReturns

Next ==
  \/ ClientStep \/ Deliver \/ Reconnect
  \/ AppReport \/ Yield \/ Restart
  \/ \E p \in Props, v \in Values : Change(p, v) \/ Control(p, v)
  \/ ServerReceives \/ Drop

Spec == Init /\ [][Next]_vars

\* The application's loop yields and reports again and again, every call goes on,
\* a yield that finds a message reads it sooner or later, and the server works.
FairSpec ==
  /\ Spec
  /\ WF_vars(ClientStep) /\ WF_vars(Reconnect) /\ WF_vars(ServerReceives)
  /\ SF_vars(AppReport) /\ SF_vars(Yield) /\ SF_vars(Deliver)

-----------------------------------------------------------------------------
(* Properties *)

\* The server forgets a command only after the device had the commanded value, even
\* if a newer command, a restart or a nested confirmation crosses the confirmation.
ForgottenOnlyIfDone ==
  [][\A p \in Props :
       srv.desired[p] # Null /\ srv'.desired[p] = Null => Head(uplink).doc[p] = srv.desired[p]]_vars

Unbroken == budget.drops = MaxDrops

\* Once nothing changes any more the server's document agrees with local data,
\* although changes, commands and restarts come while reports are being built:
\* true as long as the connection has never broken.
Converges == <>[](Unbroken => srv.reported = local)

\* The same of every execution, as the documentation has it.
AlwaysConverges == <>[](srv.reported = local)

\* A change that comes when the connection is up for good reaches the server or is
\* overtaken by another one, whatever was lost before.
ChangeArrives ==
  \A p \in Props, v \in Values :
    (connected /\ ~Allows("drops") /\ local[p] = v /\ reported[p] # v)
    ~> (srv.reported[p] = v \/ local[p] # v)

\* A command on its way to a device whose own data has settled, and which does not
\* refuse it, is carried out and forgotten, unless the connection breaks.
CommandsEnd ==
  \A p \in Props, v \in Values :
    (/\ Unbroken
     /\ <<p, v>> \notin Refused
     /\ ~Allows("changes")
     /\ srv.desired[p] = v
     /\ \E k \in DOMAIN downlink : p \in DOMAIN downlink[k].doc /\ downlink[k].doc[p] = v)
    ~> (srv.desired[p] # v \/ ~Unbroken)
=============================================================================
