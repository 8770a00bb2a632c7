------------------------------ MODULE SubDevice ------------------------------
(***************************************************************************)
(* Sub-devices behind a gateway: iotsuite/tc_iot_sub_device.c and the      *)
(* event callback of examples/advanced_edition/sub_device.                 *)
(*                                                                         *)
(* The gateway speaks to the server in group documents: a list of products,*)
(* each with a list of devices.  They are built by inserting one entry at  *)
(* a time in front of the closing brackets of the text.  A command sets    *)
(* values and marks them; when all of it is processed the gateway reports  *)
(* what is marked and then confirms it with the command's sequence number. *)
(* Either is a QoS1 publish, inside which the MQTT client may deliver the  *)
(* next command: frames is the stack of the calls under way.               *)
(***************************************************************************)
EXTENDS Integers, Sequences, FiniteSets, SequencesExt, FiniteSetsExt

CONSTANTS
  Declared,    \* the devices the application registers, a sequence of [product, name]
  Capacity,    \* the size of its table
  Properties,  \* the properties of a device, in order
  Orders,      \* what the server may order: sets of [device, property, value]
  Junk,        \* group documents that tell known devices nothing, for want of fields
  MaxOrders,   \* bound: orders issued
  MaxNesting   \* bound: commands handled inside each other

None == ""   \* the empty string

\* A product has a name: a document begins with prev_product empty.
ASSUME TableAssumption ==
  /\ Declared \in Seq([product : STRING, name : STRING]) /\ IsInjective(Declared)
  /\ \A i \in DOMAIN Declared : Declared[i].product # None
  /\ Properties \in Seq(STRING)
  /\ Capacity \in Nat /\ MaxOrders \in Nat

\* tc_iot_sub_device_register refuses what does not fit in the table.
Registered == SubSeq(Declared, 1, Min({Capacity, Len(Declared)}))
Devices == Range(Registered)
Props == Range(Properties)

VARIABLES
  table,   \* for each device its sequence, values, reported_bits and desired_bits
  app,     \* how far the application's main is
  frames,  \* the calls under way
  server,  \* for each device its sequence, reported values and desired values
  down,    \* group documents on their way to the gateway
  issued,  \* number of orders
  early,   \* history: whether the server dropped a value that was not reported yet
  faults   \* history: what went wrong: "lost" commands and "unsent" documents

vars == <<table, app, frames, server, down, issued, early, faults>>

-----------------------------------------------------------------------------
(* Group documents.  A token is <<kind, name, value>>. *)

Close == <<"close", None, 0>>
Leaf(name, value) == <<<<"leaf", name, value>>>>
Object(name) == <<<<"object", name, 0>>, Close>>
Array(name) == <<<<"array", name, 0>>, Close>>

MaxDepth == 16   \* sizeof(backward_quotes)
Closing(doc, n) == n <= Len(doc) /\ \A i \in Len(doc) - n + 1 .. Len(doc) : doc[i] = Close
\* The depth asked for, or all the closing brackets the document ends with.
Depth(doc, depth) ==
  IF depth > 0 THEN depth ELSE Max({n \in 0..MaxDepth : Closing(doc, n)})

\* (slip) always in front of all closing brackets
AddDataInnermost(doc, depth, entry) ==
  LET n == Depth(doc, 0)
  IN IF n < MaxDepth
     THEN SubSeq(doc, 1, Len(doc) - n) \o entry \o SubSeq(doc, Len(doc) - n + 1, Len(doc))
     ELSE doc
\* tc_iot_sub_device_group_doc_add_data.  Bound: the document fits in the buffer.
AddData(doc, depth, entry) ==
  LET n == Depth(doc, depth)
  IN IF n < MaxDepth /\ Closing(doc, n)
     THEN SubSeq(doc, 1, Len(doc) - n) \o entry \o SubSeq(doc, Len(doc) - n + 1, Len(doc))
     ELSE doc

DocInit(method) == <<<<"object", None, 0>>>> \o Leaf("method", method) \o Array("sub_dev") \o <<Close>>

AddProduct(doc, product) ==
  LET opened == AddData(doc, 2, Object(None))
  IN AddData(AddData(opened, 0, Leaf("product", product)), 0, Array("device_list"))

AddDevice(doc, name, sequence) ==
  LET named == AddData(AddData(doc, 4, Object(None)), 0, Leaf("dev_name", name))
  IN IF sequence > 0 THEN AddData(named, 0, Leaf("sequence", sequence)) ELSE named

AddStateHolder(doc, holder) == AddData(doc, 6, Object(holder))

\* The part of tc_iot_sub_device_group_doc_pub that completes the document.
AddSession(doc) == AddData(AddData(doc, 1, Object("passthrough")), 2, Leaf("sid", "sid"))

\* A product is opened for the first device of a run of devices of that product.
Extend(doc, previous, d, sequence) ==
  LET begun == IF d.product # previous THEN AddProduct(doc, d.product) ELSE doc
  IN AddDevice(begun, d.name, sequence)

\* Properties in table order, each with its value, or null.
AddFields(doc, d, marks, holder) ==
  FoldLeft(LAMBDA acc, p :
             IF p \in marks
             THEN AddData(acc, 0, Leaf(p, IF holder = "reported" THEN table[d].value[p] ELSE 0))
             ELSE acc,
           AddStateHolder(AddData(doc, 0, Object("state")), holder), Properties)

\* tc_iot_sub_device_report and tc_iot_sub_device_confirm.
Marks(d, holder) == IF holder = "reported" THEN table[d].reported ELSE table[d].desired
Marked(holder) == {d \in Devices : Marks(d, holder) # {}}
StateDoc(holder) ==
  LET add(acc, d) ==
        IF d \notin Marked(holder) THEN acc
        ELSE [doc |-> AddFields(Extend(acc.doc, acc.previous, d,
                                       IF holder = "desired" THEN table[d].sequence ELSE 0),
                                d, Marks(d, holder), holder),
              previous |-> d.product]
  IN AddSession(FoldLeft(add, [doc |-> DocInit(holder), previous |-> None], Registered).doc)

\* tc_iot_sub_device_onoffline and do_get, with the fields their documents end with.
Ending(method) == CASE method = "online" -> <<"timestamp", "nonce">>
                    [] method = "get" -> <<"metadata">>
                    [] OTHER -> <<"timestamp">>
ListDoc(method) ==
  LET signed(doc) == IF method = "online" THEN AddData(doc, 0, Leaf("sign", "sign")) ELSE doc
      add(acc, d) == [doc |-> signed(Extend(acc.doc, acc.previous, d, 0)), previous |-> d.product]
      listed == FoldLeft(add, [doc |-> DocInit(method), previous |-> None], Registered).doc
  IN AddSession(FoldLeft(LAMBDA doc, field : AddData(doc, 1, Leaf(field, 1)), listed, Ending(method)))

\* What the server reads in a document: its devices, and for each of their properties
\* the holder it is in, its value and the sequence of the device.
Item(product, name, holder, property, value, sequence) ==
  [device |-> [product |-> product, name |-> name], holder |-> holder, property |-> property,
   value |-> value, sequence |-> sequence]
InProduct == <<None, "sub_dev", None>>
InDevice == InProduct \o <<"device_list", None>>
ReadToken(r, t) ==
  IF t[1] \in {"object", "array"} THEN [r EXCEPT !.path = Append(@, t[2])]
  ELSE IF t[1] = "close" THEN [r EXCEPT !.path = Front(@)]
  ELSE IF r.path = InProduct /\ t[2] = "product" THEN [r EXCEPT !.product = t[3]]
  ELSE IF r.path = InDevice /\ t[2] = "sequence" THEN [r EXCEPT !.sequence = t[3]]
  ELSE IF r.path = InDevice /\ t[2] = "dev_name"
       THEN [r EXCEPT !.name = t[3], !.sequence = 0,
                      !.items = @ \cup {Item(r.product, t[3], "listed", None, 0, 0)}]
  ELSE IF t[2] \in Props /\ Len(r.path) = 7 /\ SubSeq(r.path, 1, 6) = InDevice \o <<"state">>
       THEN [r EXCEPT !.items = @ \cup {Item(r.product, r.name, r.path[7], t[2], t[3], r.sequence)}]
  ELSE r
Reading(doc) ==
  FoldLeft(ReadToken,
           [path |-> <<>>, product |-> None, name |-> None, sequence |-> 0, items |-> {}], doc).items

Listed(ds) == {Item(d.product, d.name, "listed", None, 0, 0) : d \in ds}
\* What a report or a confirmation is to say.
Wanted(holder) ==
  Listed(Marked(holder)) \cup
  UNION {{Item(d.product, d.name, holder, p, IF holder = "reported" THEN table[d].value[p] ELSE 0,
               IF holder = "desired" THEN table[d].sequence ELSE 0) : p \in Marks(d, holder)}
         : d \in Devices}

-----------------------------------------------------------------------------

NoOrder == -1

Init ==
  /\ table = [d \in Devices |-> [sequence |-> 0, value |-> [p \in Props |-> 0],
                                 reported |-> {}, desired |-> {}]]
  /\ app = "online"
  /\ frames = <<>>
  /\ server = [d \in Devices |-> [sequence |-> 0, reported |-> [p \in Props |-> 0],
                                  desired |-> [p \in Props |-> NoOrder]]]
  /\ down = <<>> /\ issued = 0
  /\ early = FALSE /\ faults = {}

\* Calls: a handler reports, then confirms, then is done; waits is whether its publish is
\* under way.
Top == frames[Len(frames)]
Call(at, waits) == [at |-> at, waits |-> waits]
Replace(call) == [frames EXCEPT ![Len(frames)] = call]
At(stage) == frames # <<>> /\ Top = Call(stage, FALSE)

\* The server takes over reported values; it drops the desired ones that are confirmed
\* under their device's current sequence.
Taken(items) ==
  [d \in Devices |->
    LET of(holder) == {i \in items : i.device = d /\ i.holder = holder}
    IN [server[d] EXCEPT
          !.reported = [p \in Props |-> IF \E i \in of("reported") : i.property = p
                                        THEN (CHOOSE i \in of("reported") : i.property = p).value
                                        ELSE @[p]],
          !.desired = [p \in Props |-> IF \E i \in of("desired") :
                                            i.property = p /\ i.sequence = server[d].sequence
                                       THEN NoOrder ELSE @[p]]]]

\* What is desired of some devices, product by product.
Wish(d, s) ==
  [name |-> d.name, sequence |-> s.sequence, holds |-> TRUE,
   desired |-> {<<p, s.desired[p]>> : p \in {q \in Props : s.desired[q] # NoOrder}}]
Pending(state, ds) == {[product |-> d.product, devices |-> <<Wish(d, state[d])>>] : d \in ds}
Unsettled == {d \in Devices : \E p \in Props : server[d].desired[p] # NoOrder}

\* tc_iot_sub_device_group_doc_pub: the document reaches the server, or no session is left
\* or the connection is down.  What it says is written as the set of its items, which is
\* how the document reads (DocumentsRead).
Publish(read) ==
  \/ /\ server' = Taken(read)
     /\ early' = (early \/ \E d \in Devices, p \in Props :
                    /\ server[d].desired[p] # server'[d].desired[p]
                    /\ server[d].desired[p] # server[d].reported[p])
     /\ UNCHANGED faults
  \/ faults' = faults \cup {"unsent"} /\ UNCHANGED <<server, early>>

-----------------------------------------------------------------------------
(* The application *)

\* Its documents list all devices; the server answers the get with what is unsettled.
Application ==
  /\ frames = <<>> /\ app \in {"online", "get", "stopped"}
  /\ frames' = <<Call("done", TRUE)>>
  /\ app' = CASE app = "online" -> "get" [] app = "get" -> "run" [] OTHER -> "ended"
  /\ Publish(Listed(Devices))
  /\ down' = IF app = "get" /\ faults' = faults
             THEN Append(down, Pending(server, Unsettled)) ELSE down
  /\ UNCHANGED <<table, issued>>

Stop == app = "run" /\ app' = "stopped"
        /\ UNCHANGED <<table, frames, server, down, issued, early, faults>>

-----------------------------------------------------------------------------
(* Commands *)

MarkReport(t, ps) == [t EXCEPT !.reported = @ \cup ps]
MarkConfirm(t, ps) == [t EXCEPT !.desired = @ \cup ps]
\* TC_IOT_SUB_DEV_SEQUENCE_RECEIVED
SequenceReceived(t, sequence) == [t EXCEPT !.sequence = sequence]
SetFields(t, fields, ps) ==
  [t EXCEPT !.value = [p \in Props |-> IF p \in ps THEN (CHOOSE f \in fields : f[1] = p)[2]
                                                   ELSE @[p]]]
\* (slip) a value is taken over but not marked for confirmation
SetPointsUnmarked(t, fields) ==
  LET ps == {f[1] : f \in fields} \cap Props
  IN SetFields(MarkReport(t, ps), fields, ps)
\* TC_IOT_SUB_DEV_SERVER_CONTROL_DEVICE for every field of a state that is a property:
\* marked for report, set, marked for confirmation.
SetPoints(t, fields) ==
  LET ps == {f[1] : f \in fields} \cap Props
  IN MarkConfirm(SetFields(MarkReport(t, ps), fields, ps), ps)

\* tc_iot_group_control_process comes to the devices of a product in order and ends
\* at one that lacks its sequence or, having that, its state.
Reached(devices) ==
  {j \in DOMAIN devices : /\ devices[j].sequence # 0
                          /\ \A k \in 1..(j - 1) : devices[k].sequence # 0 /\ devices[k].holds}

\* The entries for a device, which tc_iot_sub_device_info_find finds by its two names.
Found(doc, d) ==
  UNION {{e.devices[j] : j \in {k \in Reached(e.devices) : e.devices[k].name = d.name}}
         : e \in {x \in doc : x.product = d.product}}

ASSUME ServerAssumption ==
  /\ \A o \in Orders : o \subseteq [device : Devices, property : Props, value : Int]
  /\ \A doc \in Junk, d \in Devices : Found(doc, d) = {}

\* What one entry does to its device.
ProcessDevice(t, e) ==
  LET kept == SequenceReceived(t, e.sequence)
  IN IF e.holds THEN SetPoints(kept, e.desired) ELSE kept

\* Every product is processed, even when one was not to its end; unknown devices and
\* properties are passed over.  Bound: a document has one entry for a device.
Processed(doc) ==
  [d \in Devices |-> IF Found(doc, d) = {} THEN table[d]
                     ELSE ProcessDevice(table[d], CHOOSE e \in Found(doc, d) : TRUE)]

\* While the application yields, in its loop or for the sessions left at the end, or a call
\* waits; a handler for it then starts to report.
Receive ==
  /\ down # <<>>
  /\ \/ frames = <<>> /\ app \in {"run", "ended"}
     \/ frames # <<>> /\ Top.waits /\ Len(frames) < MaxNesting
  /\ table' = Processed(Head(down))
  /\ down' = Tail(down)
  /\ frames' = Append(frames, Call("report", FALSE))
  /\ UNCHANGED <<app, server, issued, early, faults>>

\* The marks are cleared while the document is built, before it is published.
Cleared(holder) ==
  [d \in Devices |-> IF holder = "reported" THEN [table[d] EXCEPT !.reported = {}]
                     ELSE [table[d] EXCEPT !.desired = {}]]

\* One of the two publishes; it is left out when nothing is marked.
Tell(holder, next) ==
  IF Marked(holder) = {}
  THEN /\ frames' = Replace(Call(next, FALSE))
       /\ UNCHANGED <<table, app, server, down, issued, early, faults>>
  ELSE /\ frames' = Replace(Call(next, TRUE))
       /\ table' = Cleared(holder)
       /\ Publish(Wanted(holder))
       /\ UNCHANGED <<app, down, issued>>

\* (slip) the confirmation is sent in place of the report
ReportConfirms == At("report") /\ Tell("desired", "confirm")
Report == At("report") /\ Tell("reported", "confirm")
Confirm == At("confirm") /\ Tell("desired", "done")

PublishEnds ==
  /\ frames # <<>> /\ Top.waits
  /\ frames' = Replace(Call(Top.at, FALSE))
  /\ UNCHANGED <<table, app, server, down, issued, early, faults>>

Return ==
  /\ At("done") /\ frames' = Front(frames)
  /\ UNCHANGED <<table, app, server, down, issued, early, faults>>

-----------------------------------------------------------------------------
(* The server and the network *)

\* The server pushes all that is desired of the devices concerned.
Order(o) ==
  /\ issued < MaxOrders /\ issued' = issued + 1
  /\ server' = [d \in Devices |->
       LET mine == {x \in o : x.device = d}
       IN IF mine = {} THEN server[d]
          ELSE [server[d] EXCEPT
                  !.sequence = @ + 1,
                  !.desired = [p \in Props |-> IF \E x \in mine : x.property = p
                                               THEN (CHOOSE x \in mine : x.property = p).value
                                               ELSE @[p]]]]
  /\ down' = Append(down, Pending(server', {x.device : x \in o}))
  /\ UNCHANGED <<table, app, frames, early, faults>>

Garble(doc) ==
  /\ issued < MaxOrders /\ issued' = issued + 1
  /\ down' = Append(down, doc)
  /\ UNCHANGED <<table, app, frames, server, early, faults>>

Lose ==
  /\ down # <<>> /\ down' = Tail(down)
  /\ faults' = faults \cup {"lost"}
  /\ UNCHANGED <<table, app, frames, server, issued, early>>

CallStep == Report \/ Confirm \/ PublishEnds \/ Return

Next ==
  \/ Application \/ Stop
  \/ Receive \/ CallStep
  \/ \E o \in Orders : Order(o)
  \/ \E doc \in Junk : Garble(doc)
  \/ Lose

Spec == Init /\ [][Next]_vars

\* The application runs, what is received is handled, the publishes end.
FairSpec == Spec /\ WF_vars(Application \/ Receive \/ CallStep) /\ WF_vars(CallStep)

-----------------------------------------------------------------------------
(* Properties *)

\* Each document means to its reader exactly what was marked when it was built, every
\* value under its own device and product and, in a confirmation, with the sequence of
\* the command: bracket counting puts no entry into a neighbour.
DocumentsRead ==
  /\ At("report") /\ Marked("reported") # {} => Reading(StateDoc("reported")) = Wanted("reported")
  /\ At("confirm") /\ Marked("desired") # {} => Reading(StateDoc("desired")) = Wanted("desired")
  /\ frames = <<>> /\ app \in {"online", "get", "stopped"} => Reading(ListDoc(app)) = Listed(Devices)

\* The server drops a desired value only when the device has reported it: commands that
\* are lost, or handled inside the publishes of others, never make the gateway confirm too
\* much.  The one exception is a report that was not sent: its marks are gone, and the
\* confirmation follows all the same.
ConfirmedIsReported == early => "unsent" \in faults

\* Without faults every order is carried out, reported and confirmed.
Settled ==
  /\ Unsettled = {}
  /\ \A d \in Devices : server[d].reported = table[d].value
OrdersSettle == <>[](Settled \/ faults # {} \/ app \in {"stopped", "ended"})

=============================================================================
