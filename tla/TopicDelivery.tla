---------------------------- MODULE TopicDelivery ----------------------------
(***************************************************************************)
(* Delivery of one PUBLISH to the handlers of an MQTT client:              *)
(* deliverMessage, isTopicMatched and tc_iot_mqtt_set_message_handler of   *)
(* src/mqtt/tc_iot_mqtt.c.                                                 *)
(*                                                                         *)
(* Topics and filters are sequences of characters.  The topic is read from *)
(* readbuf while the handlers run, and every packet that a handler's own   *)
(* calls read goes to the same buffer with a NUL behind it: an UNSUBACK    *)
(* takes its first five bytes, a SUBACK six, while the topic begins at the *)
(* fifth byte or, in a longer PUBLISH, up to three bytes later.            *)
(***************************************************************************)
EXTENDS Integers, Sequences, FiniteSets, SequencesExt

CONSTANTS
  Filters,      \* valid filters
  Names,        \* topic names
  HandlerSlots, \* TC_IOT_MAX_MESSAGE_HANDLERS
  MaxChanges    \* bound: subscriptions that callbacks change during one delivery

Overwritten == "?"   \* a character of the topic whose place another packet took
Free == <<>>
Default == <<"default">>

\* + fills a level, # is the last level.
Valid(f) ==
  \A i \in DOMAIN f : f[i] \in {"+", "#"} =>
    (i > 1 => f[i - 1] = "/") /\ (i < Len(f) => f[i] = "+" /\ f[i + 1] = "/")

ASSUME TopicAssumption ==
  /\ HandlerSlots \in Nat \ {0} /\ MaxChanges \in Nat
  /\ Names \subseteq Seq(STRING) /\ Filters \subseteq Seq(STRING) \ {Free, Default}
  /\ \A f \in Filters : Valid(f)
  /\ \A n \in Names : \A k \in DOMAIN n : n[k] # Overwritten

VARIABLES
  handlers,  \* message_handlers: the filter of each slot
  topic,     \* the topic name, in readbuf
  delivery,  \* where deliverMessage is: at, the slot it looks at next, the topic's start
  name,      \* history: the topic name the broker sent
  called,    \* history: the filters whose handlers were called, Default for the default
  kept       \* history: the filters registered since the delivery began

topicVars == <<handlers, topic, delivery, name, called, kept>>

Slot == 1..HandlerSlots

\* Places in readbuf, counted from 0, where a PUBLISH has its topic: behind the header byte,
\* one to four bytes of remaining length and two of the topic's length.
Starts == 4..7

Idle == [at |-> "idle", slot |-> 1, changes |-> 0, start |-> 4]

TopicInit ==
  /\ handlers = [i \in Slot |-> Free]
  /\ topic = <<>> /\ name = <<>>
  /\ delivery = Idle
  /\ called = <<>>
  /\ kept = {}

-----------------------------------------------------------------------------
(* Matching *)

\* (slip) + that takes one character of its level
OneCharacter(s, j) == j
\* The end of the level that position j of s is in.
LevelEnd(s, j) ==
  CHOOSE k \in j..Len(s) :
    /\ \A l \in j+1..k : s[l] # "/"
    /\ k = Len(s) \/ s[k + 1] = "/"

\* isTopicMatched: filter and name are used up together.
IsTopicMatched(filter, n) ==
  LET matched[at \in (1..Len(filter) + 1) \X (1..Len(n) + 1)] ==
        LET i == at[1]
            j == at[2]
        IN IF i > Len(filter) \/ j > Len(n) THEN i > Len(filter) /\ j > Len(n)
           ELSE /\ n[j] = "/" => filter[i] = "/"
                /\ CASE filter[i] = "+" -> matched[<<i + 1, LevelEnd(n, j) + 1>>]
                     [] filter[i] = "#" -> matched[<<i + 1, Len(n) + 1>>]
                     [] OTHER -> filter[i] = n[j] /\ matched[<<i + 1, j + 1>>]
  IN matched[<<1, 1>>]

Registered(f) == \E i \in Slot : handlers[i] = f
SlotOf(f) == CHOOSE i \in Slot : handlers[i] = f
FirstSlot(S) == CHOOSE i \in S : \A j \in S : i <= j

\* tc_iot_mqtt_set_message_handler: the filter's own slot, else the first free one; with
\* none the handler is dropped.
SetHandler(f) ==
  LET free == {i \in Slot : handlers[i] = Free} IN
  IF Registered(f) \/ free = {} THEN handlers ELSE [handlers EXCEPT ![FirstSlot(free)] = f]

\* The same with no handler: the slot is freed.
RemoveHandler(f) == IF Registered(f) THEN [handlers EXCEPT ![SlotOf(f)] = Free] ELSE handlers

-----------------------------------------------------------------------------

Subscribe(f) ==
  /\ delivery.at = "idle"
  /\ handlers' = SetHandler(f)
  /\ UNCHANGED <<topic, delivery, name, called, kept>>

Receive(n, start) ==
  /\ delivery.at = "idle"
  /\ topic' = n /\ name' = n
  /\ delivery' = [Idle EXCEPT !.at = "loop", !.start = start]
  /\ called' = <<>>
  /\ kept' = {handlers[i] : i \in Slot} \ {Free}
  /\ UNCHANGED handlers

\* The slots that deliverMessage still calls for what it reads as the topic.
Due == {i \in Slot : /\ i >= delivery.slot /\ handlers[i] # Free
                     /\ handlers[i] = topic \/ IsTopicMatched(handlers[i], topic)}

CallHandler ==
  /\ delivery.at = "loop" /\ Due # {}
  /\ LET i == FirstSlot(Due) IN
     /\ called' = Append(called, handlers[i])
     /\ delivery' = [delivery EXCEPT !.at = "callback", !.slot = i + 1]
  /\ UNCHANGED <<handlers, topic, name, kept>>

\* The loop ends; a message nobody took goes to default_msg_handler.
DeliveryEnds ==
  /\ delivery.at = "loop" /\ Due = {}
  /\ called' = IF called = <<>> THEN <<Default>> ELSE called
  /\ delivery' = [delivery EXCEPT !.at = "done"]
  /\ UNCHANGED <<handlers, topic, name, kept>>

MayChange == delivery.at = "callback" /\ delivery.changes < MaxChanges

\* Where the last byte may stand, a NUL included, that the packets read by a handler's call
\* have written; 0 if they end before any topic, or there are none.
Reached == {0} \cup 4..delivery.start + Len(topic)
UnsubackEnd == 4
SubackEnd == 5
AckEnd == 4

\* The topic as it stands in readbuf after packets up to last.
TopicAfter(last) ==
  [k \in DOMAIN topic |-> IF delivery.start + k - 1 <= last THEN Overwritten ELSE topic[k]]

CallbackCalls(last) ==
  /\ MayChange
  /\ topic' = TopicAfter(last)
  /\ delivery' = [delivery EXCEPT !.changes = @ + 1]
  /\ UNCHANGED <<name, called>>

\* A handler calls tc_iot_mqtt_unsubscribe, of any filter, its own included.
CallbackUnsubscribes(f, last) ==
  /\ CallbackCalls(last)
  /\ Registered(f) /\ last >= UnsubackEnd
  /\ handlers' = RemoveHandler(f)
  /\ kept' = kept \ {f}

CallbackSubscribes(f, last) ==
  /\ CallbackCalls(last)
  /\ last >= SubackEnd
  /\ handlers' = SetHandler(f)
  /\ UNCHANGED kept

\* A subscription that is refused or not answered takes its handler away again, the one
\* that the filter had before included.
CallbackSubscribesInVain(f, last) ==
  /\ CallbackCalls(last)
  /\ handlers' = RemoveHandler(f)
  /\ kept' = kept \ {f}

\* A publish with an acknowledgement, a yield that reads something, an unsubscribe in vain.
CallbackReads(last) ==
  /\ CallbackCalls(last)
  /\ last >= AckEnd
  /\ UNCHANGED <<handlers, kept>>

CallbackReturns ==
  /\ delivery.at = "callback"
  /\ delivery' = [delivery EXCEPT !.at = "loop"]
  /\ UNCHANGED <<handlers, topic, name, called, kept>>

CycleEnds ==
  /\ delivery.at = "done"
  /\ delivery' = Idle
  /\ topic' = <<>> /\ name' = <<>> /\ called' = <<>> /\ kept' = {}
  /\ UNCHANGED handlers

TopicNext ==
  \/ \E f \in Filters : Subscribe(f)
  \/ \E f \in Filters, last \in Reached :
       CallbackUnsubscribes(f, last) \/ CallbackSubscribes(f, last) \/ CallbackSubscribesInVain(f, last)
  \/ \E last \in Reached : CallbackReads(last)
  \/ \E n \in Names, start \in Starts : Receive(n, start)
  \/ CallHandler \/ CallbackReturns \/ DeliveryEnds \/ CycleEnds

-----------------------------------------------------------------------------
(* Properties *)

\* MQTT 3.1.1, 4.7: level by level, # standing for any number of them.
Levels(s) ==
  FoldLeft(LAMBDA ls, c : IF c = "/" THEN Append(ls, <<>>)
                          ELSE [ls EXCEPT ![Len(ls)] = Append(@, c)],
           <<(<<>>)>>, s)

Matches(f, n) ==
  LET fs == Levels(f)
      ns == Levels(n)
      SameLevel(k) == fs[k] = <<"+">> \/ fs[k] = ns[k]
  IN IF Last(fs) = <<"#">>
     THEN Len(ns) >= Len(fs) - 1 /\ \A k \in 1..Len(fs) - 1 : SameLevel(k)
     ELSE Len(ns) = Len(fs) /\ \A k \in 1..Len(fs) : SameLevel(k)

\* Where isTopicMatched departs from the standard: wildcards never match an empty level,
\* and a/# does not match a.
WildcardsApply(f, n) ==
  /\ \A k \in DOMAIN Levels(n) : Levels(n)[k] # <<>>
  /\ Last(Levels(f)) = <<"#">> => Len(Levels(n)) >= Len(Levels(f))

Intact == topic = name
TimesCalled(f) == Cardinality({k \in DOMAIN called : called[k] = f})

\* When a message has been delivered, every handler registered all the while has been
\* called once if its filter matches the topic and not at all otherwise, and the default
\* handler if and only if no other was, whatever handlers the calls of the handlers before
\* them removed.  It holds as long as the packets those calls read have left the topic in
\* readbuf alone; the acknowledgement of any request spoils it in a PUBLISH whose remaining
\* length is at most 127, that of a subscription also in one of up to 16383.
DeliveredOnce ==
  delivery.at = "done" /\ Intact =>
    /\ \A f \in kept : WildcardsApply(f, name) =>
         TimesCalled(f) = IF Matches(f, name) THEN 1 ELSE 0
    /\ TimesCalled(Default) = 1 <=> \A f \in Filters : TimesCalled(f) = 0
=============================================================================
