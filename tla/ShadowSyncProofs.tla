-------------------------- MODULE ShadowSyncProofs --------------------------
(***************************************************************************)
(* The server forgets a command only after the device had its value: for   *)
(* every number of properties and values, however calls nest, and with     *)
(* restarts, lost messages and connections that break.                     *)
(*                                                                         *)
(* Two conditions, without which the code does confirm what it did not do: *)
(* no property is an integer (CopiedToReported and SavedToDesired do not   *)
(* know them), and every string fits its property.                         *)
(***************************************************************************)
EXTENDS ShadowSync, SequenceTheorems, TLAPS

-----------------------------------------------------------------------------
(* Types *)

Docs == UNION {[D -> Values] : D \in SUBSET Props}
Reports ==
  [fn : {"report"}, at : 1..(PropertyTotal + 1), half : BOOLEAN, doc : Docs, waits : BOOLEAN,
   next : {"return", "confirm"}]
Confirms == [fn : {"confirm"}, doc : Docs, seq : Nat, waits : BOOLEAN]
Frames == {YieldCall} \cup Reports \cup Confirms

Data == [Props -> Values]
Document == [Props -> Values \cup {Null}]
Requests == [method : {"get", "update", "delete"}, doc : Docs, seq : Nat]
Pushes == [doc : Docs, seq : Nat]
Servers == [reported : Document, desired : Document, seq : Nat \ {0}]

DeviceTypes ==
  /\ local \in Data /\ reported \in Data /\ desired \in Data
  /\ desiredBits \in SUBSET Props /\ reportedBits \in SUBSET Props
  /\ shadowSeq \in Nat
TypeInv ==
  /\ DeviceTypes
  /\ stk \in Seq(Frames)
  /\ connected \in BOOLEAN
  /\ uplink \in Seq(Requests)
  /\ downlink \in Seq(Pushes)
  /\ srv \in Servers

-----------------------------------------------------------------------------
(* The inductive invariant: what carries the server's current sequence s.seq agrees with *)
(* what the server desires, and nothing carries a later one.                             *)

\* A confirmation of doc names only what is done or forgotten.
Allowed(doc, seq, s) ==
  /\ seq <= s.seq
  /\ seq = s.seq => \A p \in DOMAIN doc : s.desired[p] \in {Null, doc[p]}
\* A push holds every pending command.
Tells(m, s) ==
  /\ m.seq <= s.seq
  /\ m.seq = s.seq =>
       \A p \in Props : s.desired[p] # Null => p \in DOMAIN m.doc /\ m.doc[p] = s.desired[p]
\* The device has cached every pending command.
Knows(data, seq, s) ==
  /\ seq <= s.seq
  /\ seq = s.seq => \A p \in Props : s.desired[p] \in {Null, data[p]}

AllowedFrame(f, s) == f.fn = "confirm" => Allowed(f.doc, f.seq, s)
AllowedRequest(m, s) == m.method = "delete" => Allowed(m.doc, m.seq, s)

StackInv(stack, s) == \A k \in 1..Len(stack) : AllowedFrame(stack[k], s)
UpInv(messages, s) == \A k \in 1..Len(messages) : AllowedRequest(messages[k], s)
DownInv(messages, s) == \A k \in 1..Len(messages) : Tells(messages[k], s)

AgreeInv ==
  /\ Knows(desired, shadowSeq, srv)
  /\ StackInv(stk, srv) /\ UpInv(uplink, srv) /\ DownInv(downlink, srv)

IInv == TypeInv /\ AgreeInv

-----------------------------------------------------------------------------
(* Documents, frames and sequences *)

LEMMA DocFacts ==
  /\ <<>> \in Docs
  /\ \A d \in Docs : DOMAIN d \subseteq Props /\ \A p \in DOMAIN d : d[p] \in Values
  /\ \A data \in Data, S \in SUBSET Props :
       Restrict(data, S) \in Docs /\ DOMAIN Restrict(data, S) = S
       /\ \A p \in S : Restrict(data, S)[p] = data[p]
<1>1. <<>> \in [{} -> Values] /\ {} \in SUBSET Props
  OBVIOUS
<1>2. <<>> \in Docs
  BY <1>1 DEF Docs
<1>3. ASSUME NEW data \in Data, NEW S \in SUBSET Props
      PROVE  Restrict(data, S) \in [S -> Values]
  BY <1>3 DEF Restrict, Data
<1> QED BY <1>2, <1>3 DEF Docs, Restrict

LEMMA DocExtended ==
  ASSUME local \in Data, NEW doc \in Docs, NEW p \in Props
  PROVE  Extended(doc, p) \in Docs
<1> DEFINE D == DOMAIN doc \cup {p}
<1>1. D \in SUBSET Props /\ \A q \in DOMAIN doc : doc[q] \in Values
  BY DocFacts
<1>2. Extended(doc, p) \in [D -> Values]
  BY <1>1 DEF Extended, Data
<1> QED BY <1>1, <1>2 DEF Docs

LEMMA FrameFacts ==
  /\ YieldCall \in Frames /\ YieldCall.fn = "yield"
  /\ \A n \in {"return", "confirm"} : Report(n) \in Reports
  /\ \A f \in Frames :
       /\ f.fn \in {"yield", "report", "confirm"}
       /\ f.fn = "report" <=> f \in Reports
       /\ f.fn = "confirm" <=> f \in Confirms
  /\ Reports \subseteq Frames /\ Confirms \subseteq Frames
<1>1. 1 \in 1..(PropertyTotal + 1)
  BY PropsAssumption
<1> QED BY <1>1, DocFacts DEF YieldCall, Reports, Confirms, Frames, Report

LEMMA Popped ==
  ASSUME NEW S, NEW s \in Seq(S), s # <<>>
  PROVE  /\ Len(s) \in Nat \ {0} /\ s[Len(s)] \in S
         /\ Front(s) \in Seq(S) /\ Len(Front(s)) = Len(s) - 1
         /\ \A k \in 1..(Len(s) - 1) : Front(s)[k] = s[k]
<1>1. Len(s) \in Nat \ {0} /\ s[Len(s)] \in S
  OBVIOUS
<1> QED BY <1>1, SubSeqProperties DEF Front

LEMMA Appended ==
  ASSUME NEW S, NEW s \in Seq(S), NEW x \in S
  PROVE  /\ Append(s, x) \in Seq(S) /\ Len(Append(s, x)) = Len(s) + 1 /\ Len(s) \in Nat
         /\ \A k \in 1..Len(s) : Append(s, x)[k] = s[k]
         /\ Append(s, x)[Len(s) + 1] = x
OBVIOUS

\* A prefix of the messages on their way, the others being lost.
LEMMA Cut ==
  ASSUME NEW S, NEW s \in Seq(S), NEW k \in 0..Len(s)
  PROVE  /\ SubSeq(s, 1, k) \in Seq(S) /\ Len(SubSeq(s, 1, k)) = k
         /\ \A i \in 1..k : SubSeq(s, 1, k)[i] = s[i]
<1>1. k \in Nat /\ Len(s) \in Nat
  OBVIOUS
<1> QED BY <1>1, SubSeqProperties

LEMMA StackPush ==
  ASSUME NEW stack \in Seq(Frames), NEW f \in Frames, NEW s, StackInv(stack, s), AllowedFrame(f, s)
  PROVE  Append(stack, f) \in Seq(Frames) /\ StackInv(Append(stack, f), s)
BY Appended DEF StackInv

LEMMA StackPop ==
  ASSUME NEW stack \in Seq(Frames), stack # <<>>, NEW s, StackInv(stack, s)
  PROVE  /\ Front(stack) \in Seq(Frames) /\ StackInv(Front(stack), s)
         /\ stack[Len(stack)] \in Frames /\ AllowedFrame(stack[Len(stack)], s)
<1>1. /\ Len(stack) \in Nat \ {0} /\ stack[Len(stack)] \in Frames
      /\ Front(stack) \in Seq(Frames) /\ Len(Front(stack)) = Len(stack) - 1
      /\ \A k \in 1..(Len(stack) - 1) : Front(stack)[k] = stack[k]
  BY Popped
<1>2. Len(stack) \in 1..Len(stack) /\ \A k \in 1..(Len(stack) - 1) : k \in 1..Len(stack)
  BY <1>1
<1> QED BY <1>1, <1>2 DEF StackInv

LEMMA UpPush ==
  ASSUME NEW messages \in Seq(Requests), NEW m \in Requests, NEW s, UpInv(messages, s), AllowedRequest(m, s)
  PROVE  Append(messages, m) \in Seq(Requests) /\ UpInv(Append(messages, m), s)
BY Appended DEF UpInv

LEMMA UpCut ==
  ASSUME NEW messages \in Seq(Requests), NEW k \in 0..Len(messages), NEW s, UpInv(messages, s)
  PROVE  SubSeq(messages, 1, k) \in Seq(Requests) /\ UpInv(SubSeq(messages, 1, k), s)
<1>1. /\ SubSeq(messages, 1, k) \in Seq(Requests) /\ Len(SubSeq(messages, 1, k)) = k
      /\ \A i \in 1..k : SubSeq(messages, 1, k)[i] = messages[i]
  BY Cut
<1>2. \A i \in 1..k : i \in 1..Len(messages)
  OBVIOUS
<1> QED BY <1>1, <1>2 DEF UpInv

LEMMA Tailed ==
  ASSUME NEW S, NEW s \in Seq(S), s # <<>>
  PROVE  /\ Head(s) \in S /\ Head(s) = s[1] /\ 1 \in 1..Len(s)
         /\ Tail(s) \in Seq(S)
         /\ \A k \in 1..Len(Tail(s)) : k + 1 \in 1..Len(s) /\ Tail(s)[k] = s[k + 1]
OBVIOUS

LEMMA UpTail ==
  ASSUME NEW messages \in Seq(Requests), messages # <<>>, NEW s, UpInv(messages, s)
  PROVE  /\ Head(messages) \in Requests /\ AllowedRequest(Head(messages), s)
         /\ Tail(messages) \in Seq(Requests) /\ UpInv(Tail(messages), s)
BY Tailed DEF UpInv

LEMMA DownTail ==
  ASSUME NEW messages \in Seq(Pushes), messages # <<>>, NEW s, DownInv(messages, s)
  PROVE  /\ Head(messages) \in Pushes /\ Tells(Head(messages), s)
         /\ Tail(messages) \in Seq(Pushes) /\ DownInv(Tail(messages), s)
BY Tailed DEF DownInv

-----------------------------------------------------------------------------
(* The server *)

\* A push tells every pending command.
LEMMA PushedFacts ==
  ASSUME NEW s \in Servers
  PROVE  Pushed(s) \in Pushes /\ Tells(Pushed(s), s)
<1> DEFINE D == {p \in Props : s.desired[p] # Null}
<1>1. s.desired \in Document /\ s.seq \in Nat \ {0}
  BY DEF Servers
<1>2. Restrict(s.desired, D) = [p \in D |-> s.desired[p]]
  BY <1>1 DEF Restrict, Document
<1>3. \A p \in D : s.desired[p] \in Values
  BY <1>1 DEF Document
<1>4. Restrict(s.desired, D) \in [D -> Values] /\ D \in SUBSET Props
  BY <1>2, <1>3
<1>5. Restrict(s.desired, D) \in Docs
  BY <1>4 DEF Docs
<1>6. Pushed(s) = [doc |-> Restrict(s.desired, D), seq |-> s.seq]
  BY DEF Pushed
<1> QED BY <1>1, <1>2, <1>5, <1>6 DEF Pushes, Tells

LEMMA PushKeeps ==
  ASSUME TypeInv, NEW s \in Servers, DownInv(downlink, s), Push(s)
  PROVE  downlink' \in Seq(Pushes) /\ DownInv(downlink', s)
<1>1. Pushed(s) \in Pushes /\ Tells(Pushed(s), s)
  BY PushedFacts
<1>2. CASE connected
  <2>1. downlink' = Append(downlink, Pushed(s)) /\ downlink \in Seq(Pushes)
    BY <1>2 DEF Push, TypeInv
  <2> QED BY <1>1, <2>1, Appended DEF DownInv
<1>3. CASE ~connected
  BY <1>3 DEF Push, TypeInv
<1> QED BY <1>2, <1>3

\* A new command outdates everything, and a command that is forgotten no message tells.
Follows(t, s) ==
  \/ t.seq = s.seq + 1
  \/ t.seq = s.seq /\ \A p \in Props : t.desired[p] \in {Null, s.desired[p]}

LEMMA Later ==
  ASSUME NEW s \in Servers, NEW t \in Servers, Follows(t, s)
  PROVE  /\ \A doc \in Docs, seq \in Nat : Allowed(doc, seq, s) => Allowed(doc, seq, t)
         /\ \A m \in Pushes : Tells(m, s) => Tells(m, t)
         /\ \A data \in Data, seq \in Nat : Knows(data, seq, s) => Knows(data, seq, t)
<1>1. s.seq \in Nat /\ t.seq \in Nat /\ \A m \in Pushes : m.seq \in Nat
  BY DEF Servers, Pushes
<1>2. \A doc \in Docs : DOMAIN doc \subseteq Props
  BY DocFacts
<1>3. CASE t.seq = s.seq + 1
  BY <1>1, <1>3 DEF Allowed, Tells, Knows
<1>4. CASE t.seq = s.seq /\ \A p \in Props : t.desired[p] \in {Null, s.desired[p]}
  <2>1. \A doc \in Docs, seq \in Nat : Allowed(doc, seq, s) => Allowed(doc, seq, t)
    BY <1>2, <1>4 DEF Allowed
  <2>2. \A m \in Pushes : Tells(m, s) => Tells(m, t)
    BY <1>4 DEF Tells
  <2>3. \A data \in Data, seq \in Nat : Knows(data, seq, s) => Knows(data, seq, t)
    BY <1>4 DEF Knows
  <2> QED BY <2>1, <2>2, <2>3
<1> QED BY <1>3, <1>4 DEF Follows

LEMMA AgreeLater ==
  ASSUME IInv, NEW t \in Servers, Follows(t, srv)
  PROVE  /\ Knows(desired, shadowSeq, t) /\ StackInv(stk, t)
         /\ UpInv(uplink, t) /\ DownInv(downlink, t)
<1>1. /\ srv \in Servers /\ desired \in Data /\ shadowSeq \in Nat
      /\ stk \in Seq(Frames) /\ uplink \in Seq(Requests) /\ downlink \in Seq(Pushes)
  BY DEF IInv, TypeInv, DeviceTypes
<1>2. /\ \A doc \in Docs, seq \in Nat : Allowed(doc, seq, srv) => Allowed(doc, seq, t)
      /\ \A m \in Pushes : Tells(m, srv) => Tells(m, t)
      /\ \A data \in Data, seq \in Nat : Knows(data, seq, srv) => Knows(data, seq, t)
  BY <1>1, Later
<1>3. \A f \in Frames : AllowedFrame(f, srv) => AllowedFrame(f, t)
  <2>1. \A f \in Frames : f.fn = "confirm" => f.doc \in Docs /\ f.seq \in Nat
    BY FrameFacts DEF Confirms
  <2> QED BY <1>2, <2>1 DEF AllowedFrame
<1>4. \A m \in Requests : AllowedRequest(m, srv) => AllowedRequest(m, t)
  BY <1>2 DEF AllowedRequest, Requests
<1>5. StackInv(stk, t)
  BY <1>1, <1>3 DEF StackInv, IInv, AgreeInv
<1>6. UpInv(uplink, t)
  BY <1>1, <1>4 DEF UpInv, IInv, AgreeInv
<1>7. DownInv(downlink, t)
  BY <1>1, <1>2 DEF DownInv, IInv, AgreeInv
<1> QED BY <1>1, <1>2, <1>5, <1>6, <1>7 DEF IInv, AgreeInv

-----------------------------------------------------------------------------
(* The calls of the device *)

\* The innermost call, and its caller.
LEMMA StackFacts ==
  ASSUME IInv, stk # <<>>
  PROVE  /\ Top \in Frames /\ AllowedFrame(Top, srv)
         /\ Caller \in Seq(Frames) /\ StackInv(Caller, srv)
         /\ \A f \in Frames : AllowedFrame(f, srv) =>
              Replace(f) \in Seq(Frames) /\ StackInv(Replace(f), srv)
<1>1. /\ Caller \in Seq(Frames) /\ StackInv(Caller, srv)
      /\ Top \in Frames /\ AllowedFrame(Top, srv)
  BY StackPop DEF IInv, AgreeInv, TypeInv, Top, Caller
<1> QED BY <1>1, StackPush DEF Replace

\* What a confirmation holds the server may forget.
LEMMA ConfirmationFacts ==
  ASSUME IInv, Done # {}
  PROVE  LET f == Confirm(Restrict(local, Done)) IN f \in Frames /\ AllowedFrame(f, srv)
<1> DEFINE doc == Restrict(local, Done)
<1>1. Done \in SUBSET Props /\ local \in Data /\ shadowSeq \in Nat
  BY DEF IInv, TypeInv, DeviceTypes, Done
<1>2. doc \in Docs /\ DOMAIN doc = Done /\ \A p \in Done : doc[p] = local[p]
  BY <1>1, DocFacts
<1>3. Confirm(doc) \in Confirms /\ Confirm(doc).doc = doc /\ Confirm(doc).seq = shadowSeq
  BY <1>1, <1>2 DEF Confirm, Confirms
<1>4. \A p \in Done : desired[p] = local[p]
  BY DEF Done
<1>5. Allowed(doc, shadowSeq, srv)
  BY <1>1, <1>2, <1>4 DEF IInv, AgreeInv, Knows, Allowed
<1> QED BY <1>3, <1>5, FrameFacts DEF AllowedFrame

LEMMA ContinueKeeps ==
  ASSUME IInv, stk # <<>>, Continue(Caller)
  PROVE  stk' \in Seq(Frames) /\ StackInv(stk', srv) /\ desiredBits' \in SUBSET Props
<1>1. Caller \in Seq(Frames) /\ StackInv(Caller, srv)
  BY StackFacts
<1>2. desiredBits' \in SUBSET Props
  BY DEF Continue, IInv, TypeInv, DeviceTypes
<1>3. CASE stk' = Caller
  BY <1>1, <1>2, <1>3
<1>4. CASE stk' = Caller \o Confirmation
  <2>1. CASE Confirmation = <<>>
    <3>1. Caller \o <<>> = Caller
      BY <1>1
    <3> QED BY <1>1, <1>2, <1>4, <2>1, <3>1
  <2>2. CASE Done # {} /\ Confirmation = <<Confirm(Restrict(local, Done))>>
    <3> DEFINE f == Confirm(Restrict(local, Done))
    <3>1. f \in Frames /\ AllowedFrame(f, srv)
      BY <2>2, ConfirmationFacts
    <3>2. Caller \o <<f>> = Append(Caller, f)
      BY <1>1, <3>1
    <3> QED BY <1>1, <1>2, <1>4, <2>2, <3>1, <3>2, StackPush
  <2> QED BY <2>1, <2>2 DEF Confirmation
<1> QED BY <1>3, <1>4 DEF Continue

\* The calls that change neither the server nor what is on its way.
LEMMA QuietStep ==
  ASSUME IInv, UNCHANGED <<desired, shadowSeq, uplink, downlink, srv>>,
         local' \in Data, reported' \in Data,
         desiredBits' \in SUBSET Props, reportedBits' \in SUBSET Props,
         connected' \in BOOLEAN,
         stk' \in Seq(Frames), StackInv(stk', srv)
  PROVE  IInv'
BY DEF IInv, TypeInv, DeviceTypes, AgreeInv

LEMMA ReportStepKeeps ==
  ASSUME IInv, ReportStep
  PROVE  IInv'
<1>0. /\ local \in Data /\ reported \in Data /\ desiredBits \in SUBSET Props
      /\ reportedBits \in SUBSET Props /\ connected \in BOOLEAN
  BY DEF IInv, TypeInv, DeviceTypes
<1>1. stk # <<>> /\ Top \in Reports
  <2>1. At("report")
    BY DEF ReportStep, SkipProperty, CopyProperty, WriteProperty, ReportSkipped, AtProperty
  <2> QED BY <2>1, StackFacts, FrameFacts DEF At
<1>2. Caller \in Seq(Frames) /\ StackInv(Caller, srv)
  BY <1>1, StackFacts
<1>3. \A f \in Reports : Replace(f) \in Seq(Frames) /\ StackInv(Replace(f), srv)
  <2>1. \A f \in Reports : f \in Frames /\ AllowedFrame(f, srv)
    BY FrameFacts DEF AllowedFrame, Reports
  <2> QED BY <1>1, <2>1, StackFacts
<1>4. Top.at \in Props => Top.at + 1 \in 1..(PropertyTotal + 1)
  BY PropsAssumption DEF Props
<1>5. CASE SkipProperty
  <2>1. [Top EXCEPT !.at = @ + 1] \in Reports
    BY <1>1, <1>4, <1>5 DEF SkipProperty, AtProperty, Reports
  <2>2. stk' = Replace([Top EXCEPT !.at = @ + 1]) /\ UNCHANGED <<device, network, srv>>
    BY <1>5 DEF SkipProperty
  <2> QED BY <1>0, <1>3, <2>1, <2>2, QuietStep DEF device, network
<1>6. CASE CopyProperty
  <2>1. [Top EXCEPT !.half = TRUE] \in Reports
    BY <1>1 DEF Reports
  <2>2. CopiedToReported(Top.at) \in Data
    BY <1>0 DEF CopiedToReported, Data
  <2>3. /\ stk' = Replace([Top EXCEPT !.half = TRUE])
        /\ reported' = CopiedToReported(Top.at)
        /\ UNCHANGED <<local, desired, desiredBits, reportedBits, shadowSeq, network, srv>>
    BY <1>6 DEF CopyProperty
  <2> QED BY <1>0, <1>3, <2>1, <2>2, <2>3, QuietStep DEF network
<1>7. CASE WriteProperty
  <2>1. Top.at \in Props /\ UNCHANGED <<local, reported, desired, desiredBits, shadowSeq, network, srv>>
    BY <1>7 DEF WriteProperty, AtProperty
  <2>2. CASE stk' = Caller /\ UNCHANGED reportedBits
    BY <1>0, <1>2, <2>1, <2>2, QuietStep DEF network
  <2>3. CASE /\ reportedBits' = reportedBits \cup {Top.at}
             /\ stk' = Replace([Top EXCEPT !.half = FALSE, !.at = @ + 1, !.doc = Extended(@, Top.at)])
    <3>1. Top.doc \in Docs
      BY <1>1 DEF Reports
    <3>2. Extended(Top.doc, Top.at) \in Docs
      BY <1>0, <2>1, <3>1, DocFacts, DocExtended
    <3>3. [Top EXCEPT !.half = FALSE, !.at = @ + 1, !.doc = Extended(@, Top.at)] \in Reports
      BY <1>1, <1>4, <2>1, <3>2 DEF Reports
    <3>4. reportedBits' \in SUBSET Props
      BY <1>0, <2>1, <2>3
    <3> QED BY <1>0, <1>3, <2>1, <2>3, <3>3, <3>4, QuietStep DEF network
  <2> QED BY <1>7, <2>2, <2>3 DEF WriteProperty
<1>8. CASE ReportSkipped
  <2>1. Continue(Caller) /\ UNCHANGED <<local, reported, desired, reportedBits, shadowSeq, network, srv>>
    BY <1>8 DEF ReportSkipped
  <2>2. stk' \in Seq(Frames) /\ StackInv(stk', srv) /\ desiredBits' \in SUBSET Props
    BY <1>1, <2>1, ContinueKeeps
  <2> QED BY <1>0, <2>1, <2>2, QuietStep DEF network
<1> QED BY <1>5, <1>6, <1>7, <1>8 DEF ReportStep

LEMMA PublishSendsKeeps ==
  ASSUME IInv, PublishSends
  PROVE  IInv'
<1> DEFINE message ==
      IF Top.fn = "report" THEN [method |-> "update", doc |-> Top.doc, seq |-> 0]
      ELSE [method |-> "delete", doc |-> Top.doc, seq |-> Top.seq]
<1>1. /\ stk # <<>> /\ (Top.fn = "report" \/ Top.fn = "confirm")
      /\ uplink' = Append(uplink, message) /\ Continue(Caller)
      /\ UNCHANGED <<local, reported, desired, reportedBits, shadowSeq, connected, downlink, srv>>
  BY DEF PublishSends, Publishing, At
<1>2. stk' \in Seq(Frames) /\ StackInv(stk', srv) /\ desiredBits' \in SUBSET Props
  BY <1>1, ContinueKeeps
<1>3. message \in Requests /\ AllowedRequest(message, srv)
  <2>1. Top \in Frames /\ AllowedFrame(Top, srv)
    BY <1>1, StackFacts
  <2>2. CASE Top.fn = "report"
    <3>1. Top.doc \in Docs /\ message = [method |-> "update", doc |-> Top.doc, seq |-> 0]
      BY <2>1, <2>2, FrameFacts DEF Reports
    <3>2. message.method # "delete"
      BY <3>1
    <3> QED BY <3>1, <3>2 DEF Requests, AllowedRequest
  <2>3. CASE Top.fn = "confirm"
    <3>1. /\ Top.doc \in Docs /\ Top.seq \in Nat /\ Allowed(Top.doc, Top.seq, srv)
          /\ message = [method |-> "delete", doc |-> Top.doc, seq |-> Top.seq]
      BY <2>1, <2>3, FrameFacts DEF Confirms, AllowedFrame
    <3> QED BY <3>1 DEF Requests, AllowedRequest
  <2> QED BY <1>1, <2>2, <2>3
<1>4. uplink' \in Seq(Requests) /\ UpInv(uplink', srv)
  BY <1>1, <1>3, UpPush DEF IInv, TypeInv, AgreeInv
<1> QED BY <1>1, <1>2, <1>4 DEF IInv, TypeInv, DeviceTypes, AgreeInv

LEMMA PublishKeeps ==
  ASSUME IInv, PublishWaits \/ PublishFails \/ YieldReturns
  PROVE  IInv'
<1>0. /\ local \in Data /\ reported \in Data /\ desiredBits \in SUBSET Props
      /\ reportedBits \in SUBSET Props /\ connected \in BOOLEAN
  BY DEF IInv, TypeInv, DeviceTypes
<1>1. stk # <<>> /\ UNCHANGED <<device, network, srv>>
  BY DEF PublishWaits, PublishFails, YieldReturns, Publishing, At
<1>2. Top \in Frames /\ AllowedFrame(Top, srv)
  BY <1>1, StackFacts
<1>3. CASE PublishWaits
  <2> DEFINE f == [Top EXCEPT !.waits = TRUE]
  <2>1. Top \in Reports \cup Confirms
    BY <1>2, <1>3, FrameFacts DEF PublishWaits, Publishing, At
  <2>2. f \in Frames /\ AllowedFrame(f, srv)
    <3>1. CASE Top \in Reports
      <4>1. f \in Reports
        BY <3>1 DEF Reports
      <4> QED BY <4>1, FrameFacts DEF AllowedFrame, Reports
    <3>2. CASE Top \in Confirms
      <4>1. f \in Confirms /\ f.doc = Top.doc /\ f.seq = Top.seq /\ f.fn = Top.fn
        BY <3>2 DEF Confirms
      <4> QED BY <1>2, <4>1, FrameFacts DEF AllowedFrame
    <3> QED BY <2>1, <3>1, <3>2
  <2>3. stk' = Replace(f)
    BY <1>3 DEF PublishWaits
  <2> QED BY <1>0, <1>1, <2>2, <2>3, StackFacts, QuietStep DEF device, network
<1>4. CASE PublishFails
  <2>1. stk' = Caller
    BY <1>4 DEF PublishFails
  <2> QED BY <1>0, <1>1, <2>1, StackFacts, QuietStep DEF device, network
<1>5. CASE YieldReturns
  <2>1. stk' = <<>>
    BY <1>5 DEF YieldReturns
  <2>2. <<>> \in Seq(Frames) /\ StackInv(<<>>, srv)
    BY DEF StackInv
  <2> QED BY <1>0, <1>1, <2>1, <2>2, QuietStep DEF device, network
<1> QED BY <1>3, <1>4, <1>5

-----------------------------------------------------------------------------
(* Commands, and what the application, the server and the network do *)

\* Every string of a command fits.
NoIntegers == IntProps = {}
AllFit == TooLong = {}

LEMMA DeliverKeeps ==
  ASSUME NoIntegers, AllFit, IInv, Deliver
  PROVE  IInv'
<1> DEFINE m == Head(downlink)
<1>0. TypeInv /\ AgreeInv
  BY DEF IInv
<1>1. /\ downlink # <<>> /\ downlink' = Tail(downlink) /\ DocParse(m)
      /\ UNCHANGED <<reported, reportedBits, connected, uplink, srv>>
  BY DEF Deliver
<1>2. /\ m \in Pushes /\ Tells(m, srv)
      /\ downlink' \in Seq(Pushes) /\ DownInv(downlink', srv)
  BY <1>0, <1>1, DownTail DEF TypeInv, AgreeInv
<1>3. m.doc \in Docs /\ m.seq \in Nat
  BY <1>2 DEF Pushes
<1>4. CASE m.doc = <<>>
  <2>1. UNCHANGED <<local, desired, desiredBits, shadowSeq, stk>>
    BY <1>1, <1>4 DEF DocParse
  <2> QED BY <1>0, <1>1, <1>2, <2>1 DEF IInv, TypeInv, DeviceTypes, AgreeInv
<1>5. CASE m.doc # <<>>
  <2>1. /\ shadowSeq' = m.seq /\ desiredBits' = desiredBits \cup DOMAIN m.doc
        /\ desired' = [p \in Props |-> IF p \in DOMAIN m.doc THEN SavedToDesired(p, m.doc[p]) ELSE desired[p]]
        /\ local' = [p \in Props |-> IF p \in DOMAIN m.doc THEN SavedToLocal(p, m.doc[p]) ELSE local[p]]
        /\ stk' = Append(stk, Report("confirm"))
    BY <1>1, <1>5, Zenon DEF DocParse, SyncShadowProperty
  <2>2. DOMAIN m.doc \subseteq Props /\ \A p \in DOMAIN m.doc : m.doc[p] \in Values
    BY <1>3, DocFacts
  <2>3. \A p \in Props, v \in Values : SavedToDesired(p, v) = v /\ SavedToLocal(p, v) \in Values
    BY <1>0 DEF SavedToDesired, SavedToLocal, Told, NoIntegers, AllFit, TypeInv, DeviceTypes, Data
  <2>4. desired' \in Data /\ local' \in Data /\ desiredBits' \in SUBSET Props
    BY <1>0, <2>1, <2>2, <2>3 DEF TypeInv, DeviceTypes, Data
  <2>5. Knows(desired', shadowSeq', srv)
    <3>1. \A p \in DOMAIN m.doc : desired'[p] = m.doc[p]
      BY <2>1, <2>2, <2>3
    <3>2. m.seq <= srv.seq
      BY <1>2 DEF Tells
    <3>3. ASSUME m.seq = srv.seq, NEW p \in Props
          PROVE  srv.desired[p] \in {Null, desired'[p]}
      <4>1. srv.desired[p] # Null => p \in DOMAIN m.doc /\ m.doc[p] = srv.desired[p]
        BY <1>2, <3>3 DEF Tells
      <4> QED BY <3>1, <4>1
    <3> QED BY <2>1, <3>2, <3>3 DEF Knows
  <2>6. stk' \in Seq(Frames) /\ StackInv(stk', srv)
    <3>1. Report("confirm") \in Frames /\ AllowedFrame(Report("confirm"), srv)
      BY FrameFacts DEF AllowedFrame, Report
    <3> QED BY <1>0, <2>1, <3>1, StackPush DEF TypeInv, AgreeInv
  <2> QED BY <1>0, <1>1, <1>2, <1>3, <2>1, <2>4, <2>5, <2>6 DEF IInv, TypeInv, DeviceTypes, AgreeInv
<1> QED BY <1>4, <1>5

LEMMA CallsKeep ==
  ASSUME IInv, Reconnect \/ AppReport \/ Yield \/ \E p \in Props, v \in Values : Change(p, v)
  PROVE  IInv'
<1>0. TypeInv /\ AgreeInv
  BY DEF IInv
<1>1. \A f \in {Report("return"), YieldCall} : f \in Frames /\ AllowedFrame(f, srv)
  BY FrameFacts DEF AllowedFrame, Report, YieldCall
<1>2. CASE Reconnect
  BY <1>0, <1>2 DEF Reconnect, device, IInv, TypeInv, DeviceTypes, AgreeInv
<1>3. CASE AppReport \/ Yield
  <2>1. PICK f \in Frames : stk' = <<f>> /\ AllowedFrame(f, srv)
    BY <1>1, <1>3 DEF AppReport, Yield
  <2>2. stk' = Append(<<>>, f) /\ <<>> \in Seq(Frames) /\ StackInv(<<>>, srv)
    BY <2>1 DEF StackInv
  <2>4. stk' \in Seq(Frames) /\ StackInv(stk', srv)
    BY <2>1, <2>2, StackPush
  <2>3. UNCHANGED <<device, network, srv>>
    BY <1>3 DEF AppReport, Yield
  <2> QED BY <1>0, <2>3, <2>4 DEF device, network, IInv, TypeInv, DeviceTypes, AgreeInv
<1>4. CASE \E p \in Props, v \in Values : Change(p, v)
  <2>1. PICK p \in Props, v \in Values : Change(p, v)
    BY <1>4
  <2>2. /\ local' = [local EXCEPT ![p] = v]
        /\ UNCHANGED <<reported, desired, desiredBits, reportedBits, shadowSeq, stk, network, srv>>
    BY <2>1 DEF Change
  <2>3. local' \in Data
    BY <1>0, <2>2 DEF TypeInv, DeviceTypes, Data
  <2> QED BY <1>0, <2>2, <2>3 DEF network, IInv, TypeInv, DeviceTypes, AgreeInv
<1> QED BY <1>2, <1>3, <1>4

LEMMA FreshFacts == Fresh \in Data
BY PropsAssumption DEF Fresh, Data

LEMMA GetFacts ==
  /\ Get \in Requests
  /\ \A s : AllowedRequest(Get, s)
BY DocFacts DEF Get, Requests, AllowedRequest

LEMMA RestartKeeps ==
  ASSUME IInv, Restart
  PROVE  IInv'
<1>0. TypeInv /\ AgreeInv
  BY DEF IInv
<1>1. /\ local' = Fresh /\ reported' = Fresh /\ desired' = Fresh
      /\ desiredBits' = {} /\ reportedBits' = {} /\ shadowSeq' = 0
      /\ stk' = <<>> /\ connected' = TRUE /\ downlink' = <<>> /\ srv' = srv
  BY DEF Restart
<1>2. PICK k \in 0..Len(uplink) : uplink' = SubSeq(uplink, 1, k) \o <<Get>>
  BY DEF Restart
<1>3. SubSeq(uplink, 1, k) \in Seq(Requests) /\ UpInv(SubSeq(uplink, 1, k), srv)
  BY <1>0, UpCut DEF TypeInv, AgreeInv
<1>4. uplink' = Append(SubSeq(uplink, 1, k), Get)
  BY <1>2, <1>3, GetFacts
<1>5. uplink' \in Seq(Requests) /\ UpInv(uplink', srv)
  BY <1>3, <1>4, GetFacts, UpPush
<1>6. Knows(Fresh, 0, srv)
  BY <1>0 DEF Knows, TypeInv, Servers
<1>7. StackInv(<<>>, srv) /\ DownInv(<<>>, srv)
  BY DEF StackInv, DownInv
<1> QED BY <1>0, <1>1, <1>5, <1>6, <1>7, FreshFacts DEF IInv, TypeInv, DeviceTypes, AgreeInv

LEMMA DropKeeps ==
  ASSUME IInv, Drop
  PROVE  IInv'
<1>0. TypeInv /\ AgreeInv
  BY DEF IInv
<1>1. connected' = FALSE /\ downlink' = <<>> /\ UNCHANGED <<device, stk, srv>>
  BY DEF Drop
<1>2. PICK k \in 0..Len(uplink) : uplink' = SubSeq(uplink, 1, k)
  BY DEF Drop
<1>3. uplink' \in Seq(Requests) /\ UpInv(uplink', srv)
  BY <1>0, <1>2, UpCut DEF TypeInv, AgreeInv
<1>4. DownInv(<<>>, srv) /\ <<>> \in Seq(Pushes) /\ FALSE \in BOOLEAN
  BY DEF DownInv
<1> QED BY <1>0, <1>1, <1>3, <1>4 DEF device, IInv, TypeInv, DeviceTypes, AgreeInv

LEMMA ControlKeeps ==
  ASSUME IInv, NEW p \in Props, NEW v \in Values, Control(p, v)
  PROVE  IInv'
<1>0. TypeInv /\ AgreeInv /\ srv \in Servers
  BY DEF IInv, TypeInv
<1>1. /\ srv' = [srv EXCEPT !.desired[p] = v, !.seq = @ + 1]
      /\ Push(srv') /\ UNCHANGED <<device, stk, connected, uplink>>
  BY DEF Control
<1>2. srv.desired \in Document /\ srv.reported \in Document /\ srv.seq \in Nat \ {0}
  BY <1>0 DEF Servers
<1>3. PICK d \in Document : d = [srv.desired EXCEPT ![p] = v]
  BY <1>2 DEF Document
<1>4. srv' = [reported |-> srv.reported, desired |-> d, seq |-> srv.seq + 1]
  BY <1>0, <1>1, <1>3 DEF Servers
<1>5. srv' \in Servers /\ srv'.seq = srv.seq + 1
  BY <1>2, <1>4 DEF Servers
<1>6. /\ Knows(desired, shadowSeq, srv') /\ StackInv(stk, srv')
      /\ UpInv(uplink, srv') /\ DownInv(downlink, srv')
  BY <1>5, AgreeLater DEF Follows
<1>7. downlink' \in Seq(Pushes) /\ DownInv(downlink', srv')
  BY <1>0, <1>1, <1>5, <1>6, PushKeeps
<1> QED BY <1>0, <1>1, <1>5, <1>6, <1>7 DEF device, IInv, TypeInv, DeviceTypes, AgreeInv

\* What the server makes of a request: nothing is forgotten but by a confirmation of
\* the current command.
LEMMA ServerFacts ==
  ASSUME IInv, ServerReceives
  PROVE  /\ srv' \in Servers /\ Follows(srv', srv)
         /\ uplink' \in Seq(Requests) /\ UpInv(uplink', srv)
         /\ UNCHANGED downlink \/ (srv' = srv /\ Push(srv))
         /\ \A p \in Props :
              srv.desired[p] # Null /\ srv'.desired[p] = Null =>
                Head(uplink).doc[p] = srv.desired[p]
<1> DEFINE m == Head(uplink)
<1>0. TypeInv /\ AgreeInv /\ srv \in Servers
  BY DEF IInv, TypeInv
<1>1. uplink # <<>> /\ uplink' = Tail(uplink)
  BY DEF ServerReceives
<1>2. /\ m \in Requests /\ AllowedRequest(m, srv)
      /\ uplink' \in Seq(Requests) /\ UpInv(uplink', srv)
  BY <1>0, <1>1, UpTail DEF TypeInv, AgreeInv
<1>3. /\ m.method \in {"get", "update", "delete"} /\ m.doc \in Docs
      /\ DOMAIN m.doc \subseteq Props /\ \A p \in DOMAIN m.doc : m.doc[p] \in Values
  BY <1>2, DocFacts DEF Requests
<1>4. srv.reported \in Document /\ srv.desired \in Document /\ srv.seq \in Nat \ {0}
  BY <1>0 DEF Servers
<1>5. CASE srv' = srv /\ (UNCHANGED downlink \/ Push(srv))
  BY <1>0, <1>2, <1>5 DEF Follows
<1>6. CASE m.method = "update"
  <2>1. srv' = [srv EXCEPT !.reported = Overlaid(srv.reported, m.doc)] /\ UNCHANGED downlink
    BY <1>6 DEF ServerReceives
  <2>2. Overlaid(srv.reported, m.doc) \in Document
    BY <1>3, <1>4 DEF Overlaid, Document
  <2>3. srv' = [reported |-> Overlaid(srv.reported, m.doc), desired |-> srv.desired, seq |-> srv.seq]
    BY <1>0, <2>1 DEF Servers
  <2>4. srv' \in Servers /\ srv'.seq = srv.seq /\ srv'.desired = srv.desired
    BY <1>4, <2>2, <2>3 DEF Servers
  <2> QED BY <1>2, <2>1, <2>4 DEF Follows
<1>7. CASE m.method = "delete" /\ m.seq = srv.seq
  <2> DEFINE kept == Overlaid(srv.desired, [p \in DOMAIN m.doc |-> Null])
  <2>1. srv' = [srv EXCEPT !.desired = kept] /\ UNCHANGED downlink
    BY <1>7 DEF ServerReceives
  <2>2. \A p \in Props : kept[p] = IF p \in DOMAIN m.doc THEN Null ELSE srv.desired[p]
    BY DEF Overlaid
  <2>3. kept \in Document
    BY <1>4 DEF Overlaid, Document
  <2> HIDE DEF kept
  <2>4. srv' = [reported |-> srv.reported, desired |-> kept, seq |-> srv.seq]
    BY <1>0, <2>1 DEF Servers
  <2>5. srv' \in Servers /\ srv'.seq = srv.seq /\ srv'.desired = kept
    BY <1>4, <2>3, <2>4 DEF Servers
  <2>6. \A p \in DOMAIN m.doc : srv.desired[p] \in {Null, m.doc[p]}
    BY <1>2, <1>7 DEF AllowedRequest, Allowed
  <2>7. Follows(srv', srv)
    BY <2>2, <2>5 DEF Follows
  <2>8. \A p \in Props : srv.desired[p] # Null /\ srv'.desired[p] = Null => m.doc[p] = srv.desired[p]
    BY <2>2, <2>5, <2>6
  <2> QED BY <1>2, <2>1, <2>5, <2>7, <2>8
<1>8. CASE m.method = "delete" /\ m.seq # srv.seq
  BY <1>5, <1>8 DEF ServerReceives
<1>9. CASE m.method = "get"
  BY <1>5, <1>9 DEF ServerReceives
<1> QED BY <1>3, <1>6, <1>7, <1>8, <1>9

LEMMA ServerKeeps ==
  ASSUME IInv, ServerReceives
  PROVE  IInv'
<1>0. TypeInv /\ AgreeInv
  BY DEF IInv
<1>1. /\ srv' \in Servers /\ Follows(srv', srv)
      /\ uplink' \in Seq(Requests) /\ UpInv(uplink', srv)
      /\ UNCHANGED downlink \/ (srv' = srv /\ Push(srv))
      /\ UNCHANGED <<device, stk, connected>>
  BY ServerFacts DEF ServerReceives
<1>2. Knows(desired, shadowSeq, srv') /\ StackInv(stk, srv') /\ DownInv(downlink, srv')
  BY <1>1, AgreeLater
<1>3. UpInv(uplink', srv')
  <2>1. \A q \in Requests : AllowedRequest(q, srv) => AllowedRequest(q, srv')
    <3>1. \A doc \in Docs, seq \in Nat : Allowed(doc, seq, srv) => Allowed(doc, seq, srv')
      BY <1>0, <1>1, Later DEF TypeInv
    <3> QED BY <3>1 DEF AllowedRequest, Requests
  <2>2. \A k \in 1..Len(uplink') : uplink'[k] \in Requests
    BY <1>1
  <2> QED BY <1>1, <2>1, <2>2 DEF UpInv
<1>4. downlink' \in Seq(Pushes) /\ DownInv(downlink', srv')
  <2>1. CASE UNCHANGED downlink
    BY <1>0, <1>2, <2>1 DEF TypeInv
  <2>2. CASE srv' = srv /\ Push(srv)
    BY <1>0, <2>2, PushKeeps DEF TypeInv, AgreeInv
  <2> QED BY <1>1, <2>1, <2>2
<1> QED BY <1>0, <1>1, <1>2, <1>3, <1>4 DEF device, IInv, TypeInv, DeviceTypes, AgreeInv

-----------------------------------------------------------------------------
(* The theorems *)

\* Init establishes the invariant: the device knows nothing of the server's first sequence.
LEMMA InitIInv == Init => IInv
<1> SUFFICES ASSUME Init PROVE IInv
  OBVIOUS
<1>1. DeviceTypes
  BY FreshFacts DEF Init, DeviceStarts, DeviceTypes
<1>2. [p \in Props |-> Null] \in Document
  BY DEF Document
<1>3. srv \in Servers /\ srv.seq = 1 /\ stk = <<>> /\ downlink = <<>> /\ uplink = <<Get>>
      /\ connected = TRUE /\ shadowSeq = 0
  BY <1>2 DEF Init, DeviceStarts, Servers
<1>4. <<Get>> \in Seq(Requests) /\ UpInv(<<Get>>, srv)
  BY GetFacts DEF UpInv
<1>5. TypeInv
  BY <1>1, <1>3, <1>4 DEF TypeInv
<1>6. Knows(desired, shadowSeq, srv)
  BY <1>3 DEF Knows
<1>7. StackInv(stk, srv) /\ DownInv(downlink, srv)
  BY <1>3 DEF StackInv, DownInv
<1> QED BY <1>3, <1>4, <1>5, <1>6, <1>7 DEF IInv, AgreeInv

\* Every step keeps it.
LEMMA NextIInv ==
  ASSUME NoIntegers, AllFit, IInv, [Next]_vars
  PROVE  IInv'
<1>1. CASE ClientStep
  BY <1>1, ReportStepKeeps, PublishSendsKeeps, PublishKeeps DEF ClientStep
<1>2. CASE Deliver
  BY <1>2, DeliverKeeps
<1>3. CASE Reconnect \/ AppReport \/ Yield \/ \E p \in Props, v \in Values : Change(p, v)
  BY <1>3, CallsKeep
<1>4. CASE Restart
  BY <1>4, RestartKeeps
<1>5. CASE \E p \in Props, v \in Values : Control(p, v)
  BY <1>5, ControlKeeps
<1>6. CASE ServerReceives
  BY <1>6, ServerKeeps
<1>7. CASE Drop
  BY <1>7, DropKeeps
<1>8. CASE UNCHANGED vars
  BY <1>8 DEF vars, device, network, IInv, TypeInv, DeviceTypes, AgreeInv
<1> QED BY <1>1, <1>2, <1>3, <1>4, <1>5, <1>6, <1>7, <1>8 DEF Next

\* Only the server's handling of a request makes it forget, and what it forgets was done.
LEMMA NextForgets ==
  ASSUME IInv, [Next]_vars, NEW p \in Props, srv.desired[p] # Null, srv'.desired[p] = Null
  PROVE  Head(uplink).doc[p] = srv.desired[p]
<1>1. srv' # srv
  OBVIOUS
<1>2. CASE ServerReceives
  BY <1>2, ServerFacts
<1>3. ASSUME NEW q \in Props, NEW v \in Values, Control(q, v)
      PROVE  FALSE
  <2>1. srv' = [srv EXCEPT !.desired[q] = v, !.seq = @ + 1] /\ srv \in Servers /\ v # Null
    BY <1>3, PropsAssumption DEF Control, IInv, TypeInv
  <2>2. srv'.desired[p] = srv.desired[p] \/ srv'.desired[p] = v
    BY <2>1 DEF Servers, Document
  <2> QED BY <2>1, <2>2
<1> QED
  BY <1>1, <1>2, <1>3
  DEF Next, ClientStep, ReportStep, SkipProperty, CopyProperty, WriteProperty, ReportSkipped,
      PublishSends, PublishWaits, PublishFails, YieldReturns, Deliver, Reconnect, AppReport,
      Yield, Restart, Change, Drop, vars

\* The messages, the calls and the three copies have their types, and what carries the
\* server's current sequence agrees with what the server desires.
THEOREM SyncInvariant == NoIntegers /\ AllFit /\ Spec => []IInv
<1> SUFFICES ASSUME NoIntegers, AllFit PROVE Spec => []IInv
  OBVIOUS
<1>1. IInv /\ [Next]_vars => IInv'
  BY NextIInv
<1> QED BY <1>1, InitIInv, PTL DEF Spec

\* The server forgets a command only when the confirmation names the commanded value,
\* whatever newer commands, restarts, losses and nested confirmations cross it.
THEOREM ForgetsOnlyDone == NoIntegers /\ AllFit /\ Spec => ForgottenOnlyIfDone
<1> SUFFICES ASSUME NoIntegers, AllFit PROVE Spec => ForgottenOnlyIfDone
  OBVIOUS
<1>1. IInv /\ [Next]_vars =>
        [\A p \in Props :
           srv.desired[p] # Null /\ srv'.desired[p] = Null => Head(uplink).doc[p] = srv.desired[p]]_vars
  BY NextForgets
<1> QED BY <1>1, SyncInvariant, PTL DEF Spec, ForgottenOnlyIfDone
=============================================================================
