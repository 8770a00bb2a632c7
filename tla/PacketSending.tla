--------------------------- MODULE PacketSending ----------------------------
\* How _send_packet and those who call it leave MQTT packets in what do_write takes, from one
\* do_connect to the next do_disconnect: a packet is cut when time is over, or the network
\* fails, before its last byte is written.
EXTENDS Integers, Sequences

CONSTANTS Outgoing,   \* lengths of the client's packets
          MaxSent     \* bound on their number

ASSUME SendingAssumption == Outgoing \subseteq Nat /\ MaxSent \in Nat

VARIABLES output,     \* for each packet who sent it, whether the client was connected, its
                      \* length and the bytes written
          sender,     \* where _send_packet is
          link,       \* CLIENT_NETWORK_READY ("ready", "asked" with CONNECT out) or "connected"
          delivering, \* cycles that are in deliverMessage for a PUBLISH of QoS 1 or 2
          unacked     \* those whose acknowledgement was cut

sendingVars == <<output, sender, link, delivering, unacked>>

Sending(stage, n) == [at |-> stage, left |-> n]
NotSending == sender.at = "free"

Connected == link = "connected"
Senders == {"connect", "request", "publishAck", "releaseAck", "keepalive"}
Packet(by, n) == [by |-> by, connected |-> Connected, length |-> n, written |-> 0]

\* _send_packet begins.  CONNECT is for a client that is not connected, a request for one
\* that is; cycle acknowledges and pings on either.
SendPacket(by) ==
  /\ NotSending /\ Len(output) < MaxSent
  /\ by = "connect" => ~Connected
  /\ by = "request" => Connected
  /\ \E n \in Outgoing :
       /\ output' = Append(output, Packet(by, n))
       /\ sender' = Sending("packet", n)
  /\ UNCHANGED <<link, delivering, unacked>>

\* One do_write: any part of what is left, or nothing.
WriteSome ==
  /\ sender.at \in {"packet", "disconnect"} /\ sender.left > 0
  /\ \E n \in 1..sender.left :
       /\ output' = [output EXCEPT ![Len(output)].written = @ + n]
       /\ sender' = [sender EXCEPT !.left = @ - n]
  /\ UNCHANGED <<link, delivering, unacked>>

SentBy == output[Len(output)].by

\* deliverMessage is called with the PUBLISH whether its acknowledgement went out or not.
BeginDelivery(acknowledged) ==
  /\ delivering' = delivering + 1
  /\ unacked' = IF acknowledged THEN unacked ELSE unacked \cup {delivering + 1}

\* sent = length: the packet is out.
Sent ==
  /\ sender = Sending("packet", 0)
  /\ sender' = Sending("free", 0)
  /\ link' = IF SentBy = "connect" THEN "asked" ELSE link
  /\ IF SentBy = "publishAck" THEN BeginDelivery(TRUE) ELSE UNCHANGED <<delivering, unacked>>
  /\ UNCHANGED <<output>>

\* A wait for CONNACK that is given up, unless an outer one is behind the handlers.
Unanswered == link' \in IF delivering = 0 THEN {"ready"} ELSE {"ready", link}

\* tc_iot_mqtt_disconnect: a connected client sends DISCONNECT, with a timer of its own, and
\* closes; any other does nothing.
DisconnectSize == 2
EndLink ==
  \/ /\ Connected
     /\ output' = Append(output, Packet("disconnect", DisconnectSize))
     /\ sender' = Sending("disconnect", DisconnectSize)
     /\ UNCHANGED link
  \/ /\ ~Connected
     /\ sender' = Sending("free", 0)
     /\ Unanswered
     /\ UNCHANGED output

\* Out of time, or do_write failed: TC_IOT_SEND_PACK_FAILED.  Who sent a CONNECT, a request,
\* a PUBREL, PUBCOMP or PINGREQ disconnects at once; a PUBLISH is delivered first.
SendFails ==
  /\ sender.at = "packet" /\ sender.left > 0
  /\ \/ /\ SentBy = "publishAck"
        /\ BeginDelivery(FALSE)
        /\ sender' = Sending("free", 0)
        /\ UNCHANGED <<output, link>>
     \/ /\ SentBy # "publishAck"
        /\ EndLink
        /\ UNCHANGED <<delivering, unacked>>

EndDelivery ==
  /\ NotSending /\ delivering > 0
  /\ delivering' = delivering - 1
  /\ unacked' = unacked \ {delivering}

\* (slip) keepalive's success is returned in place of the acknowledgement's failure
CycleForgets == EndDelivery /\ UNCHANGED <<output, sender, link>>

\* The handlers have returned, keepalive may have sent its PINGREQ, and cycle exits.
CycleReturns ==
  /\ EndDelivery
  /\ IF delivering \in unacked THEN EndLink ELSE UNCHANGED <<output, sender, link>>

\* CONNACK accepts or refuses, or does not come in time.
ConnectAnswered ==
  /\ NotSending /\ link = "asked"
  /\ link' = "connected"
  /\ UNCHANGED <<output, sender, delivering, unacked>>
ConnectFails ==
  /\ NotSending /\ link = "asked"
  /\ Unanswered
  /\ UNCHANGED <<output, sender, delivering, unacked>>

\* The application disconnects, a request was not answered, or do_read failed in cycle.
GiveUp ==
  /\ NotSending /\ Connected
  /\ EndLink
  /\ UNCHANGED <<delivering, unacked>>

\* do_disconnect; the result of sending DISCONNECT is not looked at.
CloseStream ==
  /\ sender.at = "disconnect"
  /\ sender' = Sending("closed", 0)
  /\ UNCHANGED <<output, link, delivering, unacked>>

SendingInit ==
  /\ output = <<>> /\ sender = Sending("free", 0)
  /\ link = "ready" /\ delivering = 0 /\ unacked = {}

SendingNext ==
  \/ \E by \in Senders : SendPacket(by)
  \/ WriteSome \/ Sent \/ SendFails \/ CycleReturns
  \/ ConnectAnswered \/ ConnectFails \/ GiveUp \/ CloseStream

---------------------------------------------------------------------------
(* Safety. *)

\* Packet k did not go out whole, and it is not being sent any more.
Cut(k) ==
  output[k].written < output[k].length /\ ~(k = Len(output) /\ sender.at = "packet")
Over == sender.at \in {"disconnect", "closed"}

\* A packet that a connected client cuts ends its connection.  Nothing but the DISCONNECT
\* follows it, unless it acknowledges a PUBLISH: then what the handlers and the keep-alive
\* send still goes out behind it, but the cycle that delivers the message does not end
\* before the connection does.  A packet cut before CONNACK is not followed: the client
\* stays on that stream, and its next CONNECT goes out behind it.
CutPacketEndsConnection ==
  \A k \in DOMAIN output : Cut(k) /\ output[k].connected =>
    /\ Over \/ (output[k].by = "publishAck" /\ unacked # {})
    /\ output[k].by # "publishAck" =>
         \A j \in k + 1..Len(output) : j = Len(output) /\ output[j].by = "disconnect"
=============================================================================
