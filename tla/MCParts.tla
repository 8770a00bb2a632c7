------------------------------ MODULE MCParts -------------------------------
\* One instance of each of the parts that share nothing with another: the texts, the message
\* digests, the network ports, the MQTT packets received and those sent, the timers, the
\* remote calls of the samples and the datagrams of CoAP.  A behaviour is that of one part,
\* with the others in their initial states.
EXTENDS TopicDelivery, CoapMessage, JsonText, FormText, MessageDigest,
        NetworkPorts, PacketStream, PacketSending, HalTimer, RpcSync, Datagrams

VARIABLE part

MCFilters ==
  {<<"a">>, <<"#">>, <<"a", "/", "+">>, <<"a", "/", "#">>, <<"+", "/", "b">>, <<"a", "/", "b">>}
MCNames == UNION {[1..n -> {"a", "b", "/"}] : n \in 1..4}

Bytes(n, b) == [k \in 1..n |-> b]
MCOptions ==
  {[number |-> 11, value |-> Bytes(2, 1)], [number |-> 15, value |-> Bytes(13, 255)],
   [number |-> 15, value |-> <<>>], [number |-> 60, value |-> <<255>>],
   [number |-> 279, value |-> <<3>>], [number |-> 300, value |-> <<3>>]}
MCPayloads == {<<>>, <<255, 1>>}

MCFieldNames == {<<"a">>, <<"a", "b">>}
MCStrings == {<<>>, <<"a", "\\">>, <<"\"", "}">>, <<"LF", "/">>}
\* Characters on both sides of what one, two and three bytes hold.
MCServerTexts ==
  {[numbers |-> <<127, 128>>, utf8 |-> <<"127", "194", "128">>],
   [numbers |-> <<2047, 2048, 65535>>, utf8 |-> <<"223", "191", "224", "160", "128", "239", "191", "191">>]}
MCRaws == {<<"1">>}

MCFields == <<"text", "number", "text">>
MCTexts == {<<>>, <<97, 38>>, <<37, 52, 49>>, <<32, 43>>, <<233, 61, 126>>}
MCNumbers == {<<48>>, <<49, 50>>}
MCBehind == {<<>>, <<65, 38>>}
MCDigests == {<<251, 255>>, <<0>>, <<1, 2, 3>>, <<255, 255, 254, 63, 250>>}

MCClients == {"m", "h", "o", "n"}
MCKind == [m |-> "mqtt", h |-> "http", o |-> "coap", n |-> "ntp"]
MCPortsOf ==
  [m |-> {"net", "linux", "tls"}, h |-> {"net", "linux", "tls"},
   o |-> {"udp", "linux", "dtls"}, n |-> {"udp"}]

textVars == <<topicVars, messageVars, jsonVars, formVars, hashVars>>
portVars == <<networkVars, streamVars, sendingVars, timerVars, rpcVars, datagramVars>>

TopicPart == part = "topic" /\ TopicNext /\ UNCHANGED <<messageVars, jsonVars, formVars, hashVars>>
MessagePart == part = "message" /\ MessageNext /\ UNCHANGED <<topicVars, jsonVars, formVars, hashVars>>
JsonPart == part = "json" /\ JsonNext /\ UNCHANGED <<topicVars, messageVars, formVars, hashVars>>
FormPart == part = "form" /\ FormNext /\ UNCHANGED <<topicVars, messageVars, jsonVars, hashVars>>
HashPart == part = "hash" /\ HashNext /\ UNCHANGED <<topicVars, messageVars, jsonVars, formVars>>
NetworkPart == part = "network" /\ NetworkNext /\ UNCHANGED <<streamVars, sendingVars, timerVars, rpcVars, datagramVars>>
StreamPart == part = "stream" /\ StreamNext /\ UNCHANGED <<networkVars, sendingVars, timerVars, rpcVars, datagramVars>>
SendingPart ==
  part = "sending" /\ SendingNext /\ UNCHANGED <<networkVars, streamVars, timerVars, rpcVars, datagramVars>>
TimerPart == part = "timer" /\ TimerNext /\ UNCHANGED <<networkVars, streamVars, sendingVars, rpcVars, datagramVars>>
RpcPart == part = "rpc" /\ RpcNext /\ UNCHANGED <<networkVars, streamVars, sendingVars, timerVars, datagramVars>>
DatagramPart ==
  part = "datagram" /\ DatagramNext /\ UNCHANGED <<networkVars, streamVars, sendingVars, timerVars, rpcVars>>

\* A part that does not run is in one of its initial states.
OneOf(other, initial) == part # other => initial
PartsInit ==
  /\ part \in {"topic", "message", "json", "form", "hash", "network", "stream", "sending", "timer", "rpc",
              "datagram"}
  /\ TopicInit /\ MessageInit /\ JsonInit /\ FormInit
  /\ HashInit /\ OneOf("hash", algorithm = "md5")
  /\ NetworkInit
  /\ OneOf("network", port = [c \in Clients |-> IF c \in {"o", "n"} THEN "udp" ELSE "tls"])
  /\ StreamInit /\ OneOf("stream", incoming = <<0>> /\ layer = "tcp")
  /\ SendingInit
  /\ TimerInit /\ OneOf("timer", tick = 0 /\ rate = Thousand)
  /\ RpcInit /\ OneOf("rpc", transport = "http")
  /\ DatagramInit /\ OneOf("datagram", carrier = "udp")

PartsNext ==
  \/ (TopicPart \/ MessagePart \/ JsonPart \/ FormPart \/ HashPart) /\ UNCHANGED <<portVars, part>>
  \/ (NetworkPart \/ StreamPart \/ SendingPart \/ TimerPart \/ RpcPart \/ DatagramPart) /\ UNCHANGED <<textVars, part>>

PartsSpec == PartsInit /\ [][PartsNext]_<<textVars, portVars, part>>
=============================================================================
