---------------------------- MODULE NetworkPorts ----------------------------
\* The connect, disconnect and destroy functions of the network ports, and the descriptors
\* they take from the system and give back, as the SDK's four clients call them: the MQTT
\* client, the HTTP client, the CoAP client and the time request.  "net" and "udp" are the
\* ports of src/ports/rtthread, "linux" both socket ports of src/platform/linux, "tls" and
\* "dtls" those of src/ports/ssl.  A client's functions run to their next blocking point;
\* between those the clients nest in each other's callbacks.
EXTENDS Integers, FiniteSets

CONSTANTS Clients, Nobody,
          Kind,         \* what a client is: "mqtt", "http", "coap" or "ntp"
          PortsOf,      \* the ports it may be built with
          Descriptors,  \* the numbers the system may give
          MaxConnects   \* bound of the runs: connections attempted

ASSUME PortsAssumption ==
  /\ Nobody \notin Clients /\ Descriptors \subseteq Nat
  /\ \A c \in Clients :
       \/ Kind[c] \in {"mqtt", "http"} /\ PortsOf[c] \subseteq {"net", "linux", "tls"}
       \/ Kind[c] = "coap" /\ PortsOf[c] \subseteq {"udp", "linux", "dtls"}
       \/ Kind[c] = "ntp" /\ PortsOf[c] \subseteq {"udp"}

VARIABLES port,      \* the port of each client
          os,        \* owner of every descriptor
          net,       \* net_context of each client: fd and is_connected
          at,        \* where its code is
          attempts,
          dropped,   \* descriptors left open in one of the ways the code is known for
          strayed    \* clients that used or closed a descriptor another one owns

networkVars == <<port, os, net, at, attempts, dropped, strayed>>

Secure(c) == port[c] \in {"tls", "dtls"}

\* The system gives the lowest free number.
NextFree == {d \in Descriptors : os[d] = Nobody /\ \A e \in Descriptors : os[e] = Nobody => d <= e}

---------------------------------------------------------------------------
(* Initialisation.  The caller fills a context on its stack and do_init copies it: its
   is_connected is set by tc_iot_network_prepare, which clears the whole, and by the TLS
   ports; elsewhere it is what the stack held.                                        *)

Context(fd, flag) == [fd |-> fd, connected |-> flag]
NetworkPrepare == {FALSE}
OnStack == BOOLEAN

CopyNetContext(flags) == {Context(-1, b) : b \in flags}
NetInit(flags) == CopyNetContext(flags)
UdpInit(flags) == CopyNetContext(flags)
LinuxNetInit(flags) == CopyNetContext(flags)
LinuxUdpInit(flags) == CopyNetContext(flags)

\* Certificates and keys that do not load end it early, with the flag already cleared; no
\* caller looks at the result.
TlsInit == CopyNetContext({FALSE})
DtlsInit == CopyNetContext({FALSE})
LinuxTlsInit == TlsInit
LinuxDtlsInit == DtlsInit

Prepared(c) ==
  LET flags == IF Kind[c] = "http" THEN NetworkPrepare ELSE OnStack IN
  CASE port[c] = "net" -> NetInit(flags)
    [] port[c] = "udp" -> UdpInit(flags)
    [] port[c] = "linux" -> IF Kind[c] = "coap" THEN LinuxUdpInit(flags) ELSE LinuxNetInit(flags)
    [] port[c] = "tls" -> TlsInit \cup LinuxTlsInit
    [] port[c] = "dtls" -> DtlsInit \cup LinuxDtlsInit

---------------------------------------------------------------------------
(* The ports.  A connect of a client with context n ends in one of a set of outcomes:
   whether it reports success, the context, and the system's table.                  *)

Failed(n, fd, reported) == [ok |-> reported, n |-> [n EXCEPT !.fd = fd], os |-> os]
Made(n, c, d, reported, flag) ==
  [ok |-> reported, n |-> Context(d, flag), os |-> [os EXCEPT ![d] = c]]

\* Mutations: a refused connect that reports success, and one that closes nothing.
NetConnectReports(n, c) ==
  {Failed(n, n.fd, FALSE), Failed(n, -1, FALSE)}
  \cup UNION {{Failed(n, d, TRUE), Made(n, c, d, TRUE, n.connected)} : d \in NextFree}
NetConnectLeavesOpen(n, c) ==
  {Failed(n, n.fd, FALSE), Failed(n, -1, FALSE)}
  \cup UNION {{Made(n, c, d, FALSE, n.connected), Made(n, c, d, TRUE, n.connected)} : d \in NextFree}

\* Host unknown, no socket, refused and closed again, or connected; is_connected is not set.
NetConnect(n, c) ==
  {Failed(n, n.fd, FALSE), Failed(n, -1, FALSE)}
  \cup UNION {{Failed(n, d, FALSE), Made(n, c, d, TRUE, n.connected)} : d \in NextFree}

\* rc is still getaddrinfo's 0 when there is no socket and when connect refuses.
UdpConnect(n, c) ==
  {Failed(n, n.fd, FALSE), Failed(n, -1, TRUE)}
  \cup UNION {{Failed(n, d, TRUE), Made(n, c, d, TRUE, TRUE)} : d \in NextFree}

\* Without a socket rc stays 0; a refused socket is left open.
LinuxNetConnect(n, c) ==
  {Failed(n, n.fd, FALSE), Failed(n, -1, TRUE)}
  \cup UNION {{Made(n, c, d, FALSE, n.connected), Made(n, c, d, TRUE, TRUE)} : d \in NextFree}
LinuxUdpConnect(n, c) == LinuxNetConnect(n, c)

\* The new contexts forget the old descriptor; is_connected is set once a socket is open.
TlsSocket(n, c) ==
  {Failed(n, -1, FALSE)}
  \cup UNION {{Failed(n, d, FALSE), Made(n, c, d, TRUE, TRUE)} : d \in NextFree}
DtlsSocket(n, c) == TlsSocket(n, c)

\* What fails after that (the configuration, the handshake, the certificate when it is
\* verified) returns with the socket open.
TlsHandshake(r) == {r, [r EXCEPT !.ok = FALSE]}
DtlsHandshake(r) == TlsHandshake(r)

TlsConnect(n, c) == UNION {TlsHandshake(r) : r \in TlsSocket(n, c)}
DtlsConnect(n, c) == UNION {DtlsHandshake(r) : r \in DtlsSocket(n, c)}

\* Linux has files of its own for both: in that of TLS the socket is also made blocking,
\* which may fail; that of DTLS is the same line for line.
LinuxTlsSocket(n, c) == TlsSocket(n, c) \cup UNION {{Made(n, c, d, FALSE, TRUE)} : d \in NextFree}
LinuxTlsHandshake(r) == TlsHandshake(r)
LinuxDtlsSocket(n, c) == DtlsSocket(n, c)
LinuxDtlsHandshake(r) == DtlsHandshake(r)
LinuxTlsConnect(n, c) == UNION {LinuxTlsHandshake(r) : r \in LinuxTlsSocket(n, c)}
LinuxDtlsConnect(n, c) == UNION {LinuxDtlsHandshake(r) : r \in LinuxDtlsSocket(n, c)}

Connect(n, c) ==
  CASE port[c] = "net" -> NetConnect(n, c)
    [] port[c] = "udp" -> UdpConnect(n, c)
    [] port[c] = "linux" -> IF Kind[c] = "coap" THEN LinuxUdpConnect(n, c) ELSE LinuxNetConnect(n, c)
    [] port[c] = "tls" -> TlsConnect(n, c) \cup LinuxTlsConnect(n, c)
    [] port[c] = "dtls" -> DtlsConnect(n, c) \cup LinuxDtlsConnect(n, c)

Closed(table, fd) == [d \in Descriptors |-> IF d = fd THEN Nobody ELSE table[d]]

NetDisconnect(n) == [n EXCEPT !.fd = -1]
LinuxNetDisconnect(n) == n      \* is_connected = 0 goes to the function pointer
TlsDisconnect(n) == Context(-1, FALSE)

Disconnect(n, c) ==
  CASE port[c] = "net" -> NetDisconnect(n)
    [] port[c] = "linux" -> LinuxNetDisconnect(n)
    [] port[c] = "tls" -> TlsDisconnect(n)

\* do_destroy of the UDP port closes what is_connected says is open.
UdpDestroyed(n, table) == IF n.connected THEN Closed(table, n.fd) ELSE table

\* A read or write of a context that still has a number reaches whoever owns that number;
\* mbedtls refuses contexts that were never set up.
Strays(c, n, table) ==
  IF n.fd \in Descriptors /\ table[n.fd] \notin {c, Nobody} /\ (Secure(c) => n.connected)
  THEN {c} ELSE {}

\* The socket that a connect leaves open when it fails.
LeftOpen(c, r) ==
  {d \in Descriptors : ~r.ok /\ d = r.n.fd /\ port[c] \in {"linux", "tls", "dtls"}}

---------------------------------------------------------------------------
(* The clients. *)

NetworkInit ==
  /\ port \in {p \in [Clients -> {"net", "udp", "linux", "tls", "dtls"}] :
                 \A c \in Clients : p[c] \in PortsOf[c]}
  /\ os = [d \in Descriptors |-> Nobody]
  /\ net = [c \in Clients |-> [fd |-> -1, connected |-> FALSE]]
  /\ at = [c \in Clients |-> "off"]
  /\ attempts = 0 /\ dropped = {} /\ strayed = {}

Attempt == attempts < MaxConnects /\ attempts' = attempts + 1 /\ UNCHANGED port

\* tc_iot_mqtt_init: prepares the port and connects.
MqttInit(c) ==
  /\ Kind[c] = "mqtt" /\ at[c] = "off"
  /\ Attempt
  /\ \E n \in Prepared(c) : \E r \in Connect(n, c) :
       /\ os' = r.os
       /\ net' = [net EXCEPT ![c] = r.n]
       /\ at' = [at EXCEPT ![c] = IF r.ok THEN "ready" ELSE "idle"]
       /\ dropped' = dropped \cup LeftOpen(c, r)
  /\ UNCHANGED strayed

\* tc_iot_mqtt_reconnect connects the same context again in CLIENT_INTIALIAZED.
MqttReconnect(c) ==
  /\ Kind[c] = "mqtt" /\ at[c] = "idle"
  /\ Attempt
  /\ \E r \in Connect(net[c], c) :
       /\ os' = r.os
       /\ net' = [net EXCEPT ![c] = r.n]
       /\ at' = [at EXCEPT ![c] = IF r.ok THEN "ready" ELSE "idle"]
       /\ dropped' = dropped \cup LeftOpen(c, r)
  /\ UNCHANGED strayed

\* CONNACK: only a socket that is this client's brings one.
MqttConnected(c) ==
  /\ Kind[c] = "mqtt" /\ at[c] = "ready"
  /\ net[c].fd \in Descriptors /\ os[net[c].fd] = c
  /\ at' = [at EXCEPT ![c] = "up"]
  /\ UNCHANGED <<port, os, net, attempts, dropped, strayed>>

\* Packets, in every state that has a context: an open one, or a stale number.
Use(c) ==
  /\ at[c] \in {"ready", "up", "reading", "open"}
  /\ strayed' = strayed \cup Strays(c, net[c], os)
  /\ UNCHANGED <<port, os, net, at, attempts, dropped>>

\* tc_iot_mqtt_disconnect sends DISCONNECT and closes; it returns at once unless connected.
MqttDisconnect(c) ==
  /\ Kind[c] = "mqtt" /\ at[c] = "up"
  /\ strayed' = strayed \cup Strays(c, net[c], os)
  /\ os' = Closed(os, net[c].fd)
  /\ net' = [net EXCEPT ![c] = Disconnect(net[c], c)]
  /\ at' = [at EXCEPT ![c] = "idle"]
  /\ UNCHANGED <<port, attempts, dropped>>

\* tc_iot_http_client_internal_perform up to its first read: do_connect's result is not
\* looked at, and a write that fails returns without do_disconnect.
HttpRequest(c) ==
  /\ Kind[c] = "http" /\ at[c] = "off"
  /\ Attempt
  /\ \E n \in Prepared(c) : \E r \in Connect(n, c) :
       /\ os' = r.os
       /\ net' = [net EXCEPT ![c] = r.n]
       /\ strayed' = strayed \cup Strays(c, r.n, r.os)
       /\ LET mine == r.n.fd \in Descriptors /\ r.os[r.n.fd] = c IN
          \/ mine /\ at' = [at EXCEPT ![c] = "reading"] /\ UNCHANGED dropped
          \/ /\ UNCHANGED at
             /\ dropped' = IF mine THEN dropped \cup {r.n.fd} ELSE dropped

\* Every other way out of it disconnects.
HttpEnds(c) ==
  /\ Kind[c] = "http" /\ at[c] = "reading"
  /\ strayed' = strayed \cup Strays(c, net[c], os)
  /\ os' = Closed(os, net[c].fd)
  /\ net' = [net EXCEPT ![c] = Disconnect(net[c], c)]
  /\ at' = [at EXCEPT ![c] = "off"]
  /\ UNCHANGED <<port, attempts, dropped>>

\* tc_iot_coap_construct, whose result the samples ignore; nothing ever closes the port.
CoapConstruct(c) ==
  /\ Kind[c] = "coap" /\ at[c] = "off"
  /\ Attempt
  /\ \E n \in Prepared(c) : \E r \in Connect(n, c) :
       /\ os' = r.os
       /\ net' = [net EXCEPT ![c] = r.n]
       /\ dropped' = dropped \cup LeftOpen(c, r)
  /\ at' = [at EXCEPT ![c] = "open"]
  /\ UNCHANGED strayed

\* _get_timestamp_from_ntp asks and destroys, with no callback in between; a connect that
\* fails returns at once.
NtpRequest(c) ==
  /\ Kind[c] = "ntp"
  /\ Attempt
  /\ \E n \in Prepared(c) : \E r \in Connect(n, c) :
       /\ net' = [net EXCEPT ![c] = r.n]
       /\ os' = IF r.ok THEN UdpDestroyed(r.n, r.os) ELSE r.os
       /\ strayed' = strayed \cup Strays(c, r.n, r.os)
  /\ UNCHANGED <<at, dropped>>

NetworkNext ==
  \E c \in Clients :
    \/ MqttInit(c) \/ MqttReconnect(c) \/ MqttConnected(c) \/ Use(c) \/ MqttDisconnect(c)
    \/ HttpRequest(c) \/ HttpEnds(c) \/ CoapConstruct(c) \/ NtpRequest(c)

---------------------------------------------------------------------------
(* Safety. *)

\* No client reads, writes or closes a descriptor that the system has given to another one,
\* but for the CoAP client on RT-Thread's UDP port: a refused connect reports success there
\* and leaves the number of the socket it closed.
OwnDescriptors == \A c \in strayed : Kind[c] = "coap" /\ port[c] = "udp"

\* Every open descriptor is one its client can still close, unless the client dropped it in
\* one of three ways: a TLS or DTLS handshake that failed, a refused connect on Linux, a
\* request that could not be written.  MQTT over plain TCP and the time request lose none.
NothingLost ==
  \A d \in Descriptors :
    os[d] # Nobody => \/ at[os[d]] # "off" /\ net[os[d]].fd = d
                      \/ d \in dropped
=============================================================================
