---------------------------- MODULE HttpServices ----------------------------
(***************************************************************************)
(* The callers of the HTTP client, each with a buffer of its own: the      *)
(* token refresh, the activation of a device and the message RPC of        *)
(* src/http, and the two requests of src/ota/tc_iot_ota_download.c.        *)
(* They take the text in the buffer for the body of the reply.             *)
(***************************************************************************)
EXTENDS HttpClient

\* Bound: how often the token is refreshed.
CONSTANT MaxRounds
ASSUME RoundsAssumption == MaxRounds \in Nat \ {0}

VARIABLES
  device,   \* the fields of p_device_info a reply may set, and rpc's result
  outcome,  \* what the caller returns
  round     \* the calls made so far

serviceVars == <<device, outcome, round>>

\* Where the value of a field is from: the program's configuration, or the reply to a call.
Configured == [round |-> 0, reply |-> <<>>]
FromReply == [round |-> round, reply |-> Body(reply)]
Settable == {"username", "password", "expire", "secret", "message"}

Pending == [kind |-> "pending", length |-> 0]
Done(kind) == [kind |-> kind, length |-> 0]

\* The fields each service reads, in its order, with what they set.
Field(name, sets) == [name |-> name, sets |-> sets]
Fields(service) ==
  CASE service = "token" -> <<Field("id", "username"), Field("secret", "password"), Field("expire", "expire")>>
    [] service = "activate" -> <<Field("device_secret", "secret")>>
    [] service = "rpc" -> <<Field("message", "message")>>
    [] OTHER -> <<>>

\* jsmn_parse of the text up to its NUL: an object that is whole is parsed, one cut short is
\* not, and text after the object may or may not do harm.
Opens == Text # <<>> /\ Text[1] = "{"
Object == IF Opens /\ Contains(Text, "}")
          THEN Prefix(CHOOSE n \in 1..Len(Text) : Text[n] = "}" /\ ~Contains(Prefix(n - 1), "}"))
          ELSE <<>>

\* tc_iot_json_find_token of each field in turn, until one is missing; (slip) of every field
TakenWhereFound(fields) == {i \in DOMAIN fields : Contains(Object, fields[i].name)}
Taken(fields) == {i \in DOMAIN fields : \A j \in 1..i : Contains(Object, fields[j].name)}

Services == {"token", "activate", "rpc"}

\* What a service makes of the text in its buffer.
Use(service) ==
  LET fields == Fields(service)
      set == {fields[i].sets : i \in Taken(fields)} IN
  /\ pc = "done" /\ outcome = Pending /\ call.service = service
  /\ \/ /\ result.kind = "error" \/ Object # Text \/ ~Contains(Object, "code_0")
        /\ outcome' = Done("failed") /\ UNCHANGED device
     \/ /\ result.kind = "ok" /\ Contains(Object, "code_0")
        /\ device' = [f \in Settable |-> IF f \in set THEN FromReply ELSE device[f]]
        /\ outcome' = Done(IF Taken(fields) = DOMAIN fields THEN "success" ELSE "failed")
  /\ UNCHANGED <<vars, round>>

RefreshAuthToken == Use("token")
ActiveDevice == Use("activate")
MqRpc == Use("rpc")

\* The callers in src/ota pass an error on; else they return a length.
Measure(service, length) ==
  /\ pc = "done" /\ outcome = Pending /\ call.service = service
  /\ outcome' = IF result.kind = "error" THEN Done("failed")
                ELSE [kind |-> "success", length |-> length]
  /\ UNCHANGED <<vars, device, round>>

\* What the parser found, also when the time was up before the header ended.
RequestContentLength == Measure("length", parser.length)
\* What perform returns: 0 after a streamed body, the bytes of one that was collected.
Download == Measure("download", result.bytes)

\* The program refreshes its token again, with a buffer of its own.
RefreshAgain ==
  /\ outcome # Pending /\ call.service = "token" /\ round < MaxRounds
  /\ CallAgain({c \in Calls : c.service = "token"})
  /\ outcome' = Pending /\ round' = round + 1
  /\ UNCHANGED device

ServiceInit ==
  /\ Init
  /\ device = [f \in Settable |-> Configured] /\ outcome = Pending /\ round = 1

ServiceNext ==
  \/ Next /\ UNCHANGED serviceVars
  \/ RefreshAuthToken \/ ActiveDevice \/ MqRpc
  \/ RequestContentLength \/ Download
  \/ RefreshAgain

ServiceSpec ==
  /\ ServiceInit /\ [][ServiceNext]_<<vars, serviceVars>>
  /\ WF_vars(ClientStep \/ TimerExpires)

-----------------------------------------------------------------------------
(* Properties *)

\* Refreshed again and again, over replies cut anywhere, refused, too large or late, a device
\* has the user name and the password of one token, with one exception: a reply with a user
\* name and no password leaves it the new user name with the old password, and the call says
\* that it failed.  No field is ever set from a reply that does not have it, and a call that
\* reports success has set every field from its own reply.
CredentialsBelongTogether ==
  /\ device.username = device.password
     \/ /\ device.username.round > device.password.round
        /\ ~Contains(device.username.reply, "secret")
        /\ device.username.round = round => outcome.kind # "success"
  /\ \A service \in Services : \A i \in DOMAIN Fields(service) :
       LET field == Fields(service)[i]
           value == device[field.sets] IN
       /\ value = Configured \/ Contains(value.reply, field.name)
       /\ outcome.kind = "success" /\ call.service = service => value = FromReply
=============================================================================
