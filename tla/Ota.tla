--------------------------------- MODULE Ota ---------------------------------
(***************************************************************************)
(* Firmware upgrades: src/ota and the application's side of them,          *)
(* samples/scenarios/ota/tc_iot_ota_logic.c.                               *)
(*                                                                         *)
(* An upgrade command is a message on the OTA topic; its handler reports   *)
(* each stage with a QoS1 publish, and while a publish waits for its       *)
(* acknowledgement the MQTT client delivers other messages, so a second    *)
(* command may be handled inside the first.  Both use the one global       *)
(* tc_iot_ota_handler.  frames is the stack of active handlers, the        *)
(* innermost last.  The device may lose power at any time; the files of    *)
(* partly downloaded images stay.                                          *)
(***************************************************************************)
EXTENDS Integers, Sequences, FiniteSets, SequencesExt

CONSTANTS
  Commands,    \* upgrade commands: [id, version, url, md5, fields]
  Images,      \* the image behind each url, a sequence of bytes
  Number,      \* the number behind the last V of each version, 0 for none
  FirmVersion, \* TC_IOT_FIRM_VERSION
  HttpBuffer,  \* bytes of a body the HTTP client collects without its callback
  MaxNesting   \* bound: commands handled inside each other

Versions == {c.version : c \in Commands}
Urls == DOMAIN Images

ASSUME CommandsAssumption ==
  /\ \A c \in Commands : c.url \in Urls \cup {"empty"} /\ c.fields \in 0..4
  /\ \A u \in Urls : Images[u] \in Seq(Range(Images[u]))
  /\ \A v \in Versions \cup {FirmVersion} : Number[v] \in Nat
  /\ HttpBuffer \in Nat /\ MaxNesting \in Nat \ {0}

VARIABLES
  handler,   \* ota_id, version, download_url and firmware_md5 of the ota handler
  frames,    \* the active handlers
  files,     \* the file named by each version
  calm,      \* whether faults are over: no power loss, no cut download
  reported   \* history: the messages of OTA_UPGRADING published on the OTA topic

vars == <<handler, frames, files, calm, reported>>

NoHandler == [id |-> "none", version |-> "none", url |-> "empty", md5 |-> "empty"]

\* A frame enters the stage at next, or returns at done; waits says that it is still inside
\* the publish before that.  cmd is the command it was called for, file the name it opened,
\* url what it requests, md5 the bytes its md5 context has taken, got how many of them it
\* downloaded, alone whether no other was handled inside it.
NewFrame(c, stage) ==
  [cmd |-> c, at |-> stage, file |-> "none", url |-> "empty", md5 |-> <<>>, got |-> 0,
   waits |-> TRUE, alone |-> TRUE]

Init ==
  /\ handler = NoHandler
  /\ frames = <<>>
  /\ files = [v \in Versions |-> <<>>]
  /\ calm = FALSE
  /\ reported = {}

Top == frames[Len(frames)]
At(stage) == frames # <<>> /\ Top.at = stage /\ ~Top.waits
Replace(f) == frames' = [frames EXCEPT ![Len(frames)] = f]
GoTo(stage) == Replace([Top EXCEPT !.at = stage])

\* tc_iot_ota_format_message; the wording and the percentage are left out.
FormatMessage(state) == [ota_id |-> handler.id, ota_code |-> state]
\* tc_iot_ota_report_upgrade before the next stage: a QoS1 publish.
ReportUpgrade(state, next) ==
  /\ reported' = IF state = "OTA_UPGRADING" THEN reported \cup {FormatMessage(state)}
                 ELSE reported
  /\ Replace([Top EXCEPT !.at = next, !.waits = TRUE])
Return == frames' = Front(frames)

-----------------------------------------------------------------------------
(* _on_ota_message_received *)

\* The fields are taken in the order version, ota_id, url, md5, up to the first missing.
Taken(c) ==
  [version |-> IF c.fields >= 1 THEN c.version ELSE handler.version,
   id |-> IF c.fields >= 2 THEN c.id ELSE handler.id,
   url |-> IF c.fields >= 3 THEN c.url ELSE handler.url,
   md5 |-> IF c.fields >= 4 THEN c.md5 ELSE handler.md5]

Interrupted == [i \in DOMAIN frames |-> [frames[i] EXCEPT !.alone = FALSE]]

\* A command is received while the application yields or a handler publishes.  With all
\* fields present its receipt is reported; an empty url or md5 ends it.
Receive(c) ==
  /\ \/ frames = <<>>
     \/ frames # <<>> /\ Top.waits /\ Len(frames) < MaxNesting /\ ~calm
  /\ handler' = Taken(c)
  /\ frames' = IF c.fields < 4 THEN Interrupted
               ELSE Append(Interrupted,
                      NewFrame(c, IF "empty" \in {c.url, c.md5} THEN "done" ELSE "command"))
  /\ UNCHANGED <<files, calm, reported>>

\* The publish under way ends: acknowledged, timed out or failed, which nobody looks at.
PublishEnds ==
  /\ frames # <<>> /\ Top.waits
  /\ IF Top.at = "done" THEN Return ELSE Replace([Top EXCEPT !.waits = FALSE])
  /\ UNCHANGED <<handler, files, calm, reported>>

VersionLarger(mine, theirs) ==
  Number[mine] # 0 /\ Number[theirs] # 0 /\ Number[mine] > Number[theirs]

\* Of the version the handler holds by now.
CheckVersion ==
  /\ At("command")
  /\ ReportUpgrade("OTA_VERSION_CHECK",
       IF VersionLarger(handler.version, FirmVersion) THEN "versioned" ELSE "done")
  /\ UNCHANGED <<handler, files, calm>>

\* Progress 0 is reported.
Announce ==
  /\ At("versioned")
  /\ ReportUpgrade("OTA_DOWNLOAD", "announced")
  /\ UNCHANGED <<handler, files, calm>>

-----------------------------------------------------------------------------
(* do_download *)

\* The file of the version is opened for appending and what it holds goes through md5.
Open ==
  /\ At("announced")
  /\ Replace([Top EXCEPT !.at = "opened", !.file = handler.version, !.url = handler.url,
                         !.md5 = files[handler.version]])
  /\ UNCHANGED <<handler, files, calm, reported>>

\* ftruncate and a new md5
Truncate ==
  /\ files' = [files EXCEPT ![Top.file] = <<>>]
  /\ Replace([Top EXCEPT !.at = "connecting", !.md5 = <<>>])

\* (slip) nothing is left to do for a complete file
MeasuredSkips(n) ==
  IF n = Len(Top.md5) THEN Return /\ UNCHANGED files
  ELSE IF n < Len(Top.md5) THEN Truncate
  ELSE GoTo("connecting") /\ UNCHANGED files
\* tc_iot_ota_request_content_length: the length, an error (a nested command may have left no
\* url), or 0 when the header came too late.  A file of just that length is taken to be
\* complete.
Measured(n) ==
  IF n = Len(Top.md5) THEN GoTo("compare") /\ UNCHANGED files
  ELSE IF n < Len(Top.md5) THEN Truncate
  ELSE GoTo("connecting") /\ UNCHANGED files

Measure ==
  /\ At("opened")
  /\ \/ Top.url \in Urls /\ Measured(Len(Images[Top.url]))
     \/ Top.url \notin Urls /\ Measured(-1)
     \/ ~calm /\ \E n \in {-1, 0} : Measured(n)
  /\ UNCHANGED <<handler, calm, reported>>

\* tc_iot_ota_download asks for the whole image whatever the file holds.
Connect ==
  /\ At("connecting")
  /\ GoTo("fetching")
  /\ UNCHANGED <<handler, files, calm, reported>>

\* (slip) a piece that is counted in md5 but not written
PieceNotWritten == UNCHANGED files
\* The next byte, as in my_http_download_callback.  Bound: fwrite succeeds.
PieceWritten == files' = [files EXCEPT ![Top.file] = Append(@, Images[Top.url][Top.got + 1])]

\* The callback, which may report progress.  A body the buffer has room for is never
\* given to it, and tc_iot_ota_download's positive result is taken for a failure.
Large(url) == url \in Urls /\ Len(Images[url]) > HttpBuffer
Fetch ==
  /\ At("fetching") /\ Large(Top.url) /\ Top.got < Len(Images[Top.url])
  /\ PieceWritten
  /\ \E reports \in BOOLEAN :
       Replace([Top EXCEPT !.got = @ + 1, !.md5 = Append(@, Images[Top.url][Top.got + 1]),
                           !.waits = reports])
  /\ UNCHANGED <<handler, calm, reported>>

FetchFails ==
  /\ At("fetching") /\ (~calm \/ ~Large(Top.url))
  /\ Return
  /\ UNCHANGED <<handler, files, calm, reported>>

FetchEnds ==
  /\ At("fetching") /\ Top.url \in Urls /\ Top.got = Len(Images[Top.url])
  /\ GoTo("compare")
  /\ UNCHANGED <<handler, files, calm, reported>>

\* md5 stands for the bytes it is computed from; the command's md5 is of its image.
Matches == handler.md5 \in Urls /\ Top.md5 = Images[handler.md5]

\* The result of the check is reported; then that the upgrade is prepared.
Compare ==
  /\ At("compare")
  /\ ReportUpgrade("OTA_MD5_CHECK", IF Matches THEN "prepared" ELSE "done")
  /\ UNCHANGED <<handler, files, calm>>

Prepared ==
  /\ At("prepared")
  /\ ReportUpgrade("OTA_UPGRADING", "done")
  /\ UNCHANGED <<handler, files, calm>>

-----------------------------------------------------------------------------

PowerLoss ==
  /\ ~calm
  /\ frames' = <<>> /\ handler' = NoHandler
  /\ UNCHANGED <<files, calm, reported>>

FaultsEnd ==
  /\ ~calm /\ calm' = TRUE
  /\ UNCHANGED <<handler, frames, files, reported>>

HandlerStep ==
  \/ PublishEnds \/ CheckVersion \/ Announce \/ Open \/ Measure \/ Connect
  \/ Fetch \/ FetchFails \/ FetchEnds \/ Compare \/ Prepared

Next ==
  \/ HandlerStep
  \/ \E c \in Commands : Receive(c)
  \/ PowerLoss
  \/ FaultsEnd

Spec == Init /\ [][Next]_vars

\* The handlers run, faults end some day, and the server sends each command again and
\* again as long as it hears nothing of the upgrade.
FairSpec ==
  /\ Spec
  /\ WF_vars(HandlerStep) /\ WF_vars(FaultsEnd)
  /\ \A c \in Commands : SF_vars(Receive(c))

-----------------------------------------------------------------------------
(* Properties *)

\* A handler that no other interrupted reports an upgrade as prepared only when the file
\* holds the whole image of its own command, after any number of power losses, cut
\* downloads, resumed and truncated files.
PreparedMeansImage ==
  At("prepared") /\ Top.alone =>
    /\ files[Top.file] = Images[Top.cmd.md5]
    /\ handler.id = Top.cmd.id /\ Top.file = Top.cmd.version

\* A file of the image's length with other contents: it is never downloaded again.
Poisoned(c) ==
  Len(files[c.version]) = Len(Images[c.url]) /\ files[c.version] # Images[c.url]

Upgradable(c) ==
  /\ c.fields = 4 /\ VersionLarger(c.version, FirmVersion) /\ c.url # "empty" /\ c.md5 = c.url
  /\ Large(c.url)

\* Whatever faults leave behind, a part of the image or more than it, a later command upgrades
\* the device, unless the file of its version stays as long as the image, with other contents.
UpgradedUnlessPoisoned ==
  \A c \in Commands : Upgradable(c) =>
    \/ <>([ota_id |-> c.id, ota_code |-> "OTA_UPGRADING"] \in reported)
    \/ <>[]Poisoned(c)
=============================================================================
