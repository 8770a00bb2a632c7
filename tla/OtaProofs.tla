----------------------------- MODULE OtaProofs -----------------------------
(***************************************************************************)
(* An upgrade is reported as prepared only with the whole image of its own *)
(* command: for every set of commands and images, any depth of commands    *)
(* handled inside each other, and any number of power losses, cut          *)
(* downloads and files that are resumed or truncated.                      *)
(***************************************************************************)
EXTENDS Ota, SequenceTheorems, TLAPS

-----------------------------------------------------------------------------
(* Types *)

Bytes == UNION {Range(Images[u]) : u \in Urls}
Stages ==
  {"command", "versioned", "announced", "opened", "connecting", "fetching", "compare", "prepared", "done"}
Ids == {c.id : c \in Commands}
Sums == {c.md5 : c \in Commands}
Names == Versions \cup {"none"}
Requested == Urls \cup {"empty"}

Handlers ==
  [id : Ids \cup {"none"}, version : Names, url : Requested, md5 : Sums \cup {"empty"}]
Frames ==
  [cmd : Commands, at : Stages, file : Names, url : Requested, md5 : Seq(Bytes), got : Nat,
   waits : BOOLEAN, alone : BOOLEAN]

\* Where a handler has its file open.
Opened == {"opened", "connecting", "fetching", "compare", "prepared"}

TypeInv ==
  /\ handler \in Handlers
  /\ frames \in Seq(Frames)
  /\ files \in [Versions -> Seq(Bytes)]
  /\ \A k \in 1..Len(frames) : /\ handler.version \in Versions
                               /\ frames[k].at \in Opened => frames[k].file \in Versions

-----------------------------------------------------------------------------
(* The inductive invariant: a handler that no other interrupted is the innermost, the      *)
(* global handler is its command's, its md5 context has taken what its file holds, and     *)
(* when it is prepared that is the image the command's md5 is of.                          *)

HeldBy(f, h) ==
  h.id = f.cmd.id /\ h.version = f.cmd.version /\ h.url = f.cmd.url /\ h.md5 = f.cmd.md5
Digested(f, contents) == f.at \in Opened => f.file = f.cmd.version /\ contents[f.file] = f.md5
Verified(f) == f.at = "prepared" => f.md5 = Images[f.cmd.md5]
Sound(f, h, contents) == f.alone => HeldBy(f, h) /\ Digested(f, contents) /\ Verified(f)

AloneInv ==
  \A k \in 1..Len(frames) : frames[k].alone => k = Len(frames) /\ Sound(frames[k], handler, files)

IInv == TypeInv /\ AloneInv

-----------------------------------------------------------------------------
(* The stack of handlers *)

LEMMA Popped ==
  ASSUME NEW S, NEW s \in Seq(S), s # <<>>
  PROVE  /\ Front(s) \in Seq(S) /\ Len(Front(s)) = Len(s) - 1
         /\ \A k \in 1..(Len(s) - 1) : Front(s)[k] = s[k]
<1>1. Len(s) \in Nat \ {0} /\ s[Len(s)] \in S
  OBVIOUS
<1> QED BY <1>1, SubSeqProperties DEF Front

LEMMA TopFacts ==
  ASSUME TypeInv, frames # <<>>
  PROVE  /\ Len(frames) \in Nat \ {0} /\ Len(frames) \in 1..Len(frames)
         /\ Top \in Frames /\ Top = frames[Len(frames)] /\ handler.version \in Versions
         /\ Top.at \in Opened => Top.file \in Versions
<1>1. Len(frames) \in Nat \ {0} /\ Len(frames) \in 1..Len(frames) /\ Top \in Frames
  BY DEF TypeInv, Top
<1> QED BY <1>1 DEF TypeInv, Top

\* The innermost handler goes on: what holds of it afterwards, and of the contents of the
\* files, is all there is to show.
LEMMA Replaced ==
  ASSUME IInv, frames # <<>>, NEW f \in Frames, Replace(f), handler' = handler,
         files' \in [Versions -> Seq(Bytes)],
         f.at \in Opened => f.file \in Versions,
         Sound(f, handler, files')
  PROVE  IInv'
<1>1. /\ Len(frames) \in Nat \ {0} /\ frames \in Seq(Frames)
      /\ handler \in Handlers /\ handler.version \in Versions
  BY TopFacts DEF IInv, TypeInv
<1>2. /\ frames' \in Seq(Frames) /\ Len(frames') = Len(frames)
      /\ frames'[Len(frames)] = f
      /\ \A k \in 1..Len(frames) : k # Len(frames) => frames'[k] = frames[k]
  BY <1>1 DEF Replace
<1>3. TypeInv'
  BY <1>1, <1>2 DEF IInv, TypeInv
<1>4. AloneInv'
  <2>1. ASSUME NEW k \in 1..Len(frames'), frames'[k].alone
        PROVE  k = Len(frames') /\ frames'[k] = f
    BY <1>1, <1>2, <2>1 DEF IInv, AloneInv
  <2>2. \A k \in 1..Len(frames') :
          frames'[k].alone => k = Len(frames') /\ Sound(frames'[k], handler', files')
    BY <2>1
  <2> QED BY <2>2 DEF AloneInv
<1> QED BY <1>3, <1>4 DEF IInv

\* It returns to a handler that it interrupted.
LEMMA Returned ==
  ASSUME IInv, frames # <<>>, Return, handler' = handler, files' = files
  PROVE  IInv'
<1>1. /\ Len(frames) \in Nat \ {0} /\ frames \in Seq(Frames) /\ handler.version \in Versions
  BY TopFacts DEF IInv, TypeInv
<1>2. /\ frames' \in Seq(Frames) /\ Len(frames') = Len(frames) - 1
      /\ \A k \in 1..(Len(frames) - 1) : frames'[k] = frames[k]
  BY <1>1, Popped DEF Return
<1>5. \A k \in 1..(Len(frames) - 1) : k \in 1..Len(frames) /\ k # Len(frames)
  BY <1>1
<1>3. TypeInv'
  BY <1>1, <1>2, <1>5 DEF IInv, TypeInv
<1>4. \A k \in 1..Len(frames') : ~frames'[k].alone
  BY <1>2, <1>5 DEF IInv, AloneInv
<1> QED BY <1>3, <1>4 DEF IInv, AloneInv

-----------------------------------------------------------------------------
(* The actions *)

\* A handler that only moves on keeps what holds of it, unless it claims to be prepared.
LEMMA Moved ==
  ASSUME NEW f \in Frames, NEW g \in Frames, NEW h, NEW contents, Sound(f, h, contents),
         g.alone = f.alone, g.cmd = f.cmd, g.md5 = f.md5, g.file = f.file,
         g.at \in Opened => f.at \in Opened,
         g.at # "prepared"
  PROVE  Sound(g, h, contents)
BY DEF Sound, HeldBy, Digested, Verified

LEMMA PublishEndsKeeps ==
  ASSUME IInv, PublishEnds
  PROVE  IInv'
<1>0. /\ frames # <<>> /\ handler' = handler /\ files' = files /\ TypeInv
      /\ files' \in [Versions -> Seq(Bytes)]
  BY DEF PublishEnds, IInv, TypeInv
<1>1. Top \in Frames /\ (Top.at \in Opened => Top.file \in Versions) /\ (Top.alone => Sound(Top, handler, files))
  BY <1>0, TopFacts DEF IInv, AloneInv
<1>2. CASE Return
  BY <1>0, <1>2, Returned
<1>3. CASE Replace([Top EXCEPT !.waits = FALSE])
  <2> DEFINE f == [Top EXCEPT !.waits = FALSE]
  <2>1. /\ f \in Frames /\ f.cmd = Top.cmd /\ f.at = Top.at /\ f.file = Top.file
        /\ f.md5 = Top.md5 /\ f.alone = Top.alone
    BY <1>1 DEF Frames
  <2> HIDE DEF f
  <2>2. Sound(f, handler, files')
    BY <1>0, <1>1, <2>1 DEF Sound, HeldBy, Digested, Verified
  <2>3. Replace(f)
    BY <1>3 DEF f
  <2> QED BY <1>0, <1>1, <2>1, <2>2, <2>3, Replaced
<1> QED BY <1>2, <1>3 DEF PublishEnds

\* The steps that report a stage, or go to the next one, and touch no file.
LEMMA MovedOn ==
  ASSUME IInv, frames # <<>>, handler' = handler, files' = files,
         NEW next \in Stages, NEW waits \in BOOLEAN,
         Replace([Top EXCEPT !.at = next, !.waits = waits]),
         next \in Opened => Top.at \in Opened,
         next = "prepared" => (Top.alone => Top.md5 = Images[handler.md5])
  PROVE  IInv'
<1>1. /\ Top \in Frames /\ (Top.at \in Opened => Top.file \in Versions)
      /\ (Top.alone => Sound(Top, handler, files)) /\ files' \in [Versions -> Seq(Bytes)]
  BY TopFacts DEF IInv, AloneInv, TypeInv
<1> DEFINE f == [Top EXCEPT !.at = next, !.waits = waits]
<1>2. /\ f \in Frames /\ f.cmd = Top.cmd /\ f.at = next /\ f.file = Top.file
      /\ f.md5 = Top.md5 /\ f.alone = Top.alone
  BY <1>1 DEF Frames
<1> HIDE DEF f
<1>4. Replace(f)
  BY DEF f
<1>3. Sound(f, handler, files')
  BY <1>1, <1>2 DEF Sound, HeldBy, Digested, Verified
<1> QED BY <1>1, <1>2, <1>3, <1>4, Replaced

LEMMA ReportsKeep ==
  ASSUME IInv, CheckVersion \/ Announce \/ Compare \/ Prepared
  PROVE  IInv'
<1>1. /\ frames # <<>> /\ handler' = handler /\ files' = files
  BY DEF CheckVersion, Announce, Compare, Prepared, At
<1>2. PICK next \in Stages :
        /\ Replace([Top EXCEPT !.at = next, !.waits = TRUE])
        /\ next \in Opened => Top.at \in Opened
        /\ next = "prepared" => Matches
  <2>1. CASE CheckVersion \/ Announce
    BY <2>1 DEF CheckVersion, Announce, ReportUpgrade, Stages, Opened
  <2>2. CASE Compare \/ Prepared
    BY <2>2 DEF Compare, Prepared, ReportUpgrade, Stages, Opened, At
  <2> QED BY <2>1, <2>2
<1> QED BY <1>1, <1>2, MovedOn DEF Matches

LEMMA WentTo ==
  ASSUME IInv, frames # <<>>, handler' = handler, files' = files,
         NEW next \in Stages, GoTo(next),
         next \in Opened => Top.at \in Opened, next # "prepared"
  PROVE  IInv'
<1>1. Top \in Frames
  BY TopFacts DEF IInv
<1>2. Top.waits \in BOOLEAN /\ [Top EXCEPT !.at = next] = [Top EXCEPT !.at = next, !.waits = Top.waits]
  BY <1>1 DEF Frames
<1> QED BY <1>2, MovedOn DEF GoTo

LEMMA OpenKeeps ==
  ASSUME IInv, Open
  PROVE  IInv'
<1>1. /\ frames # <<>> /\ handler' = handler /\ files' = files
      /\ Replace([Top EXCEPT !.at = "opened", !.file = handler.version, !.url = handler.url,
                             !.md5 = files[handler.version]])
  BY DEF Open, At
<1>2. /\ Top \in Frames /\ handler.version \in Versions /\ handler.url \in Requested
      /\ files \in [Versions -> Seq(Bytes)] /\ (Top.alone => HeldBy(Top, handler))
  BY <1>1, TopFacts DEF IInv, AloneInv, TypeInv, Handlers, Sound
<1> DEFINE f == [Top EXCEPT !.at = "opened", !.file = handler.version, !.url = handler.url,
                            !.md5 = files[handler.version]]
<1>3. /\ f \in Frames /\ f.cmd = Top.cmd /\ f.at = "opened" /\ f.file = handler.version
      /\ f.md5 = files[handler.version] /\ f.alone = Top.alone
  BY <1>2 DEF Frames, Stages, Names
<1> HIDE DEF f
<1>4. Sound(f, handler, files')
  BY <1>1, <1>2, <1>3 DEF Sound, HeldBy, Digested, Verified
<1>5. Replace(f)
  BY <1>1 DEF f
<1> QED BY <1>1, <1>2, <1>3, <1>4, <1>5, Replaced

\* The file and the md5 context change together.
LEMMA Written ==
  ASSUME IInv, frames # <<>>, handler' = handler, Top.at \in Opened,
         NEW text \in Seq(Bytes), NEW f \in Frames,
         files' = [files EXCEPT ![Top.file] = text],
         Replace(f),
         f.cmd = Top.cmd, f.at \in Opened \ {"prepared"}, f.file = Top.file, f.md5 = text,
         f.alone = Top.alone
  PROVE  IInv'
<1>1. /\ Top \in Frames /\ Top.file \in Versions /\ files \in [Versions -> Seq(Bytes)]
      /\ (Top.alone => Sound(Top, handler, files))
  BY TopFacts DEF IInv, AloneInv, TypeInv
<1>2. files' \in [Versions -> Seq(Bytes)] /\ files'[Top.file] = text
  BY <1>1
<1>3. Sound(f, handler, files')
  BY <1>1, <1>2 DEF Sound, HeldBy, Digested, Verified
<1> QED BY <1>1, <1>2, <1>3, Replaced

LEMMA MeasureKeeps ==
  ASSUME IInv, Measure
  PROVE  IInv'
<1>1. frames # <<>> /\ Top.at = "opened" /\ handler' = handler
  BY DEF Measure, At
<1>2. PICK n : Measured(n)
  BY DEF Measure
<1>3. Top \in Frames
  BY <1>1, TopFacts DEF IInv
<1>4. CASE \E next \in {"compare", "connecting"} : GoTo(next) /\ UNCHANGED files
  BY <1>1, <1>4, WentTo DEF Stages, Opened
<1>5. CASE Truncate
  <2> DEFINE f == [Top EXCEPT !.at = "connecting", !.md5 = <<>>]
  <2>1. <<>> \in Seq(Bytes) /\ "connecting" \in Stages
    BY DEF Stages
  <2>2. /\ f \in Frames /\ f.cmd = Top.cmd /\ f.at = "connecting" /\ f.file = Top.file
        /\ f.md5 = <<>> /\ f.alone = Top.alone
    BY <1>3, <2>1 DEF Frames
  <2>3. files' = [files EXCEPT ![Top.file] = <<>>] /\ Replace(f)
    BY <1>5 DEF Truncate
  <2> HIDE DEF f
  <2> QED BY <1>1, <2>1, <2>2, <2>3, Written DEF Opened
<1> QED BY <1>2, <1>4, <1>5 DEF Measured

LEMMA FetchKeeps ==
  ASSUME IInv, Fetch
  PROVE  IInv'
<1> DEFINE byte == Images[Top.url][Top.got + 1]
           text == Append(Top.md5, byte)
<1>1. /\ frames # <<>> /\ Top.at = "fetching" /\ handler' = handler
      /\ Top.url \in Urls /\ Top.got < Len(Images[Top.url])
      /\ files' = [files EXCEPT ![Top.file] = Append(files[Top.file], byte)]
  BY DEF Fetch, At, Large, PieceWritten
<1>2. PICK reports \in BOOLEAN :
        Replace([Top EXCEPT !.got = @ + 1, !.md5 = Append(@, byte), !.waits = reports])
  BY DEF Fetch
<1>3. /\ Top \in Frames /\ Top.file \in Versions /\ files \in [Versions -> Seq(Bytes)]
      /\ (Top.alone => Sound(Top, handler, files))
  BY <1>1, TopFacts DEF IInv, AloneInv, TypeInv, Opened
<1>4. Top.got \in Nat /\ Top.md5 \in Seq(Bytes)
  BY <1>3 DEF Frames
<1>5. byte \in Bytes
  <2>1. Images[Top.url] \in Seq(Range(Images[Top.url]))
    BY <1>1, CommandsAssumption
  <2>2. Top.got + 1 \in 1..Len(Images[Top.url])
    BY <1>1, <1>4, <2>1
  <2>3. byte \in Range(Images[Top.url])
    BY <2>1, <2>2
  <2> QED BY <1>1, <2>3 DEF Bytes
<1> HIDE DEF byte
<1>6. text \in Seq(Bytes)
  BY <1>4, <1>5
<1> DEFINE f == [Top EXCEPT !.got = @ + 1, !.md5 = Append(@, byte), !.waits = reports]
<1>7. /\ f \in Frames /\ f.cmd = Top.cmd /\ f.at = "fetching" /\ f.file = Top.file
      /\ f.md5 = text /\ f.alone = Top.alone
  <2>1. f = [Top EXCEPT !.got = Top.got + 1, !.md5 = text, !.waits = reports]
    BY <1>3 DEF Frames
  <2>2. Top.got + 1 \in Nat
    BY <1>4
  <2> HIDE DEF f, text
  <2> QED BY <1>1, <1>3, <1>6, <2>1, <2>2 DEF Frames
<1> HIDE DEF f
<1>8. Replace(f)
  BY <1>2 DEF f
<1>9. CASE Top.alone
  <2>1. files[Top.file] = Top.md5
    BY <1>1, <1>3, <1>9 DEF Sound, Digested, Opened
  <2>2. files' = [files EXCEPT ![Top.file] = text]
    BY <1>1, <2>1
  <2> QED BY <1>1, <1>6, <1>7, <1>8, <2>2, Written DEF Opened
<1>10. CASE ~Top.alone
  <2>1. files' \in [Versions -> Seq(Bytes)]
    BY <1>1, <1>3, <1>5
  <2>2. Sound(f, handler, files')
    BY <1>7, <1>10 DEF Sound
  <2> QED BY <1>1, <1>3, <1>7, <1>8, <2>1, <2>2, Replaced
<1> QED BY <1>9, <1>10

LEMMA DownloadKeeps ==
  ASSUME IInv, Connect \/ FetchFails \/ FetchEnds
  PROVE  IInv'
<1>1. /\ frames # <<>> /\ handler' = handler /\ files' = files
      /\ Return \/ (\E next \in {"fetching", "compare"} : GoTo(next) /\ Top.at \in {"connecting", "fetching"})
  BY DEF Connect, FetchFails, FetchEnds, At
<1> QED BY <1>1, Returned, WentTo DEF Stages, Opened

\* All handlers under way learn that they were interrupted.
LEMMA InterruptedFacts ==
  ASSUME TypeInv
  PROVE  /\ Interrupted \in Seq(Frames) /\ Len(Interrupted) = Len(frames) /\ Len(frames) \in Nat
         /\ \A k \in 1..Len(frames) : /\ Interrupted[k].alone = FALSE
                                      /\ Interrupted[k].at = frames[k].at
                                      /\ Interrupted[k].file = frames[k].file
<1>1. frames \in Seq(Frames) /\ Len(frames) \in Nat /\ DOMAIN frames = 1..Len(frames)
  BY DEF TypeInv
<1>2. \A k \in 1..Len(frames) : frames[k] \in Frames
  BY <1>1
<1>3. \A f \in Frames : /\ [f EXCEPT !.alone = FALSE] \in Frames
                        /\ [f EXCEPT !.alone = FALSE].alone = FALSE
                        /\ [f EXCEPT !.alone = FALSE].at = f.at
                        /\ [f EXCEPT !.alone = FALSE].file = f.file
  BY DEF Frames
<1>4. Interrupted = [k \in 1..Len(frames) |-> [frames[k] EXCEPT !.alone = FALSE]]
  BY <1>1 DEF Interrupted
<1>5. \A k \in 1..Len(frames) : Interrupted[k] = [frames[k] EXCEPT !.alone = FALSE]
  BY <1>4
<1>6. Interrupted \in [1..Len(frames) -> Frames]
  BY <1>2, <1>3, <1>4
<1>7. Interrupted \in Seq(Frames) /\ Len(Interrupted) = Len(frames)
  BY <1>1, <1>6
<1>8. ASSUME NEW k \in 1..Len(frames)
      PROVE  /\ Interrupted[k].alone = FALSE
             /\ Interrupted[k].at = frames[k].at /\ Interrupted[k].file = frames[k].file
  <2>1. frames[k] \in Frames /\ Interrupted[k] = [frames[k] EXCEPT !.alone = FALSE]
    BY <1>2, <1>5
  <2> QED BY <1>3, <2>1
<1> QED BY <1>1, <1>7, <1>8

LEMMA TakenFacts ==
  ASSUME TypeInv, NEW c \in Commands
  PROVE  /\ Taken(c) \in Handlers
         /\ handler.version \in Versions => Taken(c).version \in Versions
         /\ ~(c.fields < 4) => /\ Taken(c).id = c.id /\ Taken(c).version = c.version
                               /\ Taken(c).url = c.url /\ Taken(c).md5 = c.md5
<1>1. /\ c.fields \in 0..4 /\ c.url \in Requested /\ c.version \in Versions
      /\ c.id \in Ids /\ c.md5 \in Sums
  BY CommandsAssumption DEF Requested, Versions, Ids, Sums
<1>2. /\ handler.id \in Ids \cup {"none"} /\ handler.version \in Names
      /\ handler.url \in Requested /\ handler.md5 \in Sums \cup {"empty"}
  BY DEF TypeInv, Handlers
<1>3. Taken(c) \in Handlers
  BY <1>1, <1>2 DEF Taken, Handlers, Names
<1> QED BY <1>1, <1>3 DEF Taken

LEMMA ReceiveKeeps ==
  ASSUME IInv, NEW c \in Commands, Receive(c)
  PROVE  IInv'
<1> DEFINE stage == IF "empty" \in {c.url, c.md5} THEN "done" ELSE "command"
<1>1. /\ handler' = Taken(c) /\ files' = files /\ TypeInv
      /\ handler \in Handlers /\ files \in [Versions -> Seq(Bytes)]
  BY DEF Receive, IInv, TypeInv
<1>2. /\ Interrupted \in Seq(Frames) /\ Len(Interrupted) = Len(frames) /\ Len(frames) \in Nat
      /\ \A k \in 1..Len(frames) : /\ Interrupted[k].alone = FALSE
                                   /\ Interrupted[k].at = frames[k].at
                                   /\ Interrupted[k].file = frames[k].file
  BY <1>1, InterruptedFacts
<1>3. /\ Taken(c) \in Handlers /\ (handler.version \in Versions => Taken(c).version \in Versions)
      /\ ~(c.fields < 4) => HeldBy(NewFrame(c, stage), Taken(c)) /\ Taken(c).version = c.version
  BY <1>1, TakenFacts DEF HeldBy, NewFrame
<1>4. \A k \in 1..Len(frames) : Interrupted[k].at \in Opened => Interrupted[k].file \in Versions
  BY <1>1, <1>2 DEF TypeInv
<1>5. CASE c.fields < 4
  <2>1. frames' = Interrupted
    BY <1>5 DEF Receive
  <2>2. TypeInv'
    BY <1>1, <1>2, <1>3, <1>4, <2>1 DEF TypeInv
  <2>3. AloneInv'
    BY <1>2, <2>1 DEF AloneInv
  <2> QED BY <2>2, <2>3 DEF IInv
<1>6. CASE ~(c.fields < 4)
  <2> DEFINE f == NewFrame(c, stage)
  <2>1. frames' = Append(Interrupted, f)
    BY <1>6 DEF Receive
  <2>2. f \in Frames /\ f.at \notin Opened
    <3>1. <<>> \in Seq(Bytes)
      OBVIOUS
    <3> QED BY <3>1 DEF NewFrame, Frames, Stages, Names, Requested, Opened
  <2>3. Sound(f, handler', files')
    BY <1>1, <1>3, <1>6, <2>2 DEF Sound, Digested, Verified, Opened
  <2> HIDE DEF f
  <2>4. /\ frames' \in Seq(Frames) /\ Len(frames') = Len(frames) + 1
        /\ frames'[Len(frames) + 1] = f
        /\ \A k \in 1..Len(frames) : frames'[k] = Interrupted[k]
    BY <1>2, <2>1, <2>2
  <2>5. handler'.version \in Versions
    BY <1>1, <1>3, <1>6 DEF Versions
  <2>6. \A k \in 1..Len(frames') : k \in 1..Len(frames) \/ k = Len(frames) + 1
    BY <1>2, <2>4
  <2>7. TypeInv'
    BY <1>1, <1>3, <1>4, <2>2, <2>4, <2>5, <2>6 DEF TypeInv
  <2>8. AloneInv'
    BY <1>2, <2>3, <2>4, <2>6 DEF AloneInv
  <2> QED BY <2>7, <2>8 DEF IInv
<1> QED BY <1>5, <1>6

LEMMA PowerLossKeeps ==
  ASSUME IInv, PowerLoss
  PROVE  IInv'
<1>1. frames' = <<>> /\ handler' = NoHandler /\ files' = files
  BY DEF PowerLoss
<1>2. NoHandler \in Handlers
  BY DEF NoHandler, Handlers, Names, Requested
<1> QED BY <1>1, <1>2 DEF IInv, TypeInv, AloneInv

-----------------------------------------------------------------------------
(* The theorems *)

LEMMA InitIInv == Init => IInv
<1> SUFFICES ASSUME Init PROVE IInv
  OBVIOUS
<1>1. NoHandler \in Handlers
  BY DEF NoHandler, Handlers, Names, Requested
<1>2. files \in [Versions -> Seq(Bytes)]
  <2>1. <<>> \in Seq(Bytes)
    OBVIOUS
  <2> QED BY <2>1 DEF Init
<1> QED BY <1>1, <1>2 DEF Init, IInv, TypeInv, AloneInv

LEMMA NextIInv ==
  ASSUME IInv, [Next]_vars
  PROVE  IInv'
<1>1. CASE HandlerStep
  BY <1>1, PublishEndsKeeps, ReportsKeep, OpenKeeps, MeasureKeeps, FetchKeeps, DownloadKeeps
  DEF HandlerStep
<1>2. CASE \E c \in Commands : Receive(c)
  BY <1>2, ReceiveKeeps
<1>3. CASE PowerLoss
  BY <1>3, PowerLossKeeps
<1>4. CASE FaultsEnd
  BY <1>4 DEF FaultsEnd, IInv, TypeInv, AloneInv
<1>5. CASE UNCHANGED vars
  BY <1>5 DEF vars, IInv, TypeInv, AloneInv
<1> QED BY <1>1, <1>2, <1>3, <1>4, <1>5 DEF Next

LEMMA IInvPrepared == IInv => PreparedMeansImage
<1> SUFFICES ASSUME IInv, At("prepared"), Top.alone
             PROVE  /\ files[Top.file] = Images[Top.cmd.md5]
                    /\ handler.id = Top.cmd.id /\ Top.file = Top.cmd.version
  BY DEF PreparedMeansImage
<1>1. Top.at = "prepared" /\ frames # <<>>
  BY DEF At
<1>2. Sound(Top, handler, files)
  BY <1>1, TopFacts DEF IInv, AloneInv
<1> QED BY <1>1, <1>2 DEF Sound, HeldBy, Digested, Verified, Opened

\* The global handler, the stack of handlers and the files keep their types, and whatever
\* handler has a file open knows its name.
THEOREM TypeCorrect == Spec => []TypeInv
<1>1. Spec => []IInv
  BY InitIInv, NextIInv, PTL DEF Spec
<1>2. IInv => TypeInv
  BY DEF IInv
<1> QED BY <1>1, <1>2, PTL

\* A handler that no other interrupted reports an upgrade as prepared only when its file
\* holds the whole image of its own command.
THEOREM PreparedHasImage == Spec => []PreparedMeansImage
<1>1. Spec => []IInv
  BY InitIInv, NextIInv, PTL DEF Spec
<1> QED BY <1>1, IInvPrepared, PTL
=============================================================================
