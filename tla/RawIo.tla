-------------------------------- MODULE RawIo --------------------------------
(***************************************************************************)
(* The block device of the nbdkit plugin (src/src/nbdkit-qdl-plugin.c) on  *)
(* firehose_getsize(), firehose_pread() and firehose_pwrite(): the device  *)
(* is set up by the first connection, kept for later ones, and reset when  *)
(* the plugin is unloaded.  Requests are serialised by nbdkit (external).  *)
(*                                                                         *)
(* Sectors of data are messages among the XML messages: what is taken for  *)
(* data, or for a response, depends only on what the reader expects.       *)
(***************************************************************************)
EXTENDS Integers, Sequences, SequencesExt, FiniteSets

CONSTANTS
  Sectors,      \* sectors of the LUN
  Payload,      \* max_payload_size, in sectors
  Requests,     \* reads and writes clients may make; see Rw in MCRawIo
  Refusable,    \* commands the programmer may refuse
  MaxReqs,      \* bound: requests made
  MaxRefuse,    \* bound: refusals, and failures of the setup
  MaxLate,      \* bound: silences of over 100 ms with something still to come
  MaxTimeouts,  \* bound: answers that come after the time the code allows for them
  MaxGone       \* bound: 1 if the device may be unplugged

\* What clients ask for; nbdkit lets no empty request through.
Request ==
  [k : {"pread", "pwrite"}, off : Nat, n : Nat \ {0}, val : Nat, aligned : BOOLEAN]

ASSUME RawIoAssumption ==
  /\ {Sectors, Payload} \subseteq Nat \ {0} /\ Requests \subseteq Request
  /\ {MaxReqs, MaxRefuse, MaxLate, MaxTimeouts, MaxGone} \subseteq Nat

VARIABLES
  dev,          \* dev # NULL: the device has been set up
  size,         \* num_sectors, 0 while unknown
  hpc,          \* "idle", "up" (uploading), "send", "await", "stream", "end"
  step,         \* exchange: "getstorageinfo", "read", "program", "finish", "power"
  req,          \* the client's request
  resp,         \* resp of firehose_read(): "none", "log" (0), "ACK", "NAK"
  geometry,     \* args of firehose_getsize()
  left,         \* sectors still to be streamed
  buf,          \* what a read has delivered
  ret,          \* outcome of the last request: "none", "ok", "error"
  toDev, toHost,
  out,          \* what the device is still to send
  mode,         \* device: "edl", "xml", "in" (taking data), "off", "gone"
  flash,        \* contents of the LUN
  want,         \* sectors and place of the data it is to take
  taken,        \* data taken
  reqs, refused, late, timeouts, gone

devVars  == <<out, mode, flash, want, taken>>
bounds   == <<reqs, refused, late, timeouts, gone>>
vars == <<dev, size, hpc, step, req, resp, geometry, left, buf, ret, toDev, toHost,
          devVars, bounds>>

NoReq   == [k |-> "none", off |-> 0, n |-> 0, val |-> 0, aligned |-> TRUE]
Idle(r) == hpc' = "idle" /\ ret' = r
Xml(v, raw) == [m |-> v, rawmode |-> raw]

-----------------------------------------------------------------------------
(* The plugin.                                                             *)

\* A client connects: the first time, the device is set up.
Open ==
  /\ hpc = "idle" /\ reqs < MaxReqs /\ reqs' = reqs + 1
  /\ req' = [NoReq EXCEPT !.k = "open"]
  /\ IF dev THEN Idle("ok") ELSE hpc' = "up" /\ UNCHANGED ret
  /\ UNCHANGED <<dev, size, step, resp, geometry, left, buf, toDev, toHost, devVars,
                 refused, late, timeouts, gone>>

\* qdl_device_setup(): the programmer is uploaded and configured, unless it is already
\* running, when sahara_run() may take one of its messages for its banner.
Setup ==
  /\ hpc = "up"
  /\ \/ /\ mode # "gone"
        /\ mode' = IF mode = "edl" THEN "xml" ELSE mode
        /\ toHost' = IF mode = "edl" \/ toHost = <<>> THEN toHost ELSE Tail(toHost)
        /\ hpc' = "send" /\ step' = "getstorageinfo" /\ geometry' = 0
        /\ UNCHANGED <<ret, refused>>
     \/ /\ IF mode = "gone" THEN UNCHANGED refused
                            ELSE refused < MaxRefuse /\ refused' = refused + 1
        /\ Idle("error")
        /\ UNCHANGED <<mode, toHost, step, geometry>>
  /\ UNCHANGED <<dev, size, req, resp, left, buf, toDev, out, flash, want, taken,
                 reqs, late, timeouts, gone>>

\* qdl_plugin_pread(), qdl_plugin_pwrite(): a client needs a connection first.
ReadWrite ==
  /\ hpc = "idle" /\ dev /\ reqs < MaxReqs /\ reqs' = reqs + 1
  /\ \E r \in Requests :
       /\ r.off + r.n <= size
       /\ req' = [r EXCEPT !.val = reqs']
       /\ IF ~r.aligned
            THEN Idle("error") /\ UNCHANGED <<step, left, buf>>
            ELSE /\ hpc' = "send" /\ step' = IF r.k = "pread" THEN "read" ELSE "program"
                 /\ left' = r.n /\ buf' = <<>> /\ UNCHANGED ret
  /\ UNCHANGED <<dev, size, resp, geometry, toDev, toHost, devVars, refused, late,
                 timeouts, gone>>

\* qdl_plugin_unload().
Unload ==
  /\ hpc = "idle"
  /\ req' = [NoReq EXCEPT !.k = "unload"]
  /\ IF dev THEN hpc' = "send" /\ step' = "power" ELSE hpc' = "end" /\ UNCHANGED step
  /\ UNCHANGED <<dev, size, resp, geometry, left, buf, ret, toDev, toHost, devVars, bounds>>

-----------------------------------------------------------------------------
(* Exchanges: firehose_write() and firehose_read().                        *)

\* How a request ends; the device is kept only if the setup ends well.
End(r) ==
  /\ dev' = CASE req.k = "open" -> r = "ok" [] req.k = "unload" -> FALSE [] OTHER -> dev
  /\ size' = IF req.k = "open" /\ r = "ok" /\ ~dev THEN geometry' ELSE size
  /\ IF req.k = "unload" THEN hpc' = "end" /\ UNCHANGED ret ELSE Idle(r)

Send ==
  /\ hpc = "send"
  /\ IF mode = "gone"
       THEN End("error") /\ UNCHANGED <<toDev, resp>>
       ELSE /\ toDev' = Append(toDev, [cmd |-> step, off |-> req.off, n |-> req.n])
            /\ hpc' = "await" /\ resp' = "none" /\ UNCHANGED <<dev, size, ret>>
  /\ UNCHANGED <<step, req, geometry, left, buf, toHost, devVars, bounds>>

\* What firehose_generic_parser() and firehose_getstorageinfo_parser() make of a
\* message: the latter returns 0 for a <log>, which counts as a response, and an
\* error, which does not, for a refusal.
Parsed(m) ==
  IF step = "getstorageinfo"
    THEN CASE m = "ACK" -> "ACK" [] m = "NAK" -> resp [] m \in {"log", "info"} -> "log"
    ELSE IF m = "log" \/ m = "info" THEN resp ELSE m

\* Variant: of several responses the first is waited for only.
StopsReadingEarly(msg) == msg.m \in {"log", "ACK", "NAK"}

\* A message that ends the reading.
StopsReading(msg) == msg.m # "data" /\ msg.rawmode

Outcome(r) ==
  CASE step = "getstorageinfo" ->
         IF r # "none" /\ geometry' > 0 THEN End("ok") ELSE End("error")
    [] step = "power"  -> End("ok")
    [] step = "read" ->
         IF r = "ACK" THEN hpc' = "stream" /\ UNCHANGED <<dev, size, ret>> ELSE End("error")
    [] step = "program" ->                       \* refusals are not noticed
         IF r # "none" THEN hpc' = "stream" /\ UNCHANGED <<dev, size, ret>> ELSE End("error")
    [] step = "finish" /\ req.k = "pread"  -> IF r = "ACK" THEN End("ok") ELSE End("error")
    [] step = "finish" /\ req.k = "pwrite" -> IF r # "none" THEN End("ok") ELSE End("error")

\* What is not XML is passed over.
AwaitOne ==
  /\ hpc = "await" /\ toHost # <<>>
  /\ LET msg == Head(toHost)
     IN /\ resp' = IF msg.m = "data" THEN resp ELSE Parsed(msg.m)
        /\ geometry' = IF step = "getstorageinfo" /\ msg.m = "info" THEN Sectors ELSE geometry
        /\ IF StopsReading(msg) THEN Outcome(resp') ELSE UNCHANGED <<hpc, dev, size, ret>>
  /\ toHost' = Tail(toHost)
  /\ UNCHANGED <<step, req, left, buf, toDev, devVars, bounds>>

\* Nothing more will come of what was sent.
Silent == mode = "gone" \/ (toDev = <<>> /\ out = <<>>)

\* Nothing has come for 100 ms, or for as long as the code is ready to wait.
AwaitDone ==
  /\ hpc = "await" /\ toHost = <<>>
  /\ CASE Silent -> UNCHANGED <<late, timeouts>>
       [] resp # "none" -> late < MaxLate /\ late' = late + 1 /\ UNCHANGED timeouts
       [] OTHER -> timeouts < MaxTimeouts /\ timeouts' = timeouts + 1 /\ UNCHANGED late
  /\ UNCHANGED geometry
  /\ Outcome(resp)
  /\ UNCHANGED <<step, req, resp, left, buf, toDev, toHost, devVars, reqs, refused, gone>>

\* Variant: the last sector is forgotten.
StreamedShort == left <= 1

Streamed == left = 0

\* Sectors of the next write.
Chunk == IF Payload < left THEN Payload ELSE left

\* Variant: what follows the data does not matter.
AfterDataOk == End("ok") /\ UNCHANGED <<step, resp>>

AfterData ==
  hpc' = "await" /\ step' = "finish" /\ resp' = "none" /\ UNCHANGED <<dev, size, ret>>

\* The data phase, a sector at a time; anything that arrives is data to a read.
Stream ==
  /\ hpc = "stream"
  /\ CASE Streamed ->
            AfterData /\ UNCHANGED <<left, buf, toDev, toHost>>
       [] ~Streamed /\ req.k = "pread" ->
            /\ IF toHost # <<>>
                 THEN /\ buf' = Append(buf, IF Head(toHost).m = "data" THEN Head(toHost).val ELSE -1)
                      /\ toHost' = Tail(toHost) /\ left' = left - 1
                      /\ UNCHANGED <<hpc, dev, size, ret>>
                 ELSE /\ Silent
                      /\ End("error") /\ UNCHANGED <<buf, toHost, left>>
            /\ UNCHANGED <<step, resp, toDev>>
       [] OTHER ->
            /\ IF mode # "gone"
                 THEN /\ toDev' = toDev \o [i \in 1 .. Chunk |-> [cmd |-> "data", val |-> req.val]]
                      /\ left' = left - Chunk /\ UNCHANGED <<hpc, dev, size, ret>>
                 ELSE End("error") /\ UNCHANGED <<toDev, left>>
            /\ UNCHANGED <<step, resp, buf, toHost>>
  /\ UNCHANGED <<req, geometry, devVars, bounds>>

-----------------------------------------------------------------------------
(* The programmer (external).                                              *)

Data(off, n) == [i \in 1 .. n |-> [m |-> "data", val |-> flash[off + i - 1]]]

Accepted(c) ==
  CASE c.cmd = "getstorageinfo" ->
         out' \in {<<Xml("log", FALSE), Xml("info", FALSE), Xml("ACK", FALSE)>>,
                   <<Xml("info", FALSE), Xml("ACK", FALSE)>>,
                   <<Xml("ACK", FALSE)>>}
    [] c.cmd = "read" ->
         out' = <<Xml("ACK", TRUE)>> \o Data(c.off, c.n) \o <<Xml("ACK", FALSE)>>
    [] c.cmd = "program" -> out' = <<Xml("ACK", TRUE)>>
    [] c.cmd = "power"   -> out' = <<Xml("ACK", FALSE)>>

DevCommand ==
  /\ mode = "xml" /\ out = <<>> /\ toDev # <<>> /\ Head(toDev).cmd # "data"
  /\ LET c == Head(toDev)
     IN \/ /\ Accepted(c)
           /\ mode' = CASE c.cmd = "program" -> "in" [] c.cmd = "power" -> "off" [] OTHER -> mode
           /\ want' = IF c.cmd = "program" THEN [off |-> c.off, n |-> c.n] ELSE want
           /\ taken' = <<>> /\ UNCHANGED refused
        \/ /\ c.cmd \in Refusable /\ refused < MaxRefuse /\ refused' = refused + 1
           /\ out' = <<Xml("NAK", FALSE)>>
           /\ UNCHANGED <<mode, want, taken>>
  /\ toDev' = Tail(toDev)
  /\ UNCHANGED <<dev, size, hpc, step, req, resp, geometry, left, buf, ret, toHost, flash,
                 reqs, late, timeouts, gone>>

DevSay ==
  /\ mode # "gone" /\ out # <<>>
  /\ toHost' = Append(toHost, Head(out)) /\ out' = Tail(out)
  /\ UNCHANGED <<dev, size, hpc, step, req, resp, geometry, left, buf, ret, toDev, mode, flash,
                 want, taken, bounds>>

\* Data outside of a program command is dropped.
DevStray ==
  /\ mode = "xml" /\ toDev # <<>> /\ Head(toDev).cmd = "data"
  /\ toDev' = Tail(toDev)
  /\ UNCHANGED <<dev, size, hpc, step, req, resp, geometry, left, buf, ret, toHost, devVars, bounds>>

\* Inside of one, everything is data.
DevData ==
  /\ mode = "in" /\ out = <<>> /\ toDev # <<>>
  /\ LET c == Head(toDev)
         all == Append(taken, IF c.cmd = "data" THEN c.val ELSE -1)
     IN /\ taken' = all
        /\ IF Len(all) < want.n
             THEN UNCHANGED <<mode, flash, out, refused>>
             ELSE /\ mode' = "xml"
                  /\ \/ /\ flash' = [s \in 0 .. Sectors - 1 |->
                                       IF s \in want.off .. want.off + want.n - 1
                                         THEN all[s - want.off + 1] ELSE flash[s]]
                        /\ out' = <<Xml("ACK", FALSE)>> /\ UNCHANGED refused
                     \/ /\ "finish" \in Refusable /\ refused < MaxRefuse
                        /\ refused' = refused + 1
                        /\ out' = <<Xml("NAK", FALSE)>> /\ UNCHANGED flash
  /\ toDev' = Tail(toDev)
  /\ UNCHANGED <<dev, size, hpc, step, req, resp, geometry, left, buf, ret, toHost, want,
                 reqs, late, timeouts, gone>>

Unplug ==
  /\ mode # "gone" /\ gone < MaxGone /\ gone' = gone + 1
  /\ mode' = "gone"
  /\ UNCHANGED <<dev, size, hpc, step, req, resp, geometry, left, buf, ret, toDev, toHost,
                 out, flash, want, taken, reqs, refused, late, timeouts>>

Done == hpc = "end" /\ UNCHANGED vars

Init ==
  /\ dev = FALSE /\ size = 0 /\ hpc = "idle" /\ step = "none" /\ req = NoReq
  /\ resp = "none" /\ geometry = 0 /\ left = 0 /\ buf = <<>> /\ ret = "none"
  /\ toDev = <<>> /\ toHost = <<>> /\ out = <<>>
  /\ mode = "edl" /\ flash = [s \in 0 .. Sectors - 1 |-> 0]
  /\ want = [off |-> 0, n |-> 0] /\ taken = <<>>
  /\ reqs = 0 /\ refused = 0 /\ late = 0 /\ timeouts = 0 /\ gone = 0

Host   == Setup \/ Send \/ AwaitOne \/ AwaitDone \/ Stream
Client == Open \/ ReadWrite \/ Unload
Device == DevCommand \/ DevSay \/ DevStray \/ DevData
Next   == Host \/ Client \/ Device \/ Unplug \/ Done

\* A request is one call of the plugin, whose reads all have a timeout.
Spec == Init /\ [][Next]_vars /\ WF_vars(Host /\ UNCHANGED <<late, timeouts>>) /\ WF_vars(Device)

-----------------------------------------------------------------------------
(* Properties.                                                             *)

Region == [i \in 1 .. req.n |-> flash[req.off + i - 1]]

\* The programmer answers within the time it is given, and falls silent in the middle of an
\* answer at most once: after two silences a response stands for that of a later command.
InTime == timeouts = 0 /\ late <= 1

\* A read that is reported as good has delivered the sectors it was asked for.
ReadFaithful == InTime /\ hpc = "idle" /\ ret = "ok" /\ req.k = "pread" => buf = Region

\* A write that is reported as good is on the device.
WriteFaithful ==
  InTime /\ hpc = "idle" /\ ret = "ok" /\ req.k = "pwrite"
    => \A i \in DOMAIN Region : Region[i] = req.val

\* So it is if no command was refused.
AcceptedWriteFaithful == refused = 0 => WriteFaithful

\* Between requests no response is on its way to be taken for that of a later command,
\* unless the programmer fell silent in the middle of an answer.
ResponseConsumed ==
  late = 0 /\ timeouts = 0 /\ hpc = "idle" /\ dev /\ mode # "gone" =>
    toDev = <<>> /\ \A i \in DOMAIN (toHost \o out) : (toHost \o out)[i].m \notin {"ACK", "NAK"}

=============================================================================
