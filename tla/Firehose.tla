------------------------------ MODULE Firehose ------------------------------
(***************************************************************************)
(* The Firehose run of src/src/firehose.c: the operations of a run are     *)
(* executed one after the other, each as one or more exchanges - a command *)
(* is written, then everything the programmer says is read until it falls  *)
(* silent or the time is up - and the data of a program or read operation  *)
(* streamed in between.  The programmer (external) takes the commands in   *)
(* order and answers each with any number of <log>s and one <response>.    *)
(*                                                                         *)
(* Time is the difference between a programmer that still has something    *)
(* to say and one that has not: a read times out when nothing more is      *)
(* coming, and, a bounded number of times, although something is.          *)
(***************************************************************************)
EXTENDS Integers, Sequences, FiniteSets

CONSTANTS
  Runs,         \* [ops, skipblock, vip, payload, tries, late]: what a run may be, namely
                \*   ops        its operations, from the configure to the reset
                \*   skipblock  TRUE: --skipblock=sha256
                \*   vip        state of the VIP transfer it begins with
                \*   payload    payload size the programmer supports
                \*   tries      bound: configure commands one retry loop may send
                \*   late       bound: answers that come after the host stopped waiting
  HostPayload,  \* initial max_payload_size, in sectors
  ChunkMax,     \* SKIPBLOCK_CHUNK_BYTES, in sectors
  MaxLogs,      \* bound: <log> messages on either side of a response
  MaxFail,      \* bound: commands the programmer refuses
  MaxGone       \* bound: 1 when the programmer may drop off the bus

\* The list of a run begins with a configure (qdl_ensure_configured()); an erase or a patch
\* is one effect, a program or a read has sectors.
RunOK(r) ==
  /\ r.ops \in Seq([type : {"configure", "program", "read", "erase", "patch", "bootable", "reset"},
                    n : Nat])
  /\ r.ops # <<>> /\ r.ops[1].type = "configure"
  /\ \A i \in DOMAIN r.ops : /\ r.ops[i].type \in {"erase", "patch"} => r.ops[i].n = 1
                             /\ r.ops[i].type \in {"program", "read"} => r.ops[i].n > 0
  /\ r.skipblock \in BOOLEAN /\ r.vip \in {"DISABLED", "INIT"}
  /\ r.payload \in Nat \ {0} /\ {r.tries, r.late} \subseteq Nat

ASSUME PayloadAssumption ==
  /\ HostPayload \in Nat \ {0}
  /\ ChunkMax \in Nat \ {0}
  /\ \A r \in Runs : RunOK(r)
  /\ {MaxLogs, MaxFail, MaxGone} \subseteq Nat

VARIABLES
  \* the host
  run,          \* the run, one of Runs
  opi,          \* operation in progress
  hpc,          \* where that operation is
  step,         \* exchange in progress
  off,          \* sector offset of the region being programmed (skipblock)
  resp,         \* resp of firehose_read()
  answer,       \* which exchange that response answers
  rsize,        \* payload size in the configure response
  digest,       \* op->digest, as it compares with the local digest
  left,         \* sectors still to be streamed
  payload,      \* qdl->max_payload_size
  sector_size,  \* qdl->sector_size is known
  vip,          \* qdl->vip_data.state
  requires,     \* programmer_requires_vip
  single,       \* the VIP branch: one configure attempt
  tries,        \* configure commands sent by the retry loop
  result,       \* return value of firehose_run()
  \* the programmer and the link
  dpc,          \* "boot", "xml", "in" (taking raw data), "gone"
  dcmd,         \* exchange whose data it is taking
  dleft,        \* sectors of it still to come
  dmax,         \* payload size it supports
  daccepted,    \* payload size last agreed to
  dvip,         \* it insists on VIP
  dtable,       \* it has been given the signed table
  dnext,        \* the packet of the tables that it compares next
  dwrong,       \* one of them was not the one that was next in the tables
  flash,        \* <<operation, sector>> that are on the device
  desync,       \* it got data for a command or a command for data
  toDev,        \* commands and data it has not taken yet
  toHost,       \* messages the host has not read yet
  late,         \* how often a read gave up on what was still to come
  fails, gone   \* how often the programmer refused, and left

hostVars == <<run, opi, hpc, step, off, resp, answer, rsize, digest, left,
              payload, sector_size, vip, requires, single, tries, result>>
tableVars == <<dvip, dtable, dnext, dwrong>>
devVars  == <<dpc, dcmd, dleft, dmax, daccepted, tableVars, flash, desync>>
vars     == <<hostVars, devVars, toDev, toHost, late, fails, gone>>

-----------------------------------------------------------------------------
(* What a run is made of.                                                  *)

ops == run.ops                \* the list firehose_execute_ops() walks
Op  == ops[opi]

\* firehose_skipblock_enabled() for the operation in progress.
SkipblockEnabled == run.skipblock /\ Op.type = "program" /\ vip = "DISABLED"

\* What an operation leaves on the device, sector by sector.
HasEffect(op) == op.type \in {"program", "erase", "patch"}
Effects(i)    == IF HasEffect(ops[i]) THEN {i} \X (0 .. ops[i].n - 1) ELSE {}
AllEffects    == UNION {Effects(i) : i \in DOMAIN ops}

Lesser(a, b)  == IF a < b THEN a ELSE b

\* The region the exchange in progress is about.
RegionSectors == IF SkipblockEnabled THEN Lesser(ChunkMax, Op.n - off) ELSE Op.n

\* An exchange, as the commands and messages that belong to it are tagged.
Exchange(s) == [op |-> opi, step |-> s, off |-> off]
NoExchange == [op |-> 0, step |-> "none", off |-> 0]
NoCommand  == [cmd |-> "none", re |-> NoExchange, n |-> 0]
Probes == {"probe512", "probe4096"}
Steps  == Probes \cup {"startup", "table", "configure", "reconfigure", "digest",
                       "program", "read", "erase", "patch", "bootable", "reset",
                       "resetting", "refused"}

-----------------------------------------------------------------------------
(* Pieces of the host's steps.                                             *)

Write(s) == hpc' = "write" /\ step' = s
Read(s)  == hpc' = s /\ resp' = "none" /\ answer' = NoExchange

NextOp == hpc' = "op" /\ opi' = opi + 1 /\ off' = 0 /\ tries' = 0
Fail   == hpc' = "end" /\ result' = "failed"

configVars == <<payload, sector_size, vip, tries>>

\* Nothing more will come of what the host has sent so far.
Silent == toHost = <<>> /\ toDev = <<>>

\* The read in progress is for an answer or for data, not only for logs.
Awaits == hpc = "recv" \/ (resp = "none" /\ step \notin {"startup", "resetting", "refused"})

\* A read may stop waiting: nothing is coming, or it comes too late.
StopsWaiting ==
  IF Silent \/ ~Awaits
    THEN UNCHANGED late
    ELSE late < run.late /\ late' = late + 1

\* Where firehose_read() returns to.
ReturnTo == CASE hpc = "drain" -> "write"
              [] hpc = "read"  -> "after"
              [] hpc = "final" -> "done"

StartOp ==
  /\ hpc = "op"
  /\ \/ /\ opi > Len(ops)
        /\ hpc' = "end"
        /\ result' = "ok"
        /\ UNCHANGED <<step, single, resp, answer>>
     \/ /\ opi <= Len(ops)
        /\ single' = IF Op.type = "configure" THEN vip # "DISABLED" ELSE single
        /\ UNCHANGED result
        /\ \/ /\ Op.type = "configure" /\ vip # "DISABLED"
              /\ step' = "startup"
              /\ Read("read")
           \/ /\ Op.type = "configure" /\ vip = "DISABLED"
              /\ Write("configure")
              /\ UNCHANGED <<resp, answer>>
           \/ /\ Op.type # "configure"
              /\ Write(IF SkipblockEnabled THEN "digest" ELSE Op.type)
              /\ UNCHANGED <<resp, answer>>
  /\ UNCHANGED <<run, opi, off, tries, rsize, digest, left, payload, sector_size,
                 vip, requires, devVars, toDev, toHost, late, fails, gone>>

\* firehose_write(): the command is taken, ...
WriteCommand ==
  /\ hpc = "write"
  /\ dpc # "gone"
  /\ Len(toDev) < 2
  /\ toDev' = Append(toDev,
       [cmd |-> step, re |-> Exchange(step),
        n |-> CASE step = "configure" -> payload
                [] step = "reconfigure" -> rsize
                [] step \in {"digest", "program", "read"} -> RegionSectors
                [] OTHER -> 1])
  /\ tries' = IF step = "configure" THEN tries + 1 ELSE tries
  /\ digest' = IF step = "digest" THEN "none" ELSE digest
  /\ vip' = IF step = "table" THEN "SEND_DATA" ELSE vip
  /\ Read("read")
  /\ UNCHANGED <<run, opi, step, off, rsize, left, payload, sector_size, requires,
                 single, result, devVars, toHost, late, fails, gone>>

\* ... or the programmer will not take it before its own messages are read,
\* which are then drained before the next attempt ...
WriteTimesOut ==
  /\ hpc = "write"
  /\ dpc = "boot" \/ (dpc # "gone" /\ ~Silent)
  /\ step # "table"
  /\ Read("drain")
  /\ UNCHANGED <<run, opi, step, off, rsize, digest, left, configVars, requires,
                 single, result, devVars, toDev, toHost, late, fails, gone>>

\* ... or there is nobody to take it.  The configure exchange goes on to read
\* an answer regardless; a refused setbootablestoragedrive does not matter.
WriteFails ==
  /\ hpc = "write"
  /\ dpc = "gone"
  /\ CASE step \in {"configure", "reconfigure"} ->
            Read("read") /\ UNCHANGED <<step, opi, off, tries, result>>
       [] step \in {"table"} ->
            Read("read") /\ step' = "configure" /\ UNCHANGED <<opi, off, tries, result>>
       [] step \in Probes \cup {"digest"} ->
            /\ hpc' = "after" /\ resp' = "EIO" /\ answer' = NoExchange
            /\ UNCHANGED <<step, opi, off, tries, result>>
       [] step = "bootable" ->
            NextOp /\ UNCHANGED <<step, resp, answer, result>>
       [] OTHER ->
            Fail /\ UNCHANGED <<step, opi, off, tries, resp, answer>>
  /\ UNCHANGED <<run, rsize, digest, left, payload, sector_size, vip, requires,
                 single, devVars, toDev, toHost, late, fails, gone>>

-----------------------------------------------------------------------------
(* firehose_read(): "drain" is the read inside firehose_write(), "read" and *)
(* "final" are the reads of an operation; "after" is its return.            *)

Reading == hpc \in {"drain", "read", "final"}

ConfigureReply == hpc = "read" /\ step \in {"configure", "reconfigure"}

\* The response parser accepts what it is looking for; everything else, logs
\* included, is consumed.
Accepts(m) == m.t = "resp" /\ (ConfigureReply => m.size > 0)

\* A digest for another region matches the local one only by accident.
ReportedDigest(m) ==
  IF m.digest = "same" /\ m.re = Exchange("digest") THEN "same" ELSE "diff"

ReadMessage ==
  /\ Reading
  /\ toHost # <<>>
  /\ LET m == Head(toHost)
     IN /\ toHost' = Tail(toHost)
        /\ requires' = (requires \/ m.t = "marker")
        /\ digest' = IF hpc = "read" /\ step = "digest" /\ digest = "none"
                        /\ m.digest # "none"
                       THEN ReportedDigest(m) ELSE digest
        /\ IF Accepts(m)
             THEN /\ resp' = IF ConfigureReply THEN "ACK" ELSE m.v
                  /\ answer' = m.re
                  /\ rsize' = IF ConfigureReply THEN m.size ELSE rsize
                  /\ hpc' = IF m.raw /\ ~ConfigureReply THEN ReturnTo ELSE hpc
             ELSE UNCHANGED <<resp, answer, rsize, hpc>>
  /\ UNCHANGED <<run, opi, step, off, left, configVars, single, result,
                 devVars, toDev, late, fails, gone>>

\* Variant: the first 100 ms of silence end the wait for a response, too.
ReadGivesUpEarly ==
  /\ Reading
  /\ dpc = "gone" => resp # "none"
  /\ hpc' = ReturnTo
  /\ resp' = IF resp = "none" THEN "TIMEDOUT" ELSE resp
  /\ UNCHANGED <<run, opi, step, off, answer, rsize, digest, left, configVars,
                 requires, single, result, devVars, toDev, toHost, late, fails, gone>>

\* 100 ms of silence after a response, or the timeout of the exchange without
\* one.
ReadTimesOut ==
  /\ Reading
  /\ StopsWaiting
  /\ dpc = "gone" => resp # "none"
  /\ hpc' = ReturnTo
  /\ resp' = IF resp = "none" THEN "TIMEDOUT" ELSE resp
  /\ UNCHANGED <<run, opi, step, off, answer, rsize, digest, left, configVars,
                 requires, single, result, devVars, toDev, toHost, fails, gone>>

\* The transport is gone: the response seen so far is not lost.
ReadFails ==
  /\ Reading
  /\ dpc = "gone"
  /\ toHost = <<>>
  /\ hpc' = ReturnTo
  /\ resp' = IF resp = "none" THEN "EIO" ELSE resp
  /\ UNCHANGED <<run, opi, step, off, answer, rsize, digest, left, configVars,
                 requires, single, result, devVars, toDev, toHost, late, fails, gone>>

-----------------------------------------------------------------------------
(* What the host does with the outcome of an exchange.                     *)

\* Everything but the progress of the operation and the configuration.
exchangeRest == <<run, rsize, digest, devVars, toDev, toHost, late, fails, gone>>

\* Variant: any failed configure is repeated, not only one that timed out.
ConfiguredPersistent(ret) ==
  CASE ~single /\ requires ->
         Fail /\ UNCHANGED <<opi, off, step, tries>>
    [] (single \/ ~requires) /\ ret = "ACK" ->
         NextOp /\ UNCHANGED <<step, result>>
    [] (single \/ ~requires) /\ ret # "ACK" ->
         \/ /\ ~single /\ tries < run.tries
            /\ Write("configure")
            /\ UNCHANGED <<opi, off, tries, result>>
         \/ Fail /\ UNCHANGED <<opi, off, step, tries>>

\* firehose_try_configure() returns ret to firehose_detect_and_configure().
Configured(ret) ==
  CASE ~single /\ requires ->
         Fail /\ UNCHANGED <<opi, off, step, tries>>
    [] (single \/ ~requires) /\ ret = "ACK" ->
         NextOp /\ UNCHANGED <<step, result>>
    [] (single \/ ~requires) /\ ret # "ACK" ->
         \/ /\ ~single /\ ret = "TIMEDOUT" /\ tries < run.tries
            /\ Write("configure")
            /\ UNCHANGED <<opi, off, tries, result>>
         \/ Fail /\ UNCHANGED <<opi, off, step, tries>>

\* Variant: VIP does not keep the sector size from being probed.
ProbeAnyway ==
  IF ~sector_size
    THEN Write("probe512") /\ UNCHANGED <<opi, off, tries, result>>
    ELSE Configured("ACK")

\* The configure exchange succeeded; is the sector size to be probed?
Probe ==
  IF vip = "DISABLED" /\ ~sector_size
    THEN Write("probe512") /\ UNCHANGED <<opi, off, tries, result>>
    ELSE Configured("ACK")

\* Variant: VIP is not given up when it was not announced.
AfterStartupEager ==
  /\ hpc = "after" /\ step = "startup"
  /\ vip' = vip
  /\ Write(IF vip' = "INIT" THEN "table" ELSE "configure")
  /\ UNCHANGED <<exchangeRest, opi, off, resp, answer, left, payload, sector_size,
                 requires, single, tries, result>>

\* The drain before a VIP configure is over: without an announcement VIP is
\* given up, with one the signed table goes out ahead of the configure.
AfterStartup ==
  /\ hpc = "after" /\ step = "startup"
  /\ vip' = IF requires THEN vip ELSE "DISABLED"
  /\ Write(IF vip' = "INIT" THEN "table" ELSE "configure")
  /\ UNCHANGED <<exchangeRest, opi, off, resp, answer, left, payload, sector_size,
                 requires, single, tries, result>>

\* A refused table is not reported: firehose_send_configure() reads on.
AfterTable ==
  /\ hpc = "after" /\ step = "table"
  /\ IF resp = "ACK"
       THEN Write("configure") /\ UNCHANGED <<resp, answer>>
       ELSE Read("read") /\ step' = "configure"
  /\ UNCHANGED <<exchangeRest, opi, off, left, configVars, requires, single, result>>

\* Variant: the payload size the programmer proposes is not compared.
AfterConfigureAsIs ==
  /\ hpc = "after" /\ step = "configure"
  /\ CASE resp = "ACK" /\ rsize # payload ->
            Probe
       [] resp = "ACK" /\ rsize = payload -> Probe
       [] resp # "ACK" -> Configured(resp)
  /\ UNCHANGED <<exchangeRest, resp, answer, left, payload, sector_size, vip,
                 requires, single>>

AfterConfigure ==
  /\ hpc = "after" /\ step = "configure"
  /\ CASE resp = "ACK" /\ rsize # payload ->
            Write("reconfigure") /\ UNCHANGED <<opi, off, tries, result>>
       [] resp = "ACK" /\ rsize = payload -> Probe
       [] resp # "ACK" -> Configured(resp)
  /\ UNCHANGED <<exchangeRest, resp, answer, left, payload, sector_size, vip,
                 requires, single>>

AfterReconfigure ==
  /\ hpc = "after" /\ step = "reconfigure"
  /\ IF resp = "ACK"
       THEN payload' = rsize /\ Probe
       ELSE UNCHANGED payload /\ Configured("failed")
  /\ UNCHANGED <<exchangeRest, resp, answer, left, sector_size, vip, requires, single>>

\* One sector is read with each candidate size; the first that works is it.
NextProbe ==
  IF step = "probe512"
    THEN Write("probe4096") /\ UNCHANGED <<opi, off, tries, result>>
    ELSE Configured("ACK")

AfterProbe ==
  /\ hpc = "after" /\ step \in Probes
  /\ IF resp = "ACK"
       THEN hpc' = "recv" /\ left' = 1 /\ UNCHANGED <<step, opi, off, tries, result>>
       ELSE NextProbe /\ UNCHANGED left
  /\ UNCHANGED <<exchangeRest, resp, answer, payload, sector_size, vip, requires, single>>

ProbeDone ==
  /\ hpc = "done" /\ step \in Probes
  /\ IF resp = "ACK"
       THEN sector_size' = TRUE /\ Configured("ACK")
       ELSE UNCHANGED sector_size /\ NextProbe
  /\ UNCHANGED <<exchangeRest, resp, answer, left, payload, vip, requires, single>>

\* firehose_program_skipblock(): the next chunk of the region, if any.
NextRegion ==
  IF SkipblockEnabled /\ off + ChunkMax < Op.n
    THEN off' = off + ChunkMax /\ Write("digest") /\ UNCHANGED <<opi, tries>>
    ELSE NextOp /\ UNCHANGED step

\* Variant: a digest that was answered counts as a match.
AfterDigestTrusting ==
  /\ hpc = "after" /\ step = "digest"
  /\ IF resp = "ACK"
       THEN NextRegion
       ELSE Write("program") /\ UNCHANGED <<opi, off, tries>>
  /\ UNCHANGED <<exchangeRest, resp, answer, left, payload, sector_size, vip,
                 requires, single, result>>

\* A chunk is left alone only when the device digest matches; whatever else
\* happened, it is flashed.
AfterDigest ==
  /\ hpc = "after" /\ step = "digest"
  /\ IF resp = "ACK" /\ digest = "same"
       THEN NextRegion
       ELSE Write("program") /\ UNCHANGED <<opi, off, tries>>
  /\ UNCHANGED <<exchangeRest, resp, answer, left, payload, sector_size, vip,
                 requires, single, result>>

\* An operation of the run in progress has come to its end, well or not.
Conclude(ok) ==
  /\ IF ok THEN NextRegion /\ UNCHANGED result
           ELSE Fail /\ UNCHANGED <<opi, off, step, tries>>
  /\ UNCHANGED <<exchangeRest, resp, answer, left, payload, sector_size, vip,
                 requires, single>>

\* The programmer is ready for data, or to send it.
SetUp(next) ==
  /\ IF resp = "ACK"
       THEN hpc' = next /\ left' = RegionSectors /\ UNCHANGED result
       ELSE Fail /\ UNCHANGED left
  /\ UNCHANGED <<exchangeRest, opi, step, off, resp, answer, configVars, requires, single>>

ProgramSetup == hpc = "after" /\ step = "program" /\ SetUp("stream")
ReadSetup    == hpc = "after" /\ step = "read" /\ SetUp("recv")

ProgramDone == hpc = "done" /\ step = "program" /\ Conclude(resp = "ACK")
ReadDone    == hpc = "done" /\ step = "read" /\ Conclude(resp = "ACK")

\* Variant: a failed erase does not end the run.
AfterEraseLenient == hpc = "after" /\ step = "erase" /\ Conclude(TRUE)

\* Operations of one exchange; firehose_execute_ops() ignores the outcome of
\* firehose_set_bootable().
AfterErase    == hpc = "after" /\ step = "erase" /\ Conclude(resp = "ACK")
AfterPatch    == hpc = "after" /\ step = "patch" /\ Conclude(resp = "ACK")
AfterBootable == hpc = "after" /\ step = "bootable" /\ Conclude(TRUE)

\* firehose_reset(): after any response the remaining logs are drained.
AfterReset ==
  /\ hpc = "after" /\ step = "reset"
  /\ IF resp \in {"ACK", "NAK"}
       THEN /\ Read("final")
            /\ step' = IF resp = "ACK" THEN "resetting" ELSE "refused"
            /\ UNCHANGED result
       ELSE Fail /\ UNCHANGED <<step, resp, answer>>
  /\ UNCHANGED <<exchangeRest, opi, off, left, configVars, requires, single>>

ResetDone ==
  /\ hpc = "done" /\ step \in {"resetting", "refused"}
  /\ Conclude(step = "resetting")

\* firehose_stream_out(): one raw packet of at most max_payload_size.
StreamChunk ==
  /\ hpc = "stream"
  /\ dpc # "gone"
  /\ Len(toDev) < 2
  /\ LET n == Lesser(payload, left)
     IN /\ toDev' = Append(toDev, [cmd |-> "data", re |-> Exchange(step), n |-> n])
        /\ left' = left - n
        /\ IF left = n THEN Read("final") ELSE UNCHANGED <<hpc, resp, answer>>
  /\ UNCHANGED <<run, opi, step, off, rsize, digest, configVars, requires, single,
                 result, devVars, toHost, late, fails, gone>>

\* firehose_issue_read(): whatever arrives is the next sector.
RecvSector ==
  /\ hpc = "recv"
  /\ toHost # <<>>
  /\ toHost' = Tail(toHost)
  /\ desync' = (desync \/ Head(toHost).t # "data")
  /\ left' = left - 1
  /\ IF left = 1 THEN Read("final") ELSE UNCHANGED <<hpc, resp, answer>>
  /\ UNCHANGED <<run, opi, step, off, rsize, digest, configVars, requires, single,
                 result, dpc, dcmd, dleft, dmax, daccepted, tableVars, flash,
                 toDev, late, fails, gone>>

\* The data cannot be written, or stops coming.
TransferFails ==
  /\ \/ hpc = "stream" /\ dpc = "gone" /\ UNCHANGED late
     \/ hpc = "recv" /\ dpc = "gone" /\ toHost = <<>> /\ UNCHANGED late
     \/ hpc = "recv" /\ dpc # "gone" /\ toHost = <<>> /\ StopsWaiting
  /\ IF step \in Probes
       THEN NextProbe
       ELSE Fail /\ UNCHANGED <<step, opi, off, tries>>
  /\ UNCHANGED <<run, rsize, digest, resp, answer, left, payload, sector_size, vip,
                 requires, single, devVars, toDev, toHost, fails, gone>>

Host ==
  \/ StartOp \/ WriteCommand \/ WriteTimesOut \/ WriteFails
  \/ ReadMessage \/ ReadTimesOut \/ ReadFails
  \/ AfterStartup \/ AfterTable \/ AfterConfigure \/ AfterReconfigure
  \/ AfterProbe \/ ProbeDone
  \/ AfterDigest \/ ProgramSetup \/ ProgramDone \/ ReadSetup \/ ReadDone
  \/ AfterErase \/ AfterPatch \/ AfterBootable
  \/ AfterReset \/ ResetDone
  \/ StreamChunk \/ RecvSector \/ TransferFails

-----------------------------------------------------------------------------
(* The programmer (external): what firehose.c relies on.                   *)

Log(t, re)      == [t |-> t, re |-> re, v |-> "none", raw |-> FALSE, size |-> 0,
                    digest |-> "none"]
Reply(re, v)    == [Log("resp", re) EXCEPT !.v = v]
RawReply(re)    == [Reply(re, "ACK") EXCEPT !.raw = TRUE]
SizedReply(re, v) == [Reply(re, v) EXCEPT !.size = dmax]
DigestLog(re, same) ==
  [Log("log", re) EXCEPT !.digest = IF same THEN "same" ELSE "diff"]

\* Logs may come before the messages ms and after them.
Say(re, ms) ==
  \E before, behind \in 0 .. MaxLogs :
    toHost' = toHost \o [k \in 1 .. before |-> Log("log", re)] \o ms
                     \o [k \in 1 .. behind |-> Log("log", re)]

\* Before it takes data nothing more is said.
SayRaw(re, ms) ==
  \E before \in 0 .. MaxLogs :
    toHost' = toHost \o [k \in 1 .. before |-> Log("log", re)] \o ms

MayFail == fails < MaxFail /\ fails' = fails + 1

\* Its startup logs announce VIP; until then it takes nothing.
DevStart ==
  /\ dpc = "boot"
  /\ dpc' = "xml"
  /\ Say(NoExchange, IF dvip THEN <<Log("marker", NoExchange)>> ELSE <<>>)
  /\ UNCHANGED <<hostVars, dcmd, dleft, dmax, daccepted, tableVars, flash, desync,
                 toDev, late, fails, gone>>

\* Where one is in the packets of the dry run from which the tables were made: the same
\* operations, with the payload size the host begins with.  An operation is a command
\* and, if it programs, the data behind it, of which there have been "at" sectors.
Position(i) == [op |-> i, begun |-> FALSE, at |-> 0]
Packet(i, cmd, n) == [op |-> i, cmd |-> cmd, n |-> n]
PacketAt(p) ==
  LET op == ops[p.op]
  IN IF p.begun THEN Packet(p.op, "data", Lesser(HostPayload, op.n - p.at))
     ELSE Packet(p.op, op.type, CASE op.type = "configure" -> HostPayload
                                  [] op.type \in {"program", "read"} -> op.n
                                  [] OTHER -> 1)
After(p) ==
  LET at == IF p.begun THEN p.at + PacketAt(p).n ELSE 0
  IN IF ops[p.op].type = "program" /\ at < ops[p.op].n
       THEN [op |-> p.op, begun |-> TRUE, at |-> at]
       ELSE Position(p.op + 1)

\* Each packet behind the signed table is compared with the next one in the tables.
Verify(c) ==
  IF dvip /\ dtable /\ c.cmd # "table"
    THEN IF dnext.op \in DOMAIN ops /\ PacketAt(dnext) = Packet(c.re.op, c.cmd, c.n)
           THEN dnext' = After(dnext) /\ UNCHANGED dwrong
           ELSE dwrong' = TRUE /\ UNCHANGED dnext
    ELSE UNCHANGED <<dnext, dwrong>>

devRest == <<dcmd, dleft, dmax, dvip, desync>>
Sectors(c) == {c.re.op} \X (c.re.off .. c.re.off + c.n - 1)
LocksOut(c) == dvip /\ ~dtable /\ c.cmd # "table"

\* A command is refused.
DevRefuse(c) ==
  /\ c.cmd \notin {"configure", "reconfigure", "data"}
  /\ IF c.cmd \in Probes THEN UNCHANGED fails ELSE MayFail
  /\ Say(c.re, <<Reply(c.re, "NAK")>>)
  /\ UNCHANGED <<devRest, dpc, daccepted, dtable, flash>>

\* The sectors that are read, between the two responses.
Transfer(c) ==
  <<RawReply(c.re)>> \o [k \in 1 .. c.n |-> Log("data", c.re)] \o <<Reply(c.re, "ACK")>>

AnswerTo(c) ==
  \/ /\ c.cmd \in {"table", "erase", "patch", "bootable", "reset"}
     /\ Say(c.re, <<Reply(c.re, "ACK")>>)
  \/ /\ c.cmd \in {"configure", "reconfigure"}
     /\ Say(c.re, <<SizedReply(c.re, IF c.n <= dmax THEN "ACK" ELSE "NAK")>>)
  \/ /\ c.cmd = "digest"
     /\ Say(c.re, <<DigestLog(c.re, Sectors(c) \subseteq flash), Reply(c.re, "ACK")>>)
  \/ c.cmd = "program" /\ SayRaw(c.re, <<RawReply(c.re)>>)
  \/ c.cmd \in Probes \cup {"read"} /\ Say(c.re, Transfer(c))

\* A command is carried out.
DevObey(c) ==
  /\ AnswerTo(c)
  /\ dtable' = (dtable \/ c.cmd = "table")
  /\ daccepted' = IF c.cmd \in {"configure", "reconfigure"} /\ c.n <= dmax
                    THEN c.n ELSE daccepted
  /\ flash' = IF c.cmd \in {"erase", "patch"} THEN flash \cup Sectors(c) ELSE flash
  /\ dpc' = CASE c.cmd = "program" -> "in" [] c.cmd = "reset" -> "gone" [] OTHER -> dpc
  /\ IF c.cmd = "program" THEN dcmd' = c /\ dleft' = c.n ELSE UNCHANGED <<dcmd, dleft>>
  /\ UNCHANGED <<dmax, dvip, desync, fails>>

DevCommand ==
  /\ dpc = "xml"
  /\ toDev # <<>>
  /\ LET c == Head(toDev)
     IN CASE LocksOut(c) ->
               UNCHANGED <<dpc, devRest, daccepted, dtable, flash, toHost, fails>>
          [] c.cmd = "data" /\ ~LocksOut(c) ->
               /\ desync' = TRUE
               /\ UNCHANGED <<dpc, dcmd, dleft, dmax, daccepted, dvip, dtable, flash,
                              toHost, fails>>
          [] c.cmd # "data" /\ ~LocksOut(c) ->
               DevRefuse(c) \/ DevObey(c)
  /\ Verify(Head(toDev))
  /\ toDev' = IF dpc' = "gone" THEN <<>> ELSE Tail(toDev)
  /\ UNCHANGED <<hostVars, late, gone>>

\* The data of a program operation; the last of it is answered.
DevData ==
  /\ dpc = "in"
  /\ toDev # <<>>
  /\ toDev' = Tail(toDev)
  /\ LET c == Head(toDev)
         n == Lesser(c.n, dleft)
     IN /\ desync' = (desync \/ c.cmd # "data" \/ c.n > daccepted)
        /\ dleft' = dleft - n
        /\ IF n < dleft
             THEN UNCHANGED <<dpc, flash, toHost, fails>>
             ELSE /\ dpc' = "xml"
                  /\ \/ /\ flash' = flash \cup Sectors(dcmd)
                        /\ Say(dcmd.re, <<Reply(dcmd.re, "ACK")>>)
                        /\ UNCHANGED fails
                     \/ /\ MayFail
                        /\ Say(dcmd.re, <<Reply(dcmd.re, "NAK")>>)
                        /\ UNCHANGED flash
  /\ Verify(Head(toDev))
  /\ UNCHANGED <<hostVars, dcmd, dmax, daccepted, dvip, dtable, late, gone>>

\* It drops off the bus; what it was about to say may be lost.
DevGone ==
  /\ dpc # "gone"
  /\ gone < MaxGone
  /\ gone' = gone + 1
  /\ dpc' = "gone"
  /\ toDev' = <<>>
  /\ toHost' \in {toHost, <<>>}
  /\ UNCHANGED <<hostVars, dcmd, dleft, dmax, daccepted, tableVars, flash, desync,
                 late, fails>>

Device == DevStart \/ DevCommand \/ DevData

Done == hpc = "end" /\ UNCHANGED vars

Init ==
  /\ run \in Runs
  /\ opi = 1 /\ hpc = "op" /\ step = "none" /\ off = 0
  /\ resp = "none" /\ answer = NoExchange /\ rsize = 0 /\ digest = "none" /\ left = 0
  /\ payload = HostPayload /\ sector_size = FALSE
  /\ vip = run.vip /\ requires = FALSE
  /\ single = FALSE /\ tries = 0 /\ result = "none"
  /\ dpc = "boot" /\ dcmd = NoCommand /\ dleft = 0
  /\ dmax = run.payload /\ daccepted = 0
  /\ dvip \in BOOLEAN
  /\ dtable = FALSE /\ dnext = Position(1) /\ dwrong = FALSE /\ desync = FALSE
  /\ flash \in (IF run.skipblock THEN SUBSET {e \in AllEffects : ops[e[1]].type = "program"}
                             ELSE {{}})
  /\ toDev = <<>> /\ toHost = <<>>
  /\ late = 0 /\ fails = 0 /\ gone = 0

Next == Host \/ Device \/ DevGone \/ Done

\* The host never sleeps for good, and a programmer that is on the bus works.
Spec == Init /\ [][Next]_vars /\ WF_vars(Host) /\ WF_vars(Device)

-----------------------------------------------------------------------------
(* Properties.                                                             *)

\* No read gave up on an answer or on data that were still to come.
Prompt == late = 0

\* A response is never mistaken for that of another exchange: whatever
\* firehose_read() returns with ACK or NAK answers the command just written.
ResponseMatches ==
  Prompt /\ hpc \in {"after", "done"} /\ resp \in {"ACK", "NAK"} =>
    answer = Exchange(CASE step \in {"resetting", "refused"} -> "reset"
                        [] OTHER -> step)

\* Commands reach a programmer that parses XML and raw packets one that takes
\* them, none larger than the payload size it agreed to.
NoDesync == Prompt => ~desync

\* A run that reports success has left every sector, erase and patch of its operations
\* on the device, also when logs came late.
FlashComplete == Prompt /\ result = "ok" => AllEffects \subseteq flash

\* The signed table goes out once, only to a programmer that asked for it, which gets
\* no command before it; behind it come the packets of the dry run, one for one and no
\* others, as long as the programmer takes the payload size of the dry run.  None is
\* missing in the end; to a programmer that has gone setbootablestoragedrive may be,
\* whose outcome is ignored.
SessionAsPrepared ==
  /\ \A k \in DOMAIN toDev :
       IF toDev[k].cmd = "table" THEN dvip /\ ~dtable
       ELSE single /\ vip # "DISABLED" => dtable
  /\ dmax = HostPayload =>
       /\ ~dwrong
       /\ result = "ok" /\ dtable /\ toDev = <<>>
            /\ (dpc = "gone" => Prompt /\ \A i \in DOMAIN ops : ops[i].type # "bootable")
            => dnext = Position(Len(ops) + 1)

\* With prompt answers a run does what firehose_run() promises: its operations
\* take effect in order, and it succeeds only when all of them have.
\* (A run whose answers may be late is mapped to one that never begins.)
Abstract == INSTANCE FlashRun WITH
  todo <- [i \in DOMAIN ops |-> Effects(i)],
  at <- IF run.late = 0 THEN opi ELSE 1,
  present <- IF run.late = 0 THEN flash ELSE {},
  outcome <- IF run.late = 0 THEN result ELSE "none"
ImplementsFlashRun == Abstract!Spec

\* Every run comes to an end.
RunEnds == <>(hpc = "end")
=============================================================================
