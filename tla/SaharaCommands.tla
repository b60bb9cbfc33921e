--------------------------- MODULE SaharaCommands ---------------------------
(***************************************************************************)
(* The Sahara subcommands that need no image: sahara_device_reset() and    *)
(* sahara_chipinfo() of src/src/sahara.c, as `qdl reset` and `qdl          *)
(* chipinfo` run them one after the other on the same device, which keeps  *)
(* its state and what it has sent from one command to the next.            *)
(*                                                                         *)
(* The host's steps are the reads that may block: each takes what came, or *)
(* gives up waiting, and writes what the code writes before the next read. *)
(***************************************************************************)
EXTENDS Integers, Sequences, SequencesExt

CONSTANTS
  Runs,         \* sequences over {"reset", "chipinfo"}: the commands given
  Devices,      \* what is out there: records [kind, version, command, strict, tears]
  Transports,   \* "usb", "qud" (also the auto backend)
  Retries,      \* SAHARA_RESET_RETRIES
  MaxLate,      \* bound: packets that come after the host stopped waiting
  MaxBad,       \* bound: answers with a wrong length, or cut short
  MaxGone       \* bound: times the device drops off the bus or hangs

ASSUME SaharaCommandsAssumption ==
  /\ Runs \subseteq Seq({"reset", "chipinfo"}) \ {<<>>}
  /\ Retries \in Nat /\ Retries >= 2  \* one packet of a crashed device may cross a reset
  /\ {MaxLate, MaxBad, MaxGone} \subseteq Nat

VARIABLES
  transport, device, run,
  \* the host
  nth,          \* number of the command in run
  hpc,          \* the read it is in, see Host
  version,      \* Sahara version, as the HELLO told or as assumed
  tries,        \* resets sent
  item,         \* number of the client command in ClientCmds
  got,          \* client command -> what its payload is shown from
  rets,         \* return values, one per command
  \* the device and the link
  dpc,          \* see Device
  toDev, toHost,
  late, bad, gone

setup    == <<transport, device, run>>
hostVars == <<nth, hpc, version, tries, item, got, rets>>
counters == <<late, bad, gone>>
vars     == <<setup, hostVars, dpc, toDev, toHost, counters>>

Cmd == run[nth]

-----------------------------------------------------------------------------
(* The host.                                                               *)

Up == dpc # "down"

\* qdl_write(); its failure is only looked at where Up is.
SendAll(s) == toDev' = IF Up THEN toDev \o s ELSE toDev

HelloResp(v, mode) == [t |-> "HELLO_RESP", v |-> v, mode |-> mode]

\* qdl_read() returns a packet.
Got == toHost # <<>> /\ toHost' = Tail(toHost) /\ UNCHANGED late

\* The packet, where one has been read.
Read == Head(toHost)

\* qdl_read() returns -ETIMEDOUT: nothing is to be expected, or it comes too late.
DeviceWaits == toDev = <<>> /\ dpc \notin {"start", "load", "table", "resetting"}

TimesOut ==
  /\ Up
  /\ toHost = <<>>
  /\ IF DeviceWaits THEN UNCHANGED late ELSE late < MaxLate /\ late' = late + 1
  /\ UNCHANGED toHost

\* qdl_read() returns another error.
ReadFails == ~Up /\ toHost = <<>> /\ UNCHANGED <<toHost, late>>

\* The command returns.  The next one, if any, starts with its first read; a device
\* that is on its way through a reset is not followed.
Return(r) ==
  /\ rets' = Append(rets, r)
  /\ nth' = nth + 1
  /\ hpc' = IF nth < Len(run) /\ Up /\ ~(Cmd = "reset" /\ r = 0) THEN "first" ELSE "end"

Goto(l) == hpc' = l /\ UNCHANGED <<nth, rets>>

rest == <<setup, dpc, bad, gone>>

\* The first read came back without a packet: over USB a reset prods the device as
\* well, chip information needs a driver that may have eaten the HELLO.
FirstReadEmpty ==
  /\ hpc = "first"
  /\ \/ /\ TimesOut
        /\ LET mode == IF Cmd = "reset" THEN "image" ELSE "command"
           IN IF Cmd = "reset" \/ transport = "qud"
                THEN /\ SendAll(<<HelloResp(2, mode)>>)
                     /\ Goto(IF Cmd = "reset" THEN "prodded" ELSE "ready")
                ELSE Return(-1) /\ UNCHANGED toDev
     \/ ReadFails /\ Return(-1) /\ UNCHANGED toDev
  /\ version' = 2
  /\ UNCHANGED <<rest, tries, item, got>>

\* The mode a HELLO is answered with: a reset is not valid while an image transfer is
\* pending, a crashed device takes it anyway.
ModeFor(m) ==
  IF Cmd = "reset" /\ m.mode = "debug" THEN "debug" ELSE "command"

Reset == [t |-> "RESET"]

ResetNow == SendAll(<<Reset>>) /\ tries' = 1 /\ Goto("resent")

\* qdl_reset_run(): a programmer is reset by firehose_reset() instead, which first
\* reads what the programmer has said.
FallBack == SendAll(<<[t |-> "POWER"]>>) /\ Goto("power")

\* The first packet: XML of a running programmer, the HELLO, or a packet of an
\* earlier session.
FirstRead ==
  /\ hpc = "first"
  /\ Got
  /\ CASE Read.t = "xml" ->
            /\ IF Cmd = "reset" THEN FallBack ELSE Return(-1) /\ UNCHANGED toDev
            /\ UNCHANGED <<tries, version>>
       [] Read.t = "HELLO" ->
            LET answer == HelloResp(Read.v, ModeFor(Read))
            IN /\ version' = Read.v
               /\ IF answer.mode = "debug"
                    THEN SendAll(<<answer, Reset>>) /\ tries' = 1 /\ Goto("resent")
                    ELSE SendAll(<<answer>>) /\ Goto("ready") /\ UNCHANGED tries
       [] OTHER ->
            /\ IF Cmd = "reset" THEN ResetNow
               ELSE Return(-1) /\ UNCHANGED <<tries, toDev>>
            /\ UNCHANGED <<version>>
  /\ UNCHANGED <<rest, item, got>>

\* Variant: what does not answer Sahara must be a programmer.
ProddedAssume ==
  /\ hpc = "prodded"
  /\ TimesOut \/ ReadFails \/ Got
  /\ FallBack
  /\ UNCHANGED <<rest, version, tries, item, got>>

\* What the unsolicited HELLO response brought: a programmer identifies itself with
\* an error message, anything else is left to the reset.
Prodded ==
  /\ hpc = "prodded"
  /\ \/ Got /\ IF Read.t = "xml" THEN FallBack /\ UNCHANGED tries ELSE ResetNow
     \/ (TimesOut \/ ReadFails) /\ ResetNow
  /\ UNCHANGED <<rest, version, item, got>>

\* The answer of the programmer, between its other messages.
Power ==
  /\ hpc = "power"
  /\ \/ Got /\ IF Read.t = "ack" THEN Return(0) ELSE UNCHANGED <<hpc, nth, rets>>
     \/ (TimesOut \/ ReadFails) /\ Return(-1)
  /\ UNCHANGED <<rest, version, tries, item, got, toDev>>

\* The client commands sahara_command_info() tries, in order.
ClientCmds == IF version < 3 THEN <<"serial", "hwid", "pkhash">>
                             ELSE <<"serial", "chipid", "pkhash">>

Execute(i) == [t |-> "EXECUTE", c |-> ClientCmds[i]]

\* Command mode was asked for.  The reset goes ahead whatever the answer.
Ready ==
  /\ hpc = "ready"
  /\ \/ /\ Got
        /\ IF Cmd = "reset" THEN ResetNow /\ UNCHANGED <<item, got>>
           ELSE /\ UNCHANGED tries
                /\ IF Read.t = "CMD_READY"
                     THEN /\ item' = 1 /\ got' = [c \in {} |-> ""]
                          /\ SendAll(<<Execute(1)>>)
                          /\ Goto("exec")
                     ELSE Return(-1) /\ UNCHANGED <<item, got, toDev>>
     \/ /\ TimesOut \/ ReadFails
        /\ IF Cmd = "reset" THEN ResetNow ELSE Return(-1) /\ UNCHANGED <<tries, toDev>>
        /\ UNCHANGED <<item, got>>
  /\ UNCHANGED <<rest, version>>

SwitchMode == [t |-> "SWITCH_MODE"]

\* Variant: the device is left in command mode.
NextItemStay(g) ==
  IF item < 3
    THEN item' = item + 1 /\ SendAll(<<Execute(item + 1)>>) /\ Goto("exec")
    ELSE UNCHANGED <<item, toDev>> /\ Return(IF DOMAIN g = {} THEN -1 ELSE 0)

\* sahara_command_info() after one client command: the next one, or back to image
\* transfer.  g is what was learnt so far.
NextItem(g) ==
  IF item < 3
    THEN item' = item + 1 /\ SendAll(<<Execute(item + 1)>>) /\ Goto("exec")
    ELSE /\ item' = 0 /\ SendAll(<<SwitchMode>>)
         /\ Return(IF DOMAIN g = {} THEN -1 ELSE 0)

\* EXECUTE_RESP with a length that fits the buffer; whose answer it is is not checked.
GoodLength(m) == m.t = "EXECUTE_RESP" /\ m.len > 0

\* sahara_command_exec(): the length of the answer, ...
ExecResp ==
  /\ hpc = "exec"
  /\ \/ /\ Got
        /\ IF GoodLength(Read) /\ Up
             THEN /\ SendAll(<<[t |-> "EXECUTE_DATA", c |-> ClientCmds[item]]>>)
                  /\ Goto("payload") /\ UNCHANGED item
             ELSE NextItem(got)
     \/ (TimesOut \/ ReadFails) /\ NextItem(got)
  /\ UNCHANGED <<rest, version, tries, got>>

\* Variant: a read that returns nothing ends the answer.
ExecDataShort ==
  /\ hpc = "payload"
  /\ \/ /\ Got
        /\ LET g == [x \in DOMAIN got \cup {ClientCmds[item]} |->
                       IF x = ClientCmds[item] THEN Read ELSE got[x]]
           IN got' = g /\ NextItem(g)
     \/ (TimesOut \/ ReadFails) /\ NextItem(got) /\ UNCHANGED got
  /\ UNCHANGED <<rest, version, tries>>

\* ... and the answer, in as many reads as it takes (one is enough to tell a complete
\* payload from one cut short by silence or a zero-length packet).
ExecData ==
  /\ hpc = "payload"
  /\ \/ /\ Got
        /\ IF Read.t # "zlp"
             THEN LET c == ClientCmds[item]
                      g == [x \in DOMAIN got \cup {c} |->
                              IF x = c THEN Read ELSE got[x]]
                  IN got' = g /\ NextItem(g)
             ELSE NextItem(got) /\ UNCHANGED got
     \/ (TimesOut \/ ReadFails) /\ NextItem(got) /\ UNCHANGED got
  /\ UNCHANGED <<rest, version, tries>>

\* After a RESET was sent: done with resending, or another packet crossed it.
Resend ==
  IF tries < Retries
    THEN SendAll(<<Reset>>) /\ tries' = tries + 1 /\ UNCHANGED <<nth, rets, hpc>>
    ELSE Return(-1) /\ UNCHANGED <<tries, toDev>>

ResetSent ==
  /\ hpc = "resent"
  /\ \/ /\ Got
        /\ CASE Read.t = "RESET_RESP"   -> Goto("verify") /\ UNCHANGED <<tries, toDev>>
             [] Read.t = "END_OF_IMAGE" -> Return(-1) /\ UNCHANGED <<tries, toDev>>
             [] OTHER                           -> Resend
     \/ TimesOut /\ Resend
     \/ ReadFails /\ Goto("verify") /\ UNCHANGED <<tries, toDev>>
  /\ UNCHANGED <<rest, version, item, got>>

\* Variant: the acknowledgment is proof enough.
VerifyNot ==
  /\ hpc = "verify"
  /\ Return(0)
  /\ UNCHANGED <<rest, version, tries, item, got, toDev, toHost, late>>

\* Only the end of the transport proves the reset.
Verify ==
  /\ hpc = "verify"
  /\ \/ (TimesOut \/ Got) /\ Return(-1)
     \/ ReadFails /\ Return(0)
  /\ UNCHANGED <<rest, version, tries, item, got, toDev>>

Host ==
  \/ FirstReadEmpty \/ FirstRead \/ Prodded \/ Power \/ Ready \/ ExecResp \/ ExecData
  \/ ResetSent \/ Verify

-----------------------------------------------------------------------------
(* The device (external), as the comments of sahara.c describe it.  dpc is *)
(*   "start"    about to send a HELLO     "hello"    waiting for its answer *)
(*   "load"     about to ask for an image "image"    waiting for it         *)
(*   "table"    about to announce memory  "debug"    serving memory         *)
(*   "command"  in command mode           "failed"   refused command mode   *)
(*   "firehose" running a programmer      "powered"  which takes its time   *)
(*   "resetting", "down", and "dead": on the bus, without a session         *)

Say(m) == toHost' = Append(toHost, m)
devRest == <<setup, hostVars, late>>

\* The QUD driver may eat the HELLO.
DevHello ==
  /\ dpc = "start" /\ dpc' = "hello"
  /\ \/ Say([t |-> "HELLO", v |-> device.version,
               mode |-> IF device.kind = "crashed" THEN "debug" ELSE "image"])
     \/ transport = "qud" /\ UNCHANGED toHost
  /\ UNCHANGED <<devRest, toDev, bad, gone>>

\* What crosses a reset that is sent right behind the HELLO response.
DevAsk ==
  /\ \/ dpc = "load"  /\ dpc' = "image" /\ Say([t |-> "READ_DATA"])
     \/ dpc = "table" /\ dpc' = "debug" /\ Say([t |-> "MEM_DEBUG64"])
  /\ UNCHANGED <<devRest, toDev, bad, gone>>

\* A strict device takes a reset only where it is valid; one that tears its session
\* down acknowledges it and stays.
DevReset ==
  IF device.strict /\ dpc \notin {"command", "debug"}
    THEN Say([t |-> "END_OF_IMAGE"]) /\ UNCHANGED dpc
    ELSE Say([t |-> "RESET_RESP"]) /\ dpc' = IF device.tears THEN "dead" ELSE "resetting"

Supported == {"serial", "pkhash"} \cup {IF device.version < 3 THEN "hwid" ELSE "chipid"}

\* A client command: refused, or answered with a length; its payload: complete or not.
DevExecute(m) ==
  \/ /\ m.t = "EXECUTE"
     /\ \/ m.c \in Supported /\ Say([t |-> "EXECUTE_RESP", c |-> m.c, len |-> 1]) /\ UNCHANGED bad
        \/ m.c \notin Supported /\ Say([t |-> "END_OF_IMAGE"]) /\ UNCHANGED bad
        \/ bad < MaxBad /\ bad' = bad + 1 /\ Say([t |-> "EXECUTE_RESP", c |-> m.c, len |-> 0])
  \/ /\ m.t = "EXECUTE_DATA"
     /\ \/ Say([t |-> "data", c |-> m.c]) /\ UNCHANGED bad
        \/ bad < MaxBad /\ bad' = bad + 1 /\ toHost' \in {toHost, Append(toHost, [t |-> "zlp"])}

DevTake ==
  /\ toDev # <<>>
  /\ dpc \notin {"start", "load", "table", "down"}
  /\ toDev' = Tail(toDev)
  /\ LET m == Head(toDev)
     IN CASE dpc \in {"dead", "resetting", "powered"} -> UNCHANGED <<dpc, toHost, bad>>
          [] dpc = "firehose" ->
               /\ IF m.t = "POWER" THEN Say([t |-> "ack"]) /\ dpc' = "powered"
                                   ELSE Say([t |-> "xml"]) /\ UNCHANGED dpc
               /\ UNCHANGED bad
          [] m.t = "RESET" /\ dpc \notin {"dead", "resetting", "powered", "firehose"} ->
               DevReset /\ UNCHANGED bad
          [] m.t = "HELLO_RESP" /\ dpc = "hello" ->
               /\ CASE m.mode = "command" /\ device.command ->
                         dpc' = "command" /\ Say([t |-> "CMD_READY"])
                    [] m.mode = "command" /\ ~device.command ->
                         dpc' = "failed" /\ Say([t |-> "END_OF_IMAGE"])
                    [] m.mode # "command" ->
                         /\ dpc' = IF device.kind = "crashed" THEN "table" ELSE "load"
                         /\ UNCHANGED toHost
               /\ UNCHANGED bad
          [] m.t \in {"EXECUTE", "EXECUTE_DATA"} /\ dpc = "command" ->
               DevExecute(m) /\ UNCHANGED dpc
          [] m.t = "SWITCH_MODE" /\ dpc = "command" ->
               dpc' = "start" /\ UNCHANGED <<toHost, bad>>
          [] OTHER -> UNCHANGED <<dpc, toHost, bad>>
  /\ UNCHANGED <<devRest, gone>>

\* It goes down and may take what it said along; a programmer waits 10 s first.
DevDown ==
  /\ \/ dpc = "resetting" /\ toHost' \in {toHost, <<>>}
     \/ dpc = "powered" /\ hpc # "power" /\ UNCHANGED toHost
  /\ dpc' = "down" /\ toDev' = <<>>
  /\ UNCHANGED <<devRest, bad, gone>>

DevGone ==
  /\ dpc # "down" /\ gone < MaxGone /\ gone' = gone + 1
  /\ dpc' = "down" /\ toDev' = <<>> /\ toHost' \in {toHost, <<>>}
  /\ UNCHANGED <<devRest, bad>>

\* A programmer that has taken the power command gets there.
DevHang ==
  /\ dpc \notin {"down", "dead", "powered"} /\ gone < MaxGone /\ gone' = gone + 1
  /\ dpc' = "dead"
  /\ UNCHANGED <<devRest, toDev, toHost, bad>>

Device == DevHello \/ DevAsk \/ DevTake \/ DevDown

-----------------------------------------------------------------------------

Done == hpc = "end" /\ UNCHANGED vars

\* A programmer may have messages that nobody has read.
Init ==
  /\ transport \in Transports /\ device \in Devices /\ run \in Runs
  /\ nth = 1 /\ hpc = "first" /\ version = 0 /\ tries = 0 /\ item = 0
  /\ got = [c \in {} |-> ""] /\ rets = <<>>
  /\ dpc = (IF device.kind \in {"edl", "crashed"} THEN "start" ELSE device.kind)
  /\ toDev = <<>>
  /\ toHost \in (IF device.kind = "firehose" THEN {<<>>, <<[t |-> "xml"]>>} ELSE {<<>>})
  /\ late = 0 /\ bad = 0 /\ gone = 0

Next == Host \/ Device \/ DevGone \/ DevHang \/ Done

\* Every read of the host has a timeout; a device on the bus does its work.
Spec == Init /\ [][Next]_vars /\ WF_vars(Host) /\ WF_vars(Device)

-----------------------------------------------------------------------------
(* Properties.                                                             *)

Undisturbed == late = 0 /\ bad = 0 /\ gone = 0

\* A reset that returns 0 has happened: the device has left the bus, or a programmer
\* has taken the power command.  An acknowledgment alone is never enough.
ResetIsReal ==
  [][rets' # rets /\ Cmd = "reset" /\ rets'[nth] = 0 => dpc \in {"down", "powered"}]_vars

\* The Firehose power command is sent only to a programmer, never to a device that
\* is silent, crashed or speaks Sahara, prodding, late packets and hang-ups included.
PowerOnlyToProgrammer == [][hpc' = "power" => device.kind = "firehose"]_vars

\* On a device that supports command mode, is not disturbed and whose HELLO is seen,
\* every command of a sequence succeeds: chip information leaves the device as it
\* found it.  A programmer is reset, and has no chip information.
CommandsSucceed ==
  hpc = "end" /\ Undisturbed /\ transport = "usb" /\ ~device.tears
      /\ \/ device.kind = "edl" /\ device.command
         \/ device.kind = "crashed" /\ run = <<"reset">>
         \/ device.kind = "firehose"
    => \A i \in DOMAIN rets :
         rets[i] = IF run[i] = "chipinfo" /\ device.kind = "firehose" THEN -1 ELSE 0

\* What is shown as the answer to a client command is the payload the device sent for
\* that command, also after commands it refused, cut short or announced wrongly; as
\* long as it answers in time.
IdentityMatches ==
  late = 0 => \A c \in DOMAIN got : got[c].t = "data" /\ got[c].c = c

=============================================================================
