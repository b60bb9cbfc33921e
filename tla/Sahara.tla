------------------------------- MODULE Sahara -------------------------------
(***************************************************************************)
(* sahara_run() of src/src/sahara.c: uploading the images a device asks    *)
(* for, or dumping the memory of a crashed one.  The device drives the     *)
(* transfer; the host answers packet by packet, and must find out by       *)
(* itself that there is no Sahara to speak because a programmer is already *)
(* running or because the driver ate the HELLO.                            *)
(*                                                                         *)
(* A handler of the host, from reading a packet to writing its answer, is  *)
(* one step; the dump of memory regions is one step per call it makes.     *)
(***************************************************************************)
EXTENDS Integers, Sequences, SequencesExt

CONSTANTS
  Sessions,     \* [provided, ramdump, requests]: what sahara_run() may be called for, namely
                \*   provided   the images it is given: image id -> length in blocks
                \*   ramdump    TRUE: it is given a ramdump path (and no images)
                \*   requests   sequences of [image, len] a device may ask for, one by one
  EHOSTDL,      \* SAHARA_ID_EHOSTDL_IMG
  Regions,      \* lengths, in blocks, of the memory regions of a crashed device
  Transports,   \* "usb", "qud" (also the auto backend)
  Kinds,        \* "edl", "crashed", "firehose", "dead": what is out there
  MaxLate,      \* bound: packets that come after the host stopped waiting
  MaxBad,       \* bound: images the device rejects, files the host cannot open or write
  MaxGone       \* bound: times the device drops off the bus or hangs

\* A device asks for something, and for no more than one programmer: the quirk below
\* (sahara_has_done_pending_quirk()) is about devices that load a single image.
RequestsOK(r) ==
  /\ r \in Seq([image : Nat, len : Nat \ {0}]) /\ r # <<>>
  /\ \A i, j \in DOMAIN r : r[i].image = EHOSTDL /\ r[j].image = EHOSTDL => i = j

ASSUME SaharaAssumption ==
  /\ \A s \in Sessions :
       /\ \A i \in DOMAIN s.provided : s.provided[i] \in Nat \ {0}
       /\ s.ramdump \in BOOLEAN
       /\ \A r \in s.requests : RequestsOK(r)
  /\ Regions \in Seq(Nat \ {0})
  /\ Transports \subseteq {"usb", "qud"}
  /\ Kinds \subseteq {"edl", "crashed", "firehose", "dead"}
  /\ {MaxLate, MaxBad, MaxGone} \subseteq Nat

VARIABLES
  \* the host
  session, transport, kind,
  hpc,          \* "run", and in a dump "table", "region", "block", "settle"
  first_read,
  result,       \* "none", "ok", "assumed" (no Sahara, no error), "failed"
  region,       \* region being dumped
  chunk,        \* blocks of it read
  dumped,       \* contents of the files written, by region
  \* the device and the link
  dpc,          \* see Device
  want,         \* images it still asks for, the current one first
  doff,         \* blocks of the current image it has
  coy,          \* it reports PENDING although nothing is missing
  booted,       \* it runs a programmer
  reset,        \* it was reset by the host
  stray,        \* it got something it had not asked for
  toDev, toHost,
  late, bad, gone

hostVars == <<hpc, first_read, result, region, chunk, dumped>>
devVars  == <<dpc, want, doff, coy, booted, reset, stray>>
counters == <<late, bad, gone>>
vars     == <<session, transport, kind, hostVars, devVars, toDev, toHost, counters>>

-----------------------------------------------------------------------------
(* The host.                                                               *)

Provided == session.provided
Ramdump  == session.ramdump
detect_firehose == ~Ramdump

\* Images are given for an upload only.
images == IF Ramdump THEN <<>> ELSE Provided

\* Variant: PENDING is always taken at its word.
DonePendingQuirkNot == FALSE

\* sahara_has_done_pending_quirk(): a programmer that is a single image.
DonePendingQuirk == ~Ramdump /\ DOMAIN Provided = {EHOSTDL}

Return(r)   == hpc' = "end" /\ result' = r
Carry       == UNCHANGED <<hpc, result>>
Send(m)     == toDev' = IF dpc = "gone" THEN toDev ELSE Append(toDev, m)
Packet(t)   == toHost # <<>> /\ Head(toHost).t = t /\ toHost' = Tail(toHost)
HelloResp   == [t |-> "HELLO_RESP"]
Reset       == [t |-> "RESET"]

\* The device has nothing to say before it hears from the host.
DeviceWaits == toDev = <<>> /\ dpc \notin {"start", "load", "table"}

StopsWaiting ==
  /\ toHost = <<>>
  /\ IF DeviceWaits THEN UNCHANGED late ELSE late < MaxLate /\ late' = late + 1

\* Nothing was heard so far that tells Sahara from Firehose.
MaybeFirehose == first_read /\ detect_firehose

\* No packet within the timeout.  Before the first one there may be no Sahara to
\* speak: over USB that is assumed, a driver that may have eaten the HELLO is
\* prodded with an unsolicited answer to it.
RunTimesOut ==
  /\ hpc = "run"
  /\ dpc # "gone"
  /\ StopsWaiting
  /\ IF ~MaybeFirehose THEN Return("failed") /\ UNCHANGED toDev
     ELSE IF transport = "qud" THEN Carry /\ Send(HelloResp)
     ELSE Return("assumed") /\ UNCHANGED toDev
  /\ UNCHANGED <<session, transport, kind, first_read, region, chunk, dumped, devVars, toHost,
                 bad, gone>>

\* The transport is gone.
RunFails ==
  /\ hpc = "run"
  /\ dpc = "gone" /\ toHost = <<>>
  /\ Return("failed")
  /\ UNCHANGED <<session, transport, kind, first_read, region, chunk, dumped, devVars, toDev,
                 toHost, counters>>

runRest == <<session, transport, kind, region, chunk, dumped, devVars, counters>>

\* The error message of a running programmer that was prodded; as anything but
\* the first packet it has no valid length.
HandleXml ==
  /\ hpc = "run" /\ Packet("xml")
  /\ Return(IF MaybeFirehose THEN "assumed" ELSE "failed")
  /\ first_read' = MaybeFirehose
  /\ UNCHANGED <<runRest, toDev>>

\* sahara_hello(): the mode the device announces is acknowledged.
HandleHello ==
  /\ hpc = "run" /\ Packet("HELLO")
  /\ first_read' = FALSE
  /\ Carry /\ Send(HelloResp)
  /\ UNCHANGED runRest

\* sahara_read(), sahara_read64(): the requested range of the requested image,
\* if there is such an image and it is that long.
HandleRead ==
  /\ hpc = "run" /\ Packet("READ_DATA")
  /\ first_read' = FALSE
  /\ LET m == Head(toHost)
     IN IF m.image \notin DOMAIN images
          THEN Return("failed") /\ Send(Reset)
          ELSE IF m.off + 1 > images[m.image] \/ dpc = "gone"
          THEN Return("failed") /\ UNCHANGED toDev
          ELSE Carry /\ Send([t |-> "DATA", image |-> m.image, off |-> m.off])
  /\ UNCHANGED runRest

\* Variant: the status is not looked at.
HandleEndOfImageUnchecked ==
  /\ hpc = "run" /\ Packet("END_OF_IMAGE")
  /\ first_read' = FALSE
  /\ Carry /\ Send([t |-> "DONE"])
  /\ UNCHANGED runRest

\* sahara_eoi()
HandleEndOfImage ==
  /\ hpc = "run" /\ Packet("END_OF_IMAGE")
  /\ first_read' = FALSE
  /\ IF Head(toHost).ok THEN Carry /\ Send([t |-> "DONE"])
                        ELSE Return("failed") /\ UNCHANGED toDev
  /\ UNCHANGED runRest

\* Variant: a device that expects more images is taken for done.
HandleDoneRespAlways ==
  /\ hpc = "run" /\ Packet("DONE_RESP")
  /\ first_read' = FALSE
  /\ Return("ok")
  /\ UNCHANGED <<runRest, toDev>>

\* sahara_done()
HandleDoneResp ==
  /\ hpc = "run" /\ Packet("DONE_RESP")
  /\ first_read' = FALSE
  /\ IF Head(toHost).complete \/ DonePendingQuirk THEN Return("ok") ELSE Carry
  /\ UNCHANGED <<runRest, toDev>>

\* Acknowledges the reset that ends a dump.
HandleResetResp ==
  /\ hpc = "run" /\ Packet("RESET_RESP")
  /\ first_read' = FALSE
  /\ IF Ramdump THEN Return("ok") ELSE Carry
  /\ UNCHANGED <<runRest, toDev>>

\* sahara_debug64(): ask for the table of regions, ...
HandleDebug ==
  /\ hpc = "run" /\ Packet("MEM_DEBUG64")
  /\ first_read' = FALSE
  /\ IF dpc = "gone" THEN Carry /\ UNCHANGED toDev
     ELSE hpc' = "table" /\ UNCHANGED result /\ Send([t |-> "MEM_READ", n |-> 0])
  /\ UNCHANGED runRest

dumpRest == <<session, transport, kind, first_read, result, devVars>>

\* ... read it, ...
ReadTable ==
  /\ hpc = "table"
  /\ \/ /\ Packet("mem")
        /\ hpc' = "region" /\ region' = 1 /\ chunk' = 0
        /\ UNCHANGED late
     \/ /\ StopsWaiting \/ (dpc = "gone" /\ toHost = <<>> /\ UNCHANGED late)
        /\ hpc' = "run"
        /\ UNCHANGED <<region, chunk, toHost>>
  /\ UNCHANGED <<dumpRest, dumped, toDev, bad, gone>>

\* Variant: what failed is tried again.
RetryBlock == hpc' = "region" /\ UNCHANGED toDev

\* ... dump region after region as far as all goes well, and reset the device.
StopDump == hpc' = "run" /\ Send(Reset)

MoreBlocks == chunk < Regions[region]

\* sahara_debug64_one(): the next block of the region, or the next region.
\* Without a ramdump path no file can be opened.
RequestBlock ==
  /\ hpc = "region"
  /\ \/ /\ region <= Len(Regions) /\ MoreBlocks /\ Ramdump
        /\ IF dpc = "gone" THEN StopDump
           ELSE hpc' = "block" /\ Send([t |-> "MEM_READ", n |-> 2])
        /\ dumped' = IF chunk = 0 THEN [dumped EXCEPT ![region] = 0] ELSE dumped
        /\ UNCHANGED <<region, chunk, bad>>
     \/ /\ region <= Len(Regions) /\ ~MoreBlocks
        /\ region' = region + 1 /\ chunk' = 0
        /\ UNCHANGED <<hpc, toDev, dumped, bad>>
     \/ /\ region > Len(Regions) \/ ~Ramdump
        /\ StopDump
        /\ UNCHANGED <<region, chunk, dumped, bad>>
     \/ /\ region <= Len(Regions) /\ chunk = 0 /\ bad < MaxBad
        /\ bad' = bad + 1
        /\ StopDump
        /\ UNCHANGED <<region, chunk, dumped>>
  /\ UNCHANGED <<dumpRest, toHost, late, gone>>

\* A read returned the rest of the block.
BlockRead == dumped[region] + 1 = 2 * (chunk + 1)

\* A block comes in two pieces; dumped counts pieces written to the file, which
\* may fail.
ReadPiece ==
  /\ hpc = "block"
  /\ \/ /\ Packet("mem")
        /\ dumped' = [dumped EXCEPT ![region] = @ + 1]
        /\ IF BlockRead THEN hpc' = "settle" ELSE UNCHANGED hpc
        /\ UNCHANGED <<late, bad, toDev>>
     \/ /\ Packet("zlp")
        /\ UNCHANGED <<hpc, dumped, late, bad, toDev>>
     \/ /\ Packet("mem") /\ bad < MaxBad /\ bad' = bad + 1
        /\ StopDump
        /\ UNCHANGED <<dumped, late>>
     \/ /\ StopsWaiting \/ (dpc = "gone" /\ toHost = <<>> /\ UNCHANGED late)
        /\ StopDump
        /\ UNCHANGED <<dumped, bad, toHost>>
  /\ UNCHANGED <<dumpRest, region, chunk, gone>>

\* Variant: the zero-length packet behind a block is left where it is.
SettleNot ==
  /\ hpc = "settle"
  /\ hpc' = "region" /\ chunk' = chunk + 1
  /\ UNCHANGED <<dumpRest, region, dumped, toDev, toHost, counters>>

\* One more read of 10 ms takes the zero-length packet that may follow, if it is
\* there by then.
Settle ==
  /\ hpc = "settle"
  /\ \/ toHost # <<>> /\ toHost' = Tail(toHost) /\ UNCHANGED late
     \/ toHost = <<>> /\ UNCHANGED <<toHost, late>>
     \/ toHost # <<>> /\ late < MaxLate /\ late' = late + 1 /\ UNCHANGED toHost
  /\ hpc' = "region" /\ chunk' = chunk + 1
  /\ UNCHANGED <<dumpRest, region, dumped, toDev, bad, gone>>

\* A zero-length packet has no valid length for the protocol.
HandleEmpty ==
  /\ hpc = "run" /\ (Packet("zlp") \/ Packet("mem"))
  /\ first_read' = FALSE
  /\ Return("failed")
  /\ UNCHANGED <<runRest, toDev>>

Host ==
  \/ RunTimesOut \/ RunFails \/ HandleXml \/ HandleHello \/ HandleRead
  \/ HandleEndOfImage \/ HandleDoneResp \/ HandleResetResp \/ HandleDebug
  \/ ReadTable \/ RequestBlock \/ ReadPiece \/ Settle \/ HandleEmpty

-----------------------------------------------------------------------------
(* The device (external), as sahara.c describes it.  dpc is                *)
(*   "start"     about to send a HELLO      "hello"  waiting for its answer *)
(*   "load"      about to ask for a block   "data"   waiting for the block  *)
(*   "eoi"       waiting for a DONE         "failed" image rejected         *)
(*   "table"     about to announce its regions                              *)
(*   "debug"     serving memory             "firehose", "dead", "gone"      *)

Say(m) == toHost' = Append(toHost, m)
devRest == <<session, transport, kind, hostVars, late, gone>>

\* The QUD driver may eat the HELLO, until the host has heard from the device.
DevHello ==
  /\ dpc = "start"
  /\ dpc' = "hello"
  /\ \/ Say([t |-> "HELLO"])
     \/ transport = "qud" /\ first_read /\ UNCHANGED toHost
  /\ UNCHANGED <<devRest, want, doff, coy, booted, reset, stray, toDev, bad>>

DevRequest ==
  /\ dpc = "load"
  /\ dpc' = "data"
  /\ Say([t |-> "READ_DATA", image |-> Head(want).image, off |-> doff])
  /\ UNCHANGED <<devRest, want, doff, coy, booted, reset, stray, toDev, bad>>

\* The table is announced; it is read like memory.
DevAnnounce ==
  /\ dpc = "table"
  /\ dpc' = "debug"
  /\ Say([t |-> "MEM_DEBUG64"])
  /\ UNCHANGED <<devRest, want, doff, coy, booted, reset, stray, toDev, bad>>

Expected(m) ==
  CASE dpc = "hello" -> m.t = "HELLO_RESP"
    [] dpc = "data"  -> m.t = "DATA" /\ m.image = Head(want).image /\ m.off = doff
    [] dpc = "eoi"   -> m.t = "DONE"
    [] dpc = "debug" -> m.t \in {"MEM_READ", "RESET"}
    [] OTHER         -> FALSE

\* The answer it was waiting for.
DevTake ==
  /\ toDev # <<>>
  /\ Expected(Head(toDev))
  /\ toDev' = Tail(toDev)
  /\ \/ /\ dpc = "hello"
        /\ dpc' = IF kind = "crashed" THEN "table" ELSE "load"
        /\ UNCHANGED <<want, doff, booted, reset, toHost, bad>>
     \/ /\ dpc = "data"
        /\ IF doff + 1 < Head(want).len
             THEN dpc' = "load" /\ doff' = doff + 1 /\ UNCHANGED <<toHost, bad>>
             ELSE /\ doff' = 0
                  /\ \/ Say([t |-> "END_OF_IMAGE", ok |-> TRUE]) /\ dpc' = "eoi" /\ UNCHANGED bad
                     \/ /\ bad < MaxBad /\ bad' = bad + 1
                        /\ Say([t |-> "END_OF_IMAGE", ok |-> FALSE]) /\ dpc' = "failed"
        /\ UNCHANGED <<want, booted, reset>>
     \/ /\ dpc = "eoi"
        /\ want' = Tail(want)
        /\ Say([t |-> "DONE_RESP", complete |-> Len(want) = 1 /\ ~coy])
        /\ IF Len(want) = 1 THEN dpc' = "firehose" /\ booted' = TRUE
                            ELSE dpc' \in {"start", "load"} /\ UNCHANGED booted
        /\ UNCHANGED <<doff, reset, bad>>
     \/ /\ dpc = "debug" /\ Head(toDev).t = "MEM_READ"
        /\ \E zlp \in {<<>>, <<[t |-> "zlp"]>>} :
             toHost' = toHost \o (IF Head(toDev).n = 0 THEN <<[t |-> "mem"]>>
                                  ELSE <<[t |-> "mem"], [t |-> "mem"]>> \o zlp)
        /\ UNCHANGED <<dpc, want, doff, booted, reset, bad>>
     \/ /\ dpc = "debug" /\ Head(toDev).t = "RESET"
        /\ Say([t |-> "RESET_RESP"])
        /\ dpc' = "gone" /\ reset' = TRUE
        /\ UNCHANGED <<want, doff, booted, bad>>
  /\ UNCHANGED <<devRest, coy, stray>>

\* Anything else.  A programmer answers what is not XML with an error message;
\* a reset is understood in any state.
DevReject ==
  /\ toDev # <<>>
  /\ dpc \notin {"start", "load", "table", "gone"}
  /\ ~Expected(Head(toDev))
  /\ toDev' = Tail(toDev)
  /\ stray' = (stray \/ (dpc \notin {"firehose", "dead"} /\ Head(toDev).t # "RESET"))
  /\ IF dpc = "firehose" THEN Say([t |-> "xml"]) ELSE UNCHANGED toHost
  /\ UNCHANGED <<devRest, dpc, want, doff, coy, booted, reset, bad>>

DevGone ==
  /\ dpc # "gone"
  /\ gone < MaxGone
  /\ gone' = gone + 1
  /\ dpc' = "gone"
  /\ toDev' = <<>>
  /\ toHost' \in {toHost, <<>>}
  /\ UNCHANGED <<session, transport, kind, hostVars, want, doff, coy, booted, reset, stray, late, bad>>

\* It hangs: nothing it was sent is lost, but nothing is answered.
DevHang ==
  /\ dpc \notin {"gone", "dead"}
  /\ gone < MaxGone
  /\ gone' = gone + 1
  /\ dpc' = "dead"
  /\ UNCHANGED <<session, transport, kind, hostVars, want, doff, coy, booted, reset, stray,
                 toDev, toHost, late, bad>>

Device == DevHello \/ DevRequest \/ DevAnnounce \/ DevTake \/ DevReject

Done == hpc = "end" /\ UNCHANGED vars

Init ==
  /\ session \in Sessions /\ transport \in Transports /\ kind \in Kinds
  /\ hpc = "run" /\ first_read = TRUE /\ result = "none"
  /\ region = 0 /\ chunk = 0 /\ dumped = [i \in DOMAIN Regions |-> -1]
  /\ dpc = IF kind \in {"edl", "crashed"} THEN "start" ELSE kind
  /\ want \in session.requests /\ doff = 0
  /\ coy \in (IF Len(want) = 1 /\ want[1].image = EHOSTDL THEN BOOLEAN ELSE {FALSE})
  /\ booted = (kind = "firehose") /\ reset = FALSE /\ stray = FALSE
  /\ toDev = <<>> /\ toHost = <<>>
  /\ late = 0 /\ bad = 0 /\ gone = 0

Next == Host \/ Device \/ DevGone \/ DevHang \/ Done

\* The host never rests while it has a step to take, and neither does a device
\* that is on the bus.
Spec == Init /\ [][Next]_vars /\ WF_vars(Host) /\ WF_vars(Device)

-----------------------------------------------------------------------------
(* Properties.                                                             *)

\* What the device asks for can be provided.
Servable ==
  \A i \in DOMAIN want :
    want[i].image \in DOMAIN Provided /\ want[i].len <= Provided[want[i].image]

\* sahara_run() hands over to Firehose only when a programmer is running: it has
\* uploaded everything the device asked for, or it was running before.  (Over USB
\* a device that says nothing, or not in time, cannot be told from a running
\* programmer.)
HandsOverToProgrammer ==
  [][~Ramdump /\ (late' = 0 \/ transport = "qud") /\ result' # result /\ result' \in {"ok", "assumed"}
       /\ dpc # "dead" /\ Servable => booted]_vars

\* The upload of images that are all there succeeds when nothing disturbs it, also
\* to a device that reports PENDING behind the only image there is, and also when the
\* driver ate the HELLO.
UploadSucceeds ==
  ~Ramdump /\ kind = "edl" /\ Servable /\ (coy => DOMAIN Provided = {EHOSTDL}) /\ hpc = "end"
      /\ gone = 0 /\ bad = 0 /\ late = 0
    => result = "ok" /\ booted

\* The device is never sent an image, a block or an answer it is not waiting for,
\* prodding included, unless a packet comes late: a HELLO and a prod may cross.
NothingStray == late = 0 => ~stray

\* A dump is over only when the device was reset, and then at most one file is
\* incomplete: the last one, with no file behind it.  One that nothing disturbed is
\* complete and reported as a success.
DumpSound ==
  Ramdump =>
    /\ result = "ok" =>
         /\ reset
         /\ \A i \in DOMAIN Regions :
              dumped[i] # 2 * Regions[i] =>
                \A j \in DOMAIN Regions : j > i => dumped[j] = -1
    /\ kind = "crashed" /\ hpc = "end" /\ transport = "usb" /\ gone = 0 /\ bad = 0 /\ late = 0 =>
         result = "ok" /\ \A i \in DOMAIN Regions : dumped[i] = 2 * Regions[i]

\* sahara_run() returns, whatever becomes of the device; only over the transports
\* whose driver eats the HELLO does it prod one that never says a word for ever.
RunReturns ==
  <>(hpc = "end") \/ (transport = "qud" /\ <>[](dpc = "dead" /\ first_read))
=============================================================================
