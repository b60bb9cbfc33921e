------------------------------ MODULE Transport ------------------------------
(***************************************************************************)
(* qdl_read() and qdl_write() (src/src/io.c) on the libusb backend         *)
(* (src/src/usb.c), where data comes in packets and a transfer ends with a *)
(* short one, and on the QUD backend (src/src/qud.c), where it is a stream *)
(* of bytes.  Callers read either XML, of which they may push back what    *)
(* follows the message, or raw data of a known length.                     *)
(***************************************************************************)
EXTENDS Integers, Sequences, SequencesExt

CONSTANTS
  Backends,     \* "usb", "qud", and "auto", which is libusb opened by auto_open()
  ChunkArgs,    \* --out-chunk-size, 0 if not given
  DefaultChunk,
  MaxPkt,       \* wMaxPacketSize of both endpoints
  MsgLens,      \* lengths of what the device sends
  XmlLen,       \* buffer of an XML read
  RawLens,      \* lengths of raw reads
  WriteLens,    \* lengths of writes
  MaxMsgs, MaxWrites, \* bounds: messages and writes of a run
  MaxCut,       \* bound: transfers cut short by the timeout
  MaxRace       \* bound: reads that complete while they are cancelled

ASSUME TransportAssumption ==
  /\ {MaxPkt, DefaultChunk, XmlLen} \subseteq Nat \ {0} /\ DefaultChunk % MaxPkt = 0
  /\ MsgLens \cup RawLens \cup WriteLens \subseteq Nat \ {0} /\ ChunkArgs \subseteq Nat
  /\ {MaxMsgs, MaxWrites, MaxCut, MaxRace} \subseteq Nat

VARIABLES
  backend,
  out_chunk_size,
  zlp,          \* the device ends a transfer of full packets with an empty one
  wire,         \* packets on their way to the host
  sent,         \* history: bytes the device has sent
  msgs,
  hpc,          \* "open", "idle", "in", "give", "out", "zlp", "failed"
  mode, len,    \* the read in progress: "xml" or "raw", length of the buffer
  buf,          \* data of the transfer in progress
  expect_zlp,
  pending,      \* pending_buf
  lost,         \* history: bytes read by a transfer that was given up
  got,          \* history: bytes the callers have consumed
  empty,        \* the last read returned 0
  wdata,        \* data still to be written
  wlen,         \* length of the write
  dmsg, dmsgs,  \* what the device makes of it: message in progress, complete ones
  wrote,        \* history: successful writes
  cut, race

inVars  == <<wire, sent, msgs, mode, len, buf, expect_zlp, pending, lost, got, empty>>
outVars == <<wdata, wlen, dmsg, dmsgs, wrote>>
fixed   == <<backend, zlp>>
vars    == <<fixed, out_chunk_size, inVars, outVars, hpc, cut, race>>

Usb  == backend # "qud"
Low(a, b) == IF a < b THEN a ELSE b

-----------------------------------------------------------------------------
(* Opening.                                                                *)

\* usb_open_device(): a size that would break packets is replaced.
OpenedChunk(arg) ==
  CASE arg = 0 -> DefaultChunk
    [] arg # 0 /\ arg % MaxPkt # 0 -> MaxPkt
    [] OTHER -> arg

\* auto_bind_inner() sets the size once the device is open.
ChunkSize(arg) == IF backend = "auto" /\ arg # 0 THEN arg ELSE OpenedChunk(arg)

Open ==
  /\ hpc = "open" /\ hpc' = "idle"
  /\ \E arg \in ChunkArgs : out_chunk_size' = ChunkSize(arg)
  /\ UNCHANGED <<fixed, inVars, outVars, cut, race>>

-----------------------------------------------------------------------------
(* Reading.                                                                *)

Idle == hpc = "idle"

Begin(m, n) ==
  /\ Idle /\ mode' = m /\ len' = n
  /\ UNCHANGED <<fixed, out_chunk_size, wire, sent, msgs, lost, got, outVars, race>>

\* What was pushed back comes first, and alone.
ReadPending ==
  /\ pending # <<>>
  /\ \E mn \in {<<"xml", XmlLen>>} \cup ({"raw"} \X RawLens) :
       /\ Begin(mn[1], mn[2])
       /\ buf' = SubSeq(pending, 1, Low(mn[2], Len(pending)))
       /\ pending' = SubSeq(pending, mn[2] + 1, Len(pending))
  /\ hpc' = "give" /\ empty' = FALSE
  /\ UNCHANGED <<expect_zlp, cut>>

ReadDevice ==
  /\ pending = <<>>
  /\ \E mn \in {<<"xml", XmlLen>>} \cup ({"raw"} \X RawLens) : Begin(mn[1], mn[2])
  /\ buf' = <<>> /\ hpc' = "in"
  /\ UNCHANGED <<expect_zlp, pending, empty, cut>>

\* Variant: an empty packet is for the caller.
SwallowsNever == FALSE

\* usb_read(): an empty packet that ends a transfer read before is not for the caller.
Swallows == expect_zlp /\ buf = <<>>

\* A transfer that filled the buffer with full packets may be followed by an empty one.
MayBeFollowed(b) == Len(b) > 0 /\ Len(b) = len /\ Len(b) % MaxPkt = 0

Return(b) ==
  /\ hpc' = "give" /\ buf' = b /\ empty' = (b = <<>>)
  /\ expect_zlp' = (Usb /\ MayBeFollowed(b))

\* A packet arrives; the transfer ends with a short one or when the buffer is full.  One
\* that does not fit is an error, after which nothing more is read.
UsbPacket ==
  /\ hpc = "in" /\ Usb /\ wire # <<>>
  /\ LET pkt == Head(wire)
         b == buf \o pkt
     IN CASE pkt = <<>> /\ Swallows ->
               expect_zlp' = FALSE /\ UNCHANGED <<hpc, buf, empty>>
          [] Len(b) > len ->
               hpc' = "failed" /\ expect_zlp' = FALSE /\ UNCHANGED <<buf, empty>>
          [] ~(pkt = <<>> /\ Swallows) /\ Len(b) <= len /\ (Len(pkt) < MaxPkt \/ Len(b) = len) ->
               Return(b)
          [] OTHER -> buf' = b /\ UNCHANGED <<hpc, empty, expect_zlp>>
  /\ wire' = Tail(wire)
  /\ UNCHANGED <<fixed, out_chunk_size, sent, msgs, mode, len, pending, lost, got, outVars, cut, race>>

NothingCame == hpc' = "idle"

\* The time is up: what there is is returned, if there is any.
UsbTimeout ==
  /\ hpc = "in" /\ Usb
  /\ IF buf = <<>>
       THEN NothingCame /\ UNCHANGED <<buf, empty, expect_zlp, cut>>
       ELSE /\ IF wire = <<>> THEN UNCHANGED cut ELSE cut < MaxCut /\ cut' = cut + 1
            /\ Return(buf)
  /\ UNCHANGED <<fixed, out_chunk_size, wire, sent, msgs, mode, len, pending, lost, got, outVars, race>>

\* win_overlapped_io(): whatever the driver has, up to the length.
Stream == IF wire = <<>> THEN <<>> ELSE wire[1]

QudRead ==
  /\ hpc = "in" /\ ~Usb /\ Stream # <<>>
  /\ \E n \in 1 .. Low(len, Len(Stream)) :
       /\ wire' = <<SubSeq(Stream, n + 1, Len(Stream))>>
       /\ Return(SubSeq(Stream, 1, n))
  /\ UNCHANGED <<fixed, out_chunk_size, sent, msgs, mode, len, pending, lost, got, outVars, cut, race>>

\* A read that is given up is cancelled; what it has read by then is dropped.
QudTimeout ==
  /\ hpc = "in" /\ ~Usb /\ hpc' = "idle"
  /\ \/ UNCHANGED <<wire, lost, race>>
     \/ /\ race < MaxRace /\ race' = race + 1 /\ Stream # <<>>
        /\ lost' = lost \cup Range(SubSeq(Stream, 1, Low(len, Len(Stream))))
        /\ wire' = <<SubSeq(Stream, Low(len, Len(Stream)) + 1, Len(Stream))>>
  /\ UNCHANGED <<fixed, out_chunk_size, sent, msgs, mode, len, buf, expect_zlp, pending, got,
                 empty, outVars, cut>>

\* Variant: what is pending is replaced with all that was read.
PushedBackAll(rest) == buf

\* qdl_push_back(): behind what is pending already.
PushedBack(rest) == pending \o rest

\* The caller consumes what it has read, or pushes back what follows the XML.
Give ==
  /\ hpc = "give" /\ hpc' = "idle"
  /\ \E n \in 0 .. Len(buf) :
       /\ n < Len(buf) => mode = "xml" /\ n > 0
       /\ got' = got \o SubSeq(buf, 1, n)
       /\ pending' = IF n < Len(buf) THEN PushedBack(SubSeq(buf, n + 1, Len(buf))) ELSE pending
  /\ UNCHANGED <<fixed, out_chunk_size, wire, sent, msgs, mode, len, buf, expect_zlp, lost, empty,
                 outVars, cut, race>>

-----------------------------------------------------------------------------
(* Writing.                                                                *)

\* What the device makes of n more bytes: messages end with a packet that is not full.
Taken(n) ==
  LET all == dmsg + n
  IN IF n % MaxPkt = 0 /\ n > 0
       THEN dmsg' = all /\ UNCHANGED dmsgs
       ELSE dmsg' = 0 /\ dmsgs' = Append(dmsgs, all)

StartWrite ==
  /\ Idle /\ Len(dmsgs) < MaxWrites
  /\ \E n \in WriteLens : wdata' = n /\ wlen' = n
  /\ hpc' = "out"
  /\ UNCHANGED <<fixed, out_chunk_size, inVars, dmsg, dmsgs, wrote, cut, race>>

WriteDone == hpc' = "idle" /\ wrote' = Append(wrote, wlen)

\* The driver of QUD takes everything, and cuts it into packets.
QudWrite ==
  /\ hpc = "out" /\ ~Usb
  /\ wdata' = 0
  /\ dmsgs' = Append(dmsgs, wlen)
  /\ WriteDone
  /\ UNCHANGED <<fixed, out_chunk_size, inVars, dmsg, wlen, cut, race>>

\* usb_write(): as much as fits a transfer, or less when the time is up; some number of
\* full packets then.
UsbWrite ==
  /\ hpc = "out" /\ Usb /\ wdata > 0
  /\ LET xfer == Low(out_chunk_size, wdata)
     IN \/ /\ Taken(xfer) /\ wdata' = wdata - xfer /\ UNCHANGED <<cut, hpc>>
        \/ /\ cut < MaxCut /\ cut' = cut + 1
           /\ \E k \in 0 .. xfer - 1 :
                /\ k % MaxPkt = 0
                /\ IF k = 0 THEN hpc' = "failed" /\ UNCHANGED <<dmsg, dmsgs>>
                            ELSE Taken(k) /\ UNCHANGED hpc
                /\ wdata' = wdata - k
  /\ UNCHANGED <<fixed, out_chunk_size, inVars, wlen, wrote, race>>

\* Variant: an empty packet only if the write is one full chunk.
NeedsZlpChunk == wlen = out_chunk_size

\* A write of full packets is ended by an empty one.
NeedsZlp == wlen % MaxPkt = 0

UsbWriteEnd ==
  /\ hpc = "out" /\ Usb /\ wdata = 0
  /\ IF NeedsZlp THEN Taken(0) ELSE UNCHANGED <<dmsg, dmsgs>>
  /\ WriteDone
  /\ UNCHANGED <<fixed, out_chunk_size, inVars, wdata, wlen, cut, race>>

-----------------------------------------------------------------------------
(* The device (external).                                                  *)

\* The next n bytes: those that are sent are numbered.
Fresh(n) == [i \in 1 .. n |-> Len(sent) + i]

\* A message of n bytes in packets.
Packets(n) ==
  LET full == n \div MaxPkt
      byte(i) == Len(sent) + i
      pkt(i, k) == [j \in 1 .. k |-> byte((i - 1) * MaxPkt + j)]
  IN [i \in 1 .. full |-> pkt(i, MaxPkt)]
       \o (IF n % MaxPkt # 0 THEN <<pkt(full + 1, n % MaxPkt)>>
           ELSE IF zlp THEN <<<<>>>> ELSE <<>>)

\* It sends when it likes, but not more than the driver holds.
DevSend ==
  /\ hpc # "open" /\ msgs < MaxMsgs /\ msgs' = msgs + 1
  /\ \E n \in MsgLens :
       /\ sent' = sent \o Fresh(n)
       /\ wire' = IF Usb THEN wire \o Packets(n) ELSE <<Stream \o Fresh(n)>>
  /\ UNCHANGED <<fixed, out_chunk_size, hpc, mode, len, buf, expect_zlp, pending, lost, got,
                 empty, outVars, cut, race>>

Init ==
  /\ backend \in Backends /\ zlp \in BOOLEAN /\ out_chunk_size = 0
  /\ wire = <<>> /\ sent = <<>> /\ msgs = 0 /\ hpc = "open"
  /\ mode = "raw" /\ len = 0 /\ buf = <<>> /\ expect_zlp = FALSE /\ pending = <<>>
  /\ lost = {} /\ got = <<>> /\ empty = FALSE /\ wdata = 0 /\ wlen = 0 /\ dmsg = 0 /\ dmsgs = <<>>
  /\ wrote = <<>> /\ cut = 0 /\ race = 0

Reads  == ReadPending \/ ReadDevice \/ UsbPacket \/ UsbTimeout \/ QudRead \/ QudTimeout \/ Give
Writes == StartWrite \/ QudWrite \/ UsbWrite \/ UsbWriteEnd
Next   == Open \/ Reads \/ Writes \/ DevSend

\* Transfers have timeouts, and nothing makes one cut short or race.
Progress == Open \/ UsbPacket \/ UsbTimeout \/ QudRead \/ QudTimeout \/ Give
              \/ QudWrite \/ UsbWrite \/ UsbWriteEnd

Spec == Init /\ [][Next]_vars /\ WF_vars(Progress /\ UNCHANGED <<cut, race>>)

-----------------------------------------------------------------------------
(* Properties.                                                             *)

\* Callers get the bytes the device sent, each once and in order, through packets,
\* short reads, empty packets and pushing back; all of them, but for what arrives
\* while a read is cancelled.
Contract == INSTANCE ByteStream
ReadsStream == Contract!Spec

\* A read that returns nothing is never due to the end of a message that has been read:
\* the Sahara loop takes it for a malformed packet.  (No transfer was cut short.)
NoPhantom == hpc = "give" /\ cut = 0 => ~empty

\* The device takes each successful write for one message of that length.
WritesFramed == hpc = "idle" => dmsgs = wrote /\ dmsg = 0

\* So it does whenever chunks end where packets do.
ChunksFramed == out_chunk_size % MaxPkt = 0 => WritesFramed

=============================================================================
