------------------------------ MODULE RawIoProof ------------------------------
(***************************************************************************)
(* Proofs about RawIo: what a request reports is what it did, and it       *)
(* leaves no response behind, for any size of the LUN and of the payload,  *)
(* any requests, and any number of refusals.                               *)
(***************************************************************************)
EXTENDS RawIo, SequenceTheorems, TLAPS

Steps    == {"getstorageinfo", "read", "program", "finish", "power"}
XmlMsgs  == [m : {"log", "info", "ACK", "NAK"}, rawmode : BOOLEAN]
Msgs     == XmlMsgs \cup [m : {"data"}, val : Int]
OnLun(r) == r.off + r.n <= Sectors
Extent   == {r \in [off : Nat, n : Nat] : OnLun(r)}
Cmds     == {c \in [cmd : Steps \ {"finish"}, off : Nat, n : Nat] : OnLun(c)} \cup [cmd : {"data"}, val : Int]
Reqs     == [k : {"none", "open", "unload", "pread", "pwrite"}, off : Nat, n : Nat, val : Nat,
             aligned : BOOLEAN]

TypeOK ==
  /\ dev \in BOOLEAN /\ size \in Nat /\ (dev => size = Sectors)
  /\ hpc \in {"idle", "up", "send", "await", "stream", "end"}
  /\ req \in Reqs /\ (hpc \in {"up", "send", "await", "stream"} => OnLun(req))
  /\ hpc \in {"send", "await", "stream"} => step \in Steps
  /\ resp \in {"none", "log", "ACK", "NAK"}
  /\ geometry \in {0, Sectors} /\ left \in Nat
  /\ buf \in Seq(Int) /\ ret \in {"none", "ok", "error"}
  /\ toDev \in Seq(Cmds) /\ toHost \in Seq(Msgs) /\ out \in Seq(Msgs)
  /\ mode \in {"edl", "xml", "in", "off", "gone"}
  /\ flash \in [0 .. Sectors - 1 -> Int]
  /\ want \in Extent /\ taken \in Seq(Int)
  /\ {reqs, refused, late, timeouts, gone} \subseteq Nat

-----------------------------------------------------------------------------
(* The exchange a request is in, and what is on its way for it.            *)

\* The exchanges of each request.
Purpose ==
  /\ hpc = "up" => req.k = "open"
  /\ hpc \in {"send", "await", "stream"} =>
       \/ step = "getstorageinfo" /\ req.k = "open" /\ hpc # "stream"
       \/ step = "read" /\ req.k = "pread" /\ req.n > 0
       \/ step = "program" /\ req.k = "pwrite" /\ req.n > 0
       \/ step = "finish" /\ req.k \in {"pread", "pwrite"} /\ req.n > 0 /\ hpc = "await"
       \/ step = "power" /\ req.k = "unload" /\ hpc # "stream"

\* Everything that is on its way to the host.
Coming == toHost \o out

Ack    == Xml("ACK", FALSE)
Nak    == Xml("NAK", FALSE)
RawAck == Xml("ACK", TRUE)

\* Messages that announce no data.
IsPlain(msg) == msg \in XmlMsgs /\ ~msg.rawmode
Plain == \A j \in 1 .. Len(Coming) : IsPlain(Coming[j])

\* Nothing, or nothing but one response.
Quiet     == Len(Coming) = 0
Answer(x) == Len(Coming) = 1 /\ Coming[1] = Xml(x, FALSE)

\* What may be left of the answer to an earlier command.
Stale == Plain /\ (late = 0 => Quiet)

There(modes) == mode \in modes \cup {"gone"}

\* The command is on its way.
Command == [cmd |-> step, off |-> req.off, n |-> req.n]
Asked ==
  /\ step # "finish" /\ toDev = <<Command>>
  /\ There({"edl", "xml"}) /\ Stale
  /\ late = 0 => resp = "none"

\* It has been answered, without any data to follow.
Told ==
  /\ step \in {"getstorageinfo", "power"} /\ toDev = <<>> /\ Plain
  /\ There(IF step = "power" THEN {"xml", "off"} ELSE {"xml"})
Refused ==
  /\ step \in {"read", "program"} /\ toDev = <<>> /\ There({"xml"}) /\ Plain
  /\ refused > 0 /\ (late = 0 => Len(Coming) <= 1 /\ (resp = "none" \/ Quiet))

\* Behind l stale messages comes the acceptance of a command.
Announced(l) ==
  /\ l < Len(Coming) /\ (late = 0 => l = 0)
  /\ \A j \in 1 .. l : IsPlain(Coming[j])
  /\ Coming[l + 1] = RawAck

\* Behind l messages come the sectors of a read from the i-th on, and a response.
Sectored(l, i) ==
  LET n == req.n - i + 1
  IN /\ Len(Coming) = l + n + 1 /\ Coming[l + n + 1] = Ack
     /\ \A j \in 1 .. n :
          Coming[l + j] = [m |-> "data", val |-> flash[req.off + (i + j - 1) - 1]]

\* A read, or a write, has been accepted.
Reading ==
  /\ step = "read" /\ toDev = <<>> /\ There({"xml"})
  /\ \E l \in Nat : Announced(l) /\ Sectored(l + 1, 1)
  /\ late = 0 => resp = "none"
Writing ==
  /\ step = "program" /\ toDev = <<>> /\ There({"in"})
  /\ \E l \in Nat : Announced(l) /\ Len(Coming) = l + 1
  /\ want = [off |-> req.off, n |-> req.n] /\ taken = <<>>
  /\ late = 0 => resp = "none"

\* What has been read so far.
Read == \A i \in 1 .. Len(buf) : buf[i] = flash[req.off + i - 1]

\* The data to write are on their way, nothing comes back.
Sector     == [cmd |-> "data", val |-> req.val]
OnTheirWay == Quiet /\ \A i \in 1 .. Len(toDev) : toDev[i] = Sector
Taking ==
  /\ There({"in"}) /\ OnTheirWay
  /\ want = [off |-> req.off, n |-> req.n]
  /\ Len(taken) < req.n /\ Len(taken) + Len(toDev) + left = req.n
  /\ \A i \in 1 .. Len(taken) : taken[i] = req.val
Dropping == There({"xml"}) /\ OnTheirWay /\ refused > 0

\* They are on the device, unless it has refused them.
Written == \A i \in 1 .. req.n : flash[req.off + i - 1] = req.val
Taken   == left = 0 /\ There({"xml"}) /\ toDev = <<>> /\ (refused = 0 => Written)

Waiting == (step \in {"read", "program"} => left = req.n) /\ (step = "read" => buf = <<>>)

\* A data phase in which nothing will come, or nothing can be sent.
Dead ==
  /\ left > 0
  /\ IF req.k = "pread" THEN toHost = <<>> /\ Silent /\ There({"xml"}) ELSE mode = "gone"

\* Where the host and the device are in each state of the host.
AtRest == mode # "gone" => toDev = <<>> /\ mode \in {"edl", "xml"} /\ Stale

Awaits ==
  \/ Waiting /\ (Asked \/ Told \/ Refused \/ Reading \/ Writing)
  \/ /\ step = "finish" /\ req.k = "pread" /\ toDev = <<>> /\ There({"xml"})
     /\ Read /\ Len(buf) = req.n
     /\ \/ resp = "none" /\ Answer("ACK")
        \/ resp = "ACK" /\ Quiet
  \/ /\ step = "finish" /\ req.k = "pwrite" /\ left = 0
     /\ \/ (Taking \/ Dropping) /\ resp = "none"
        \/ Taken /\ resp = "none" /\ (Answer("ACK") \/ Answer("NAK"))
        \/ Taken /\ resp \in {"ACK", "NAK"} /\ Quiet

Streams ==
  \/ Dead
  \/ /\ req.k = "pread" /\ toDev = <<>> /\ There({"xml"})
     /\ Read /\ Len(buf) + left = req.n /\ Sectored(0, Len(buf) + 1)
  \/ /\ req.k = "pwrite"
     /\ \/ Taking \/ Dropping
        \/ Taken /\ (Answer("ACK") \/ Answer("NAK"))

Faithful ==
  ret = "ok" =>
    /\ req.k = "pread" => buf = Region
    /\ req.k = "pwrite" /\ refused = 0 => Written

Flow ==
  /\ hpc \in {"idle", "up", "send"} => AtRest
  /\ hpc = "send" => Waiting
  /\ hpc = "await" => Awaits
  /\ hpc = "stream" => Streams
  /\ hpc = "idle" => Faithful

FlowInv == InTime => Flow

Inv == TypeOK /\ Purpose /\ FlowInv

-----------------------------------------------------------------------------
(* Types.                                                                  *)

LEMMA XmlType ==
  /\ {Xml("log", FALSE), Xml("info", FALSE), Xml("NAK", FALSE), Ack, RawAck} \subseteq XmlMsgs
  /\ XmlMsgs \subseteq Msgs
<1>1. XmlMsgs \subseteq Msgs
  BY DEF Msgs
<1>2. /\ Xml("log", FALSE) \in XmlMsgs /\ Xml("info", FALSE) \in XmlMsgs
      /\ Xml("NAK", FALSE) \in XmlMsgs
  BY DEF Xml, XmlMsgs
<1>3. Ack \in XmlMsgs /\ RawAck \in XmlMsgs
  BY DEF Xml, XmlMsgs, Ack, RawAck
<1> QED  BY <1>1, <1>2, <1>3

LEMMA Responses ==
  IsPlain(Ack) /\ Ack.m = "ACK" /\ IsPlain(Nak) /\ Nak.m = "NAK"
<1>1. Ack \in XmlMsgs /\ ~Ack.rawmode /\ Ack.m = "ACK"
  BY DEF Ack, Xml, XmlMsgs
<1>2. Nak \in XmlMsgs /\ ~Nak.rawmode /\ Nak.m = "NAK"
  BY DEF Nak, Xml, XmlMsgs
<1> QED  BY <1>1, <1>2 DEF IsPlain

LEMMA OneOf ==
  ASSUME NEW S, NEW x \in S
  PROVE  <<x>> \in Seq(S) /\ Len(<<x>>) = 1 /\ <<x>>[1] = x
  OBVIOUS

LEMMA SomeOf ==
  ASSUME NEW S, NEW x \in S, NEW y \in S, NEW z \in S
  PROVE  /\ <<x, y>> \in Seq(S) /\ \A i \in 1 .. Len(<<x, y>>) : <<x, y>>[i] \in S
         /\ <<x, y, z>> \in Seq(S) /\ \A i \in 1 .. Len(<<x, y, z>>) : <<x, y, z>>[i] \in S
<1>1. <<x, y>> \in Seq(S) /\ <<x, y, z>> \in Seq(S)
  OBVIOUS
<1> QED  BY <1>1, ElementOfSeq

LEMMA EndType ==
  ASSUME TypeOK, NEW r \in {"ok", "error"}, End(r), geometry' \in {0, Sectors},
         r = "ok" /\ req.k = "open" => geometry' = Sectors
  PROVE  /\ dev' \in BOOLEAN /\ size' \in Nat /\ (dev' => size' = Sectors)
         /\ hpc' \in {"idle", "end"} /\ ret' \in {"none", "ok", "error"}
<1>1. Sectors \in Nat
  BY RawIoAssumption
<1>2. hpc' \in {"idle", "end"} /\ ret' \in {"none", "ok", "error"}
  BY DEF TypeOK, End, Idle
<1>3. dev' \in BOOLEAN
  BY DEF TypeOK, End
<1>4. size' \in Nat /\ (dev' => size' = Sectors)
  <2>1. CASE req.k = "open"
    <3>1. dev' = (r = "ok")
      BY <2>1, Zenon DEF End
    <3>2. CASE r = "ok" /\ ~dev
      <4>1. size' = geometry'
        BY <2>1, <3>2 DEF End
      <4> QED  BY <1>1, <2>1, <3>2, <4>1 DEF TypeOK
    <3>3. CASE ~(r = "ok" /\ ~dev)
      <4>1. size' = size
        BY <2>1, <3>3 DEF End
      <4> QED  BY <3>1, <3>3, <4>1 DEF TypeOK
    <3> QED  BY <3>2, <3>3
  <2>2. CASE req.k # "open"
    <3>1. (dev' => dev) /\ size' = size
      BY <2>2 DEF End, TypeOK
    <3> QED  BY <3>1 DEF TypeOK
  <2> QED  BY <2>1, <2>2
<1> QED  BY <1>2, <1>3, <1>4

LEMMA RequestType ==
  /\ \A k \in {"open", "unload"} :
       [NoReq EXCEPT !.k = k] \in Reqs /\ OnLun([NoReq EXCEPT !.k = k])
  /\ \A r \in Requests, v \in Nat : r \in Request /\ [r EXCEPT !.val = v] \in Reqs
<1>1. ASSUME NEW k \in {"open", "unload"}
      PROVE  [NoReq EXCEPT !.k = k] \in Reqs /\ OnLun([NoReq EXCEPT !.k = k])
  <2>1. [NoReq EXCEPT !.k = k] \in Reqs
    BY DEF NoReq, Reqs
  <2>2. [NoReq EXCEPT !.k = k].off = 0 /\ [NoReq EXCEPT !.k = k].n = 0
    BY DEF NoReq
  <2> QED  BY <2>1, <2>2, RawIoAssumption DEF OnLun
<1>2. ASSUME NEW r \in Requests, NEW v \in Nat
      PROVE  r \in Request /\ [r EXCEPT !.val = v] \in Reqs
  <2>1. r \in Request
    BY RawIoAssumption
  <2> QED  BY <2>1 DEF Request, Reqs
<1> QED  BY <1>1, <1>2

LEMMA OpenType == TypeOK /\ Open => TypeOK'
<1> SUFFICES ASSUME TypeOK, Open PROVE TypeOK'
  OBVIOUS
<1>1. req' \in Reqs /\ OnLun(req') /\ reqs' \in Nat
  BY RequestType DEF TypeOK, Open
<1>2. hpc' \in {"idle", "up"} /\ ret' \in {"none", "ok", "error"}
  BY DEF TypeOK, Open, Idle
<1> QED  BY <1>1, <1>2 DEF TypeOK, Open, devVars

LEMMA SetupType == TypeOK /\ Setup => TypeOK'
<1> SUFFICES ASSUME TypeOK, Setup PROVE TypeOK'
  OBVIOUS
<1>1. toHost' \in Seq(Msgs)
  <2>1. toHost # <<>> => Tail(toHost) \in Seq(Msgs)
    BY HeadTailProperties DEF TypeOK
  <2> QED  BY <2>1 DEF TypeOK, Setup
<1>2. mode' \in {"edl", "xml", "in", "off", "gone"} /\ refused' \in Nat
  BY DEF TypeOK, Setup
<1>3. /\ hpc' \in {"idle", "send"} /\ ret' \in {"none", "ok", "error"}
      /\ geometry' \in {0, Sectors}
      /\ hpc' = "send" => step' \in Steps
  BY DEF TypeOK, Setup, Idle, Steps
<1> QED  BY <1>1, <1>2, <1>3 DEF TypeOK, Setup

LEMMA ReadWriteType == TypeOK /\ ReadWrite => TypeOK'
<1> SUFFICES ASSUME TypeOK, ReadWrite PROVE TypeOK'
  OBVIOUS
<1>1. reqs' \in Nat
  BY DEF TypeOK, ReadWrite
<1>2. PICK r \in Requests :
        /\ r.off + r.n <= size /\ req' = [r EXCEPT !.val = reqs']
        /\ IF ~r.aligned
             THEN Idle("error") /\ UNCHANGED <<step, left, buf>>
             ELSE /\ hpc' = "send" /\ step' = IF r.k = "pread" THEN "read" ELSE "program"
                  /\ left' = r.n /\ buf' = <<>> /\ UNCHANGED ret
  BY DEF ReadWrite
<1>3. r \in Request /\ req' \in Reqs
  BY <1>1, <1>2, RequestType
<1>4. OnLun(req')
  BY <1>2, <1>3 DEF TypeOK, ReadWrite, OnLun, Request
<1>5. /\ hpc' \in {"idle", "send"} /\ ret' \in {"none", "ok", "error"}
      /\ hpc' = "send" => step' \in Steps
      /\ left' \in Nat
  BY <1>2, <1>3 DEF TypeOK, Idle, Steps, Request
<1>6. buf' \in Seq(Int)
  <2>1. <<>> \in Seq(Int)
    BY EmptySeq
  <2> QED  BY <1>2, <2>1 DEF TypeOK
<1> QED  BY <1>1, <1>3, <1>4, <1>5, <1>6 DEF TypeOK, ReadWrite, devVars

LEMMA UnloadType == TypeOK /\ Unload => TypeOK'
<1> SUFFICES ASSUME TypeOK, Unload PROVE TypeOK'
  OBVIOUS
<1>1. req' \in Reqs /\ OnLun(req')
  BY RequestType DEF Unload
<1>2. hpc' \in {"send", "end"} /\ (hpc' = "send" => step' \in Steps)
  BY DEF Unload, Steps
<1> QED  BY <1>1, <1>2 DEF TypeOK, Unload, devVars, bounds

LEMMA SendType == TypeOK /\ Purpose /\ Send => TypeOK'
<1> SUFFICES ASSUME TypeOK, Purpose, Send PROVE TypeOK'
  OBVIOUS
<1>1. CASE mode = "gone"
  <2>1. End("error") /\ UNCHANGED <<toDev, resp, geometry>>
    BY <1>1 DEF Send
  <2>2. geometry' \in {0, Sectors}
    BY <2>1 DEF TypeOK
  <2>3. /\ dev' \in BOOLEAN /\ size' \in Nat /\ (dev' => size' = Sectors)
        /\ hpc' \in {"idle", "end"} /\ ret' \in {"none", "ok", "error"}
    BY <2>1, <2>2, EndType
  <2> QED  BY <2>1, <2>3 DEF TypeOK, Send, devVars, bounds
<1>2. CASE mode # "gone"
  <2>1. [cmd |-> step, off |-> req.off, n |-> req.n] \in Cmds
    BY DEF TypeOK, Purpose, Send, Cmds, OnLun, Reqs
  <2>2. toDev' \in Seq(Cmds)
    <3>1. toDev \in Seq(Cmds)
      BY DEF TypeOK
    <3>2. toDev' = Append(toDev, [cmd |-> step, off |-> req.off, n |-> req.n])
      BY <1>2 DEF Send
    <3> QED  BY <2>1, <3>1, <3>2, AppendProperties
  <2>3. hpc' = "await" /\ resp' = "none" /\ UNCHANGED <<dev, size, ret>>
    BY <1>2 DEF Send
  <2> QED  BY <2>2, <2>3 DEF TypeOK, Send, devVars, bounds
<1> QED  BY <1>1, <1>2

\* What is made of an answer, whatever it is.
LEMMA OutcomeType ==
  ASSUME TypeOK, Purpose, NEW r \in {"none", "log", "ACK", "NAK"}, Outcome(r), hpc = "await",
         geometry' \in {0, Sectors}
  PROVE  /\ dev' \in BOOLEAN /\ size' \in Nat /\ (dev' => size' = Sectors)
         /\ hpc' \in {"idle", "end", "stream"} /\ ret' \in {"none", "ok", "error"}
<1>1. Sectors \in Nat \ {0}
  BY RawIoAssumption
<1>2. ASSUME NEW x \in {"ok", "error"}, End(x), x = "ok" /\ req.k = "open" => geometry' = Sectors
      PROVE  /\ dev' \in BOOLEAN /\ size' \in Nat /\ (dev' => size' = Sectors)
             /\ hpc' \in {"idle", "end"} /\ ret' \in {"none", "ok", "error"}
  BY <1>2, EndType
<1>3. CASE End("error")
  BY <1>2, <1>3
<1>4. CASE hpc' = "stream" /\ UNCHANGED <<dev, size, ret>>
  BY <1>4 DEF TypeOK
<1>5. CASE step = "getstorageinfo" /\ End("ok") /\ geometry' > 0
  BY <1>1, <1>2, <1>5
<1>6. CASE End("ok") /\ req.k # "open"
  BY <1>2, <1>6
<1>7. step \in Steps
  BY DEF TypeOK
<1> QED  BY <1>3, <1>4, <1>5, <1>6, <1>7 DEF Outcome, Steps, Purpose

LEMMA AwaitOneType == TypeOK /\ Purpose /\ AwaitOne => TypeOK'
<1> SUFFICES ASSUME TypeOK, Purpose, AwaitOne PROVE TypeOK'
  OBVIOUS
<1> DEFINE msg == Head(toHost)
<1>1. msg \in Msgs /\ toHost' \in Seq(Msgs)
  <2>1. toHost \in Seq(Msgs) /\ toHost # <<>> /\ toHost' = Tail(toHost)
    BY DEF TypeOK, AwaitOne
  <2> QED  BY <2>1, HeadTailProperties
<1>2. resp' \in {"none", "log", "ACK", "NAK"}
  <2>1. CASE msg.m = "data"
    BY <2>1 DEF AwaitOne, TypeOK
  <2>2. CASE msg.m # "data"
    <3>1. msg.m \in {"log", "info", "ACK", "NAK"}
      BY <1>1, <2>2 DEF Msgs, XmlMsgs
    <3>2. Parsed(msg.m) \in {"none", "log", "ACK", "NAK"}
      BY <3>1 DEF Parsed, TypeOK
    <3> QED  BY <2>2, <3>2 DEF AwaitOne
  <2> QED  BY <2>1, <2>2
<1>3. geometry' \in {0, Sectors}
  BY DEF AwaitOne, TypeOK
<1>4. /\ dev' \in BOOLEAN /\ size' \in Nat /\ (dev' => size' = Sectors)
      /\ hpc' \in {"idle", "end", "stream", "await"} /\ ret' \in {"none", "ok", "error"}
  <2>1. CASE StopsReading(msg)
    <3>1. Outcome(resp') /\ hpc = "await"
      BY <2>1 DEF AwaitOne
    <3>2. PICK r \in {"none", "log", "ACK", "NAK"} : r = resp' /\ Outcome(r)
      BY <1>2, <3>1
    <3> QED  BY <1>3, <3>1, <3>2, OutcomeType
  <2>2. CASE ~StopsReading(msg)
    BY <2>2 DEF AwaitOne, TypeOK
  <2> QED  BY <2>1, <2>2
<1>5. hpc = "await" /\ UNCHANGED <<step, req, left, buf, toDev, devVars, bounds>>
  BY DEF AwaitOne
<1>6. UNCHANGED <<out, mode, flash, want, taken, reqs, refused, late, timeouts, gone>>
  BY <1>5 DEF devVars, bounds
<1> QED  BY <1>1, <1>2, <1>3, <1>4, <1>5, <1>6 DEF TypeOK

LEMMA AwaitDoneType == TypeOK /\ Purpose /\ AwaitDone => TypeOK'
<1> SUFFICES ASSUME TypeOK, Purpose, AwaitDone PROVE TypeOK'
  OBVIOUS
<1>1. late' \in Nat /\ timeouts' \in Nat
  BY DEF AwaitDone, TypeOK
<1>2. hpc = "await" /\ Outcome(resp) /\ geometry' \in {0, Sectors} /\ UNCHANGED geometry
  BY DEF AwaitDone, TypeOK
<1>3. /\ dev' \in BOOLEAN /\ size' \in Nat /\ (dev' => size' = Sectors)
      /\ hpc' \in {"idle", "end", "stream"} /\ ret' \in {"none", "ok", "error"}
  <2>1. resp \in {"none", "log", "ACK", "NAK"}
    BY DEF TypeOK
  <2> QED  BY <1>2, <2>1, OutcomeType
<1>4. UNCHANGED <<step, req, resp, left, buf, toDev, toHost, devVars, reqs, refused, gone>>
  BY DEF AwaitDone
<1>5. UNCHANGED <<out, mode, flash, want, taken>>
  BY <1>4 DEF devVars
<1> QED  BY <1>1, <1>2, <1>3, <1>4, <1>5 DEF TypeOK

LEMMA ChunkType == TypeOK => Chunk \in Nat /\ Chunk <= left
  BY RawIoAssumption DEF TypeOK, Chunk

LEMMA StreamType == TypeOK /\ Stream => TypeOK'
<1> SUFFICES ASSUME TypeOK, Stream PROVE TypeOK'
  OBVIOUS
<1>1. hpc = "stream" /\ UNCHANGED <<req, geometry, devVars, bounds>>
  BY DEF Stream
<1>2. /\ UNCHANGED <<req, geometry, out, mode, flash, want, taken>>
      /\ UNCHANGED <<reqs, refused, late, timeouts, gone>>
  BY <1>1 DEF devVars, bounds
<1>3. End("error") => /\ dev' \in BOOLEAN /\ size' \in Nat /\ (dev' => size' = Sectors)
                      /\ hpc' \in {"idle", "end"} /\ ret' \in {"none", "ok", "error"}
  <2>1. geometry' \in {0, Sectors}
    BY <1>2 DEF TypeOK
  <2> QED  BY <2>1, EndType
<1>4. CASE Streamed
  <2>1. AfterData /\ UNCHANGED <<left, buf, toDev, toHost>>
    BY <1>4 DEF Stream
  <2> QED  BY <1>1, <1>2, <2>1 DEF AfterData, TypeOK, Steps
<1>5. CASE ~Streamed /\ req.k = "pread"
  <2>1. CASE toHost # <<>>
    <3>1. /\ buf' = Append(buf, IF Head(toHost).m = "data" THEN Head(toHost).val ELSE -1)
          /\ toHost' = Tail(toHost) /\ left' = left - 1
          /\ UNCHANGED <<hpc, dev, size, ret, step, resp, toDev>>
      BY <1>5, <2>1 DEF Stream
    <3>2. Head(toHost) \in Msgs /\ toHost' \in Seq(Msgs)
      BY <2>1, <3>1, HeadTailProperties DEF TypeOK
    <3>3. (IF Head(toHost).m = "data" THEN Head(toHost).val ELSE -1) \in Int
      BY <3>2 DEF Msgs, XmlMsgs
    <3>4. buf' \in Seq(Int)
      BY <3>1, <3>3, AppendProperties DEF TypeOK
    <3>5. left' \in Nat
      BY <1>5, <3>1 DEF TypeOK, Streamed
    <3> QED  BY <1>1, <1>2, <3>1, <3>2, <3>4, <3>5 DEF TypeOK
  <2>2. CASE toHost = <<>>
    <3>1. End("error") /\ UNCHANGED <<buf, toHost, left, step, resp, toDev>>
      BY <1>5, <2>2 DEF Stream
    <3> QED  BY <1>2, <1>3, <3>1 DEF TypeOK
  <2> QED  BY <2>1, <2>2
<1>6. CASE ~Streamed /\ req.k # "pread"
  <2>1. CASE mode # "gone"
    <3>1. /\ toDev' = toDev \o [i \in 1 .. Chunk |-> [cmd |-> "data", val |-> req.val]]
          /\ left' = left - Chunk /\ UNCHANGED <<hpc, dev, size, ret, step, resp, buf, toHost>>
      BY <1>6, <2>1 DEF Stream
    <3>2. Chunk \in Nat /\ Chunk <= left
      BY ChunkType
    <3>3. left' \in Nat
      BY <3>1, <3>2 DEF TypeOK
    <3>4. toDev' \in Seq(Cmds)
      <4>1. [cmd |-> "data", val |-> req.val] \in Cmds
        BY DEF TypeOK, Reqs, Cmds
      <4>2. [i \in 1 .. Chunk |-> [cmd |-> "data", val |-> req.val]] \in Seq(Cmds)
        BY <3>2, <4>1
      <4>3. toDev \in Seq(Cmds)
        BY DEF TypeOK
      <4> QED  BY <3>1, <4>2, <4>3, ConcatProperties
    <3> QED  BY <1>1, <1>2, <3>1, <3>3, <3>4 DEF TypeOK
  <2>2. CASE mode = "gone"
    <3>1. End("error") /\ UNCHANGED <<toDev, left, step, resp, buf, toHost>>
      BY <1>6, <2>2 DEF Stream
    <3> QED  BY <1>2, <1>3, <3>1 DEF TypeOK
  <2> QED  BY <2>1, <2>2
<1> QED  BY <1>4, <1>5, <1>6

LEMMA DataType ==
  ASSUME TypeOK, NEW off \in Nat, NEW n \in Nat, off + n <= Sectors
  PROVE  /\ Data(off, n) \in Seq(Msgs) /\ Len(Data(off, n)) = n
         /\ \A i \in 1 .. n : Data(off, n)[i] = [m |-> "data", val |-> flash[off + i - 1]]
<1>1. Sectors \in Nat
  BY RawIoAssumption
<1>2. ASSUME NEW i \in 1 .. n
      PROVE  [m |-> "data", val |-> flash[off + i - 1]] \in Msgs
  <2>1. off + i - 1 \in 0 .. Sectors - 1
    BY <1>1
  <2>2. flash[off + i - 1] \in Int
    BY <2>1 DEF TypeOK
  <2> QED  BY <2>2 DEF Msgs
<1>3. Data(off, n) = [i \in 1 .. n |-> [m |-> "data", val |-> flash[off + i - 1]]]
  BY DEF Data
<1>4. Data(off, n) \in [1 .. n -> Msgs]
  BY <1>2, <1>3
<1>5. Data(off, n) \in Seq(Msgs)
  BY <1>4, SeqDef
<1>6. Len(Data(off, n)) = n
  BY <1>4, <1>5, LenProperties
<1> QED  BY <1>3, <1>5, <1>6

LEMMA AcceptedType ==
  ASSUME TypeOK, NEW c \in Cmds, c.cmd # "data", Accepted(c)
  PROVE  out' \in Seq(Msgs)
<1>1. /\ c.cmd \in {"getstorageinfo", "read", "program", "power"}
      /\ c.off \in Nat /\ c.n \in Nat /\ c.off + c.n <= Sectors
  BY DEF Cmds, OnLun, Steps
<1>2. Ack \in Msgs /\ RawAck \in Msgs /\ Xml("log", FALSE) \in Msgs /\ Xml("info", FALSE) \in Msgs
  BY XmlType
<1>3. CASE c.cmd = "getstorageinfo"
  <2>1. out' \in {<<Xml("log", FALSE), Xml("info", FALSE), Ack>>,
                  <<Xml("info", FALSE), Ack>>, <<Ack>>}
    BY <1>3 DEF Accepted, Ack
  <2>2. <<Xml("log", FALSE), Xml("info", FALSE), Ack>> \in Seq(Msgs)
    BY <1>2, SomeOf
  <2>3. <<Xml("info", FALSE), Ack>> \in Seq(Msgs) /\ <<Ack>> \in Seq(Msgs)
    BY <1>2, SomeOf, OneOf
  <2> QED  BY <2>1, <2>2, <2>3
<1>4. CASE c.cmd = "read"
  <2>1. out' = <<RawAck>> \o Data(c.off, c.n) \o <<Ack>>
    BY <1>4 DEF Accepted, Ack, RawAck
  <2>2. Data(c.off, c.n) \in Seq(Msgs)
    BY <1>1, DataType
  <2>3. <<RawAck>> \in Seq(Msgs) /\ <<Ack>> \in Seq(Msgs)
    BY <1>2, OneOf
  <2> QED  BY <2>1, <2>2, <2>3, ConcatProperties
<1>5. CASE c.cmd = "program"
  <2>1. out' = <<RawAck>>
    BY <1>5 DEF Accepted, RawAck
  <2> QED  BY <1>2, <2>1, OneOf
<1>6. CASE c.cmd = "power"
  <2>1. out' = <<Ack>>
    BY <1>6 DEF Accepted, Ack
  <2> QED  BY <1>2, <2>1, OneOf
<1> QED  BY <1>1, <1>3, <1>4, <1>5, <1>6

LEMMA DevCommandType == TypeOK /\ DevCommand => TypeOK'
<1> SUFFICES ASSUME TypeOK, DevCommand PROVE TypeOK'
  OBVIOUS
<1> DEFINE c == Head(toDev)
<1>1. c \in Cmds /\ toDev' \in Seq(Cmds)
  <2>1. toDev \in Seq(Cmds) /\ toDev # <<>> /\ toDev' = Tail(toDev)
    BY DEF TypeOK, DevCommand
  <2> QED  BY <2>1, HeadTailProperties
<1>2. /\ c.cmd # "data"
      /\ UNCHANGED <<dev, size, hpc, step, req, resp, geometry, left, buf, ret, toHost, flash>>
      /\ UNCHANGED <<reqs, late, timeouts, gone>>
  BY DEF DevCommand
<1>3. \/ /\ Accepted(c)
         /\ mode' = CASE c.cmd = "program" -> "in" [] c.cmd = "power" -> "off" [] OTHER -> mode
         /\ want' = IF c.cmd = "program" THEN [off |-> c.off, n |-> c.n] ELSE want
         /\ taken' = <<>> /\ UNCHANGED refused
      \/ /\ refused' = refused + 1 /\ out' = <<Xml("NAK", FALSE)>>
         /\ UNCHANGED <<mode, want, taken>>
  BY DEF DevCommand
<1>4. want' \in Extent
  <2>1. [off |-> c.off, n |-> c.n] \in Extent
    BY <1>1, <1>2 DEF Cmds, Extent, OnLun
  <2> QED  BY <1>3, <2>1 DEF TypeOK
<1>5. mode' \in {"edl", "xml", "in", "off", "gone"} /\ refused' \in Nat
  <2>1. mode \in {"edl", "xml", "in", "off", "gone"} /\ refused \in Nat
    BY DEF TypeOK
  <2>2. mode' \in {"in", "off", mode} /\ refused' \in {refused, refused + 1}
    BY <1>3
  <2> QED  BY <2>1, <2>2
<1>6. taken' \in Seq(Int)
  <2>1. <<>> \in Seq(Int)
    BY EmptySeq
  <2> QED  BY <1>3, <2>1 DEF TypeOK
<1>7. out' \in Seq(Msgs)
  <2>1. CASE out' = <<Xml("NAK", FALSE)>>
    BY <2>1, XmlType, OneOf
  <2>2. CASE Accepted(c)
    BY <1>1, <1>2, <2>2, AcceptedType
  <2> QED  BY <1>3, <2>1, <2>2
<1> QED  BY <1>1, <1>2, <1>4, <1>5, <1>6, <1>7 DEF TypeOK

LEMMA DevSayType == TypeOK /\ DevSay => TypeOK'
<1> SUFFICES ASSUME TypeOK, DevSay PROVE TypeOK'
  OBVIOUS
<1>1. toHost' \in Seq(Msgs) /\ out' \in Seq(Msgs)
  <2>1. out \in Seq(Msgs) /\ out # <<>> /\ out' = Tail(out) /\ toHost \in Seq(Msgs)
        /\ toHost' = Append(toHost, Head(out))
    BY DEF TypeOK, DevSay
  <2>2. Head(out) \in Msgs /\ out' \in Seq(Msgs)
    BY <2>1, HeadTailProperties
  <2> QED  BY <2>1, <2>2, AppendProperties
<1> QED  BY <1>1 DEF TypeOK, DevSay, bounds

LEMMA DevStrayType == TypeOK /\ DevStray => TypeOK'
<1> SUFFICES ASSUME TypeOK, DevStray PROVE TypeOK'
  OBVIOUS
<1>1. toDev' \in Seq(Cmds)
  <2>1. toDev \in Seq(Cmds) /\ toDev # <<>> /\ toDev' = Tail(toDev)
    BY DEF TypeOK, DevStray
  <2> QED  BY <2>1, HeadTailProperties
<1> QED  BY <1>1 DEF TypeOK, DevStray, devVars, bounds

LEMMA DevDataType == TypeOK /\ DevData => TypeOK'
<1> SUFFICES ASSUME TypeOK, DevData PROVE TypeOK'
  OBVIOUS
<1> DEFINE c == Head(toDev)
           all == Append(taken, IF c.cmd = "data" THEN c.val ELSE -1)
<1>1. c \in Cmds /\ toDev' \in Seq(Cmds)
  <2>1. toDev \in Seq(Cmds) /\ toDev # <<>> /\ toDev' = Tail(toDev)
    BY DEF TypeOK, DevData
  <2> QED  BY <2>1, HeadTailProperties
<1>2. all \in Seq(Int) /\ Len(all) \in Nat /\ \A i \in 1 .. Len(all) : all[i] \in Int
  <2>1. (IF c.cmd = "data" THEN c.val ELSE -1) \in Int
    BY <1>1 DEF Cmds, Steps
  <2>2. all \in Seq(Int)
    BY <2>1, AppendProperties DEF TypeOK
  <2> QED  BY <2>2, LenProperties, ElementOfSeq
<1>3. /\ UNCHANGED <<dev, size, hpc, step, req, resp, geometry, left, buf, ret, toHost, want>>
      /\ UNCHANGED <<reqs, late, timeouts, gone>> /\ taken' = all
  BY DEF DevData
<1>4. /\ mode' \in {"edl", "xml", "in", "off", "gone"} /\ refused' \in Nat
      /\ out' \in Seq(Msgs) /\ flash' \in [0 .. Sectors - 1 -> Int]
  <2>1. CASE Len(all) < want.n
    BY <2>1 DEF DevData, TypeOK
  <2>2. CASE ~(Len(all) < want.n)
    <3> DEFINE f == [s \in 0 .. Sectors - 1 |->
                       IF s \in want.off .. want.off + want.n - 1
                         THEN all[s - want.off + 1] ELSE flash[s]]
    <3>1. /\ mode' = "xml"
          /\ \/ flash' = f /\ out' = <<Ack>> /\ UNCHANGED refused
             \/ refused' = refused + 1 /\ out' = <<Xml("NAK", FALSE)>> /\ UNCHANGED flash
      BY <2>2 DEF DevData, Ack
    <3>2. f \in [0 .. Sectors - 1 -> Int]
      <4>1. ASSUME NEW s \in want.off .. want.off + want.n - 1
            PROVE  all[s - want.off + 1] \in Int
        <5>1. want.off \in Nat /\ want.n \in Nat
          BY DEF TypeOK, Extent
        <5>2. s - want.off + 1 \in 1 .. Len(all)
          BY <1>2, <2>2, <5>1
        <5> QED  BY <1>2, <5>2
      <4> QED  BY <4>1 DEF TypeOK
    <3>3. out' \in Seq(Msgs)
      BY <3>1, XmlType, OneOf
    <3>4. refused' \in Nat /\ flash' \in [0 .. Sectors - 1 -> Int]
      <4>1. (flash' = f \/ flash' = flash) /\ refused' \in {refused, refused + 1}
        BY <3>1
      <4>2. refused \in Nat /\ flash \in [0 .. Sectors - 1 -> Int]
        BY DEF TypeOK
      <4>3. flash' \in [0 .. Sectors - 1 -> Int]
        BY <3>2, <4>1, <4>2, Zenon
      <4> QED  BY <4>1, <4>2, <4>3
    <3> QED  BY <3>1, <3>3, <3>4
  <2> QED  BY <2>1, <2>2
<1> QED  BY <1>1, <1>2, <1>3, <1>4 DEF TypeOK

LEMMA UnplugType == TypeOK /\ Unplug => TypeOK'
BY DEF TypeOK, Unplug

-----------------------------------------------------------------------------
(* The purpose of an exchange.                                             *)

\* A request that ends leaves the host idle, or at its end.
LEMMA Ends == ASSUME NEW r, End(r) PROVE hpc' \in {"idle", "end"}
  BY DEF End, Idle

LEMMA PurposeNext == TypeOK /\ Purpose /\ [Next]_vars => Purpose'
<1> SUFFICES ASSUME TypeOK, Purpose, [Next]_vars PROVE Purpose'
  OBVIOUS
<1>1. CASE Open \/ Unload
  BY <1>1 DEF Open, Unload, Idle, Purpose, NoReq
<1>2. CASE Setup
  BY <1>2 DEF Setup, Idle, Purpose
<1>3. CASE ReadWrite
  <2>1. PICK r \in Requests :
          /\ req' = [r EXCEPT !.val = reqs']
          /\ IF ~r.aligned
               THEN Idle("error")
               ELSE hpc' = "send" /\ step' = IF r.k = "pread" THEN "read" ELSE "program"
    BY <1>3 DEF ReadWrite
  <2>2. r \in Request
    BY RequestType
  <2> QED  BY <2>1, <2>2 DEF Idle, Purpose, Request
<1>4. CASE Send
  <2>1. hpc = "send" /\ UNCHANGED <<step, req>> /\ (End("error") \/ hpc' = "await")
    BY <1>4 DEF Send
  <2> QED  BY <2>1, Ends DEF Purpose
<1>5. CASE AwaitOne \/ AwaitDone
  <2>1. hpc = "await" /\ UNCHANGED <<step, req>>
    BY <1>5 DEF AwaitOne, AwaitDone
  <2>2. hpc' = "await" \/ \E r : Outcome(r)
    BY <1>5, <2>1 DEF AwaitOne, AwaitDone
  <2>3. ASSUME NEW r, Outcome(r)
        PROVE  hpc' \in {"idle", "end"} \/ (hpc' = "stream" /\ step \in {"read", "program"})
    BY <2>1, <2>3, Ends DEF Outcome, Purpose
  <2> QED  BY <2>1, <2>2, <2>3 DEF Purpose
<1>6. CASE Stream
  <2>1. hpc = "stream" /\ UNCHANGED req
    BY <1>6 DEF Stream
  <2>2. \/ hpc' = "await" /\ step' = "finish"
        \/ UNCHANGED <<hpc, step>>
        \/ hpc' \in {"idle", "end"}
    BY <1>6, <2>1, Ends DEF Stream, AfterData
  <2> QED  BY <2>1, <2>2 DEF Purpose
<1>7. CASE Device \/ Unplug \/ Done \/ UNCHANGED vars
  <2>1. UNCHANGED <<hpc, step, req>>
    BY <1>7 DEF Device, DevCommand, DevSay, DevStray, DevData, Unplug, Done, vars
  <2> QED  BY <2>1 DEF Purpose
<1> QED  BY <1>1, <1>2, <1>3, <1>4, <1>5, <1>6, <1>7 DEF Next, Host, Client

LEMMA TypeNext == TypeOK /\ Purpose /\ [Next]_vars => TypeOK'
<1> SUFFICES ASSUME TypeOK, Purpose, [Next]_vars PROVE TypeOK'
  OBVIOUS
<1>1. CASE Host
  BY <1>1, SetupType, SendType, AwaitOneType, AwaitDoneType, StreamType DEF Host
<1>2. CASE Client
  BY <1>2, OpenType, ReadWriteType, UnloadType DEF Client
<1>3. CASE Device
  BY <1>3, DevCommandType, DevSayType, DevStrayType, DevDataType DEF Device
<1>4. CASE Done \/ UNCHANGED vars
  BY <1>4 DEF Done, vars, devVars, bounds, TypeOK
<1> QED  BY <1>1, <1>2, <1>3, <1>4, UnplugType DEF Next

LEMMA TypeInit == Init => TypeOK /\ Purpose
<1> SUFFICES ASSUME Init PROVE TypeOK /\ Purpose
  OBVIOUS
<1>1. Sectors \in Nat
  BY RawIoAssumption
<1>2. NoReq \in Reqs /\ OnLun(NoReq)
  BY <1>1 DEF NoReq, Reqs, OnLun
<1>3. want \in Extent
  BY <1>1 DEF Init, Extent, OnLun
<1>4. \A S : <<>> \in Seq(S)
  BY EmptySeq
<1>5. toDev \in Seq(Cmds) /\ toHost \in Seq(Msgs) /\ out \in Seq(Msgs)
      /\ buf \in Seq(Int) /\ taken \in Seq(Int)
  BY <1>4 DEF Init
<1>6. flash \in [0 .. Sectors - 1 -> Int]
  BY <1>1 DEF Init
<1>7. Purpose
  BY DEF Init, Purpose
<1>8. req \in Reqs
  BY <1>2 DEF Init
<1>9. /\ dev = FALSE /\ size = 0 /\ hpc = "idle" /\ resp = "none" /\ geometry = 0 /\ left = 0
      /\ ret = "none" /\ mode = "edl" /\ {reqs, refused, late, timeouts, gone} = {0}
  BY DEF Init
<1>a. /\ dev \in BOOLEAN /\ size \in Nat /\ (dev => size = Sectors)
  BY <1>9
<1>b.  /\ hpc \in {"idle", "up", "send", "await", "stream", "end"}
  BY <1>9
<1>c.  /\ req \in Reqs /\ (hpc \in {"up", "send", "await", "stream"} => OnLun(req))
  BY <1>9, <1>8
<1>d.  /\ (hpc \in {"send", "await", "stream"} => step \in Steps)
  BY <1>9
<1>e.  /\ resp \in {"none", "log", "ACK", "NAK"}
  /\ geometry \in {0, Sectors} /\ left \in Nat
  BY <1>9
<1>f. {reqs, refused, late, timeouts, gone} \subseteq Nat
  BY <1>9
<1> QED  BY <1>3, <1>5, <1>6, <1>7, <1>8, <1>9, <1>a, <1>b, <1>c, <1>d, <1>e, <1>f DEF TypeOK

-----------------------------------------------------------------------------
(* What is on its way to the host.                                         *)

LEMMA TwoParts ==
  ASSUME NEW s \in Seq(Msgs), NEW u \in Seq(Msgs)
  PROVE  /\ s \o u \in Seq(Msgs) /\ Len(s \o u) = Len(s) + Len(u)
         /\ Len(s \o u) \in Nat /\ Len(s) \in Nat /\ Len(u) \in Nat
         /\ \A j \in 1 .. Len(s) + Len(u) :
              /\ (s \o u)[j] \in Msgs
              /\ (s \o u)[j] = IF j <= Len(s) THEN s[j] ELSE u[j - Len(s)]
<1>1. /\ s \o u \in Seq(Msgs) /\ Len(s \o u) = Len(s) + Len(u)
      /\ \A j \in 1 .. Len(s) + Len(u) :
           (s \o u)[j] = IF j <= Len(s) THEN s[j] ELSE u[j - Len(s)]
  BY ConcatProperties
<1>2. Len(s \o u) \in Nat /\ Len(s) \in Nat /\ Len(u) \in Nat
  BY <1>1, LenProperties
<1>3. \A j \in 1 .. Len(s \o u) : (s \o u)[j] \in Msgs
  BY <1>1, ElementOfSeq
<1> QED  BY <1>1, <1>2, <1>3

LEMMA ComingType ==
  ASSUME TypeOK
  PROVE  /\ Coming \in Seq(Msgs) /\ Len(Coming) = Len(toHost) + Len(out)
         /\ Len(Coming) \in Nat /\ Len(toHost) \in Nat /\ Len(out) \in Nat
         /\ \A j \in 1 .. Len(Coming) : Coming[j] \in Msgs
         /\ \A j \in 1 .. Len(Coming) :
              Coming[j] = IF j <= Len(toHost) THEN toHost[j] ELSE out[j - Len(toHost)]
<1>1. toHost \in Seq(Msgs) /\ out \in Seq(Msgs)
  BY DEF TypeOK
<1> QED  BY <1>1, TwoParts DEF Coming

\* Nothing comes exactly if nothing is on either side.
LEMMA QuietIs ==
  ASSUME TypeOK
  PROVE  Quiet <=> toHost = <<>> /\ out = <<>>
<1>1. /\ toHost \in Seq(Msgs) /\ out \in Seq(Msgs)
      /\ Len(Coming) = Len(toHost) + Len(out) /\ Len(toHost) \in Nat /\ Len(out) \in Nat
  BY ComingType DEF TypeOK
<1>2. (toHost = <<>> <=> Len(toHost) = 0) /\ (out = <<>> <=> Len(out) = 0)
  BY <1>1, EmptySeq
<1> QED  BY <1>1, <1>2 DEF Quiet

\* The host takes the first message.
LEMMA Consumed ==
  ASSUME TypeOK, TypeOK', toHost # <<>>, toHost' = Tail(toHost), out' = out
  PROVE  /\ Len(Coming) \in Nat \ {0} /\ Coming[1] = Head(toHost) /\ Coming[1] \in Msgs
         /\ Len(Coming') = Len(Coming) - 1
         /\ \A j \in 1 .. Len(Coming) - 1 : Coming'[j] = Coming[j + 1]
<1>1. toHost \in Seq(Msgs)
  BY DEF TypeOK
<1>2. PICK n \in Nat, k \in Nat : n = Len(toHost) /\ k = Len(out)
  BY ComingType
<1>3. /\ n # 0 /\ Len(toHost') = n - 1 /\ Head(toHost) = toHost[1]
      /\ \A j \in 1 .. n - 1 : toHost'[j] = toHost[j + 1]
  BY <1>1, <1>2, HeadTailProperties, EmptySeq
<1>4. /\ Len(Coming) = n + k
      /\ \A j \in 1 .. n + k : Coming[j] = IF j <= n THEN toHost[j] ELSE out[j - n]
      /\ \A j \in 1 .. n + k : Coming[j] \in Msgs
  BY <1>2, ComingType
<1>5. /\ Len(Coming') = n - 1 + k
      /\ \A j \in 1 .. n - 1 + k :
           Coming'[j] = IF j <= n - 1 THEN toHost'[j] ELSE out[j - (n - 1)]
  <2>1. toHost' \in Seq(Msgs) /\ out \in Seq(Msgs) /\ Coming' = toHost' \o out
    BY DEF TypeOK, Coming
  <2>2. /\ Len(Coming') = Len(toHost') + Len(out)
        /\ \A j \in 1 .. Len(toHost') + Len(out) :
             Coming'[j] = IF j <= Len(toHost') THEN toHost'[j] ELSE out[j - Len(toHost')]
    BY <2>1, TwoParts
  <2> QED  BY <1>2, <1>3, <2>2
<1>6. ASSUME NEW j \in 1 .. n + k - 1
      PROVE  Coming'[j] = Coming[j + 1]
  <2>1. CASE j <= n - 1
    <3>1. j \in 1 .. n - 1 /\ j \in 1 .. n - 1 + k /\ j + 1 \in 1 .. n + k /\ j + 1 <= n
      BY <1>2, <2>1
    <3> QED  BY <1>3, <1>4, <1>5, <2>1, <3>1
  <2>2. CASE ~(j <= n - 1)
    <3>1. /\ j \in 1 .. n - 1 + k /\ j + 1 \in 1 .. n + k /\ ~(j + 1 <= n)
          /\ j - (n - 1) = j + 1 - n
      BY <1>2, <2>2
    <3>2. Coming'[j] = out[j - (n - 1)]
      BY <1>5, <2>2, <3>1
    <3>3. Coming[j + 1] = out[j + 1 - n]
      BY <1>4, <3>1
    <3> QED  BY <3>1, <3>2, <3>3
  <2> QED  BY <2>1, <2>2
<1> QED  BY <1>2, <1>3, <1>4, <1>5, <1>6

\* The device says one more: the same things come.
LEMMA Said ==
  ASSUME TypeOK, DevSay
  PROVE  Coming' = Coming
<1>1. /\ out \in Seq(Msgs) /\ out # <<>> /\ toHost \in Seq(Msgs)
      /\ toHost' = Append(toHost, Head(out)) /\ out' = Tail(out)
  BY DEF TypeOK, DevSay
<1>2. /\ Head(out) \in Msgs /\ Tail(out) \in Seq(Msgs) /\ <<Head(out)>> \in Seq(Msgs)
      /\ out = <<Head(out)>> \o Tail(out)
  BY <1>1, HeadTailProperties
<1>3. toHost' = toHost \o <<Head(out)>>
  BY <1>1, <1>2, AppendIsConcat
<1> QED  BY <1>1, <1>2, <1>3, ConcatAssociative DEF Coming

\* The device answers.
LEMMA Answered ==
  ASSUME TypeOK, TypeOK', out = <<>>, toHost' = toHost
  PROVE  /\ Len(Coming) \in Nat /\ Len(out') \in Nat /\ Len(Coming') = Len(Coming) + Len(out')
         /\ \A j \in 1 .. Len(Coming) : Coming'[j] = Coming[j]
         /\ \A j \in 1 .. Len(out') : Coming'[Len(Coming) + j] = out'[j]
<1>1. PICK n \in Nat, k \in Nat : n = Len(toHost) /\ k = Len(out')
  <2>1. Len(toHost) \in Nat /\ Len(out') \in Nat
    BY LenProperties DEF TypeOK
  <2> QED  BY <2>1
<1>2. Len(out) = 0
  BY EmptySeq
<1>3. Len(Coming) = n /\ \A j \in 1 .. n : Coming[j] = toHost[j]
  BY <1>1, <1>2, ComingType
<1>4. /\ Len(Coming') = Len(toHost') + Len(out')
      /\ \A j \in 1 .. Len(toHost') + Len(out') :
           Coming'[j] = IF j <= Len(toHost') THEN toHost'[j] ELSE out'[j - Len(toHost')]
  <2>1. toHost' \in Seq(Msgs) /\ out' \in Seq(Msgs) /\ Coming' = toHost' \o out'
    BY DEF TypeOK, Coming
  <2> QED  BY <2>1, TwoParts
<1>5. /\ Len(Coming') = n + k
      /\ \A j \in 1 .. n + k : Coming'[j] = IF j <= n THEN toHost[j] ELSE out'[j - n]
  BY <1>1, <1>4
<1>6. ASSUME NEW j \in 1 .. k
      PROVE  Coming'[n + j] = out'[j]
  <2>1. n + j \in 1 .. n + k /\ ~(n + j <= n) /\ n + j - n = j
    OBVIOUS
  <2> QED  BY <1>5, <2>1
<1> QED  BY <1>1, <1>3, <1>5, <1>6

-----------------------------------------------------------------------------
(* Requests and the steps of the host.                                     *)

\* Faults only add up.
LEMMA InTimeBefore == TypeOK /\ [Next]_vars /\ InTime' => InTime
<1> SUFFICES ASSUME TypeOK, [Next]_vars, InTime' PROVE InTime
  OBVIOUS
<1>1. late \in Nat /\ timeouts \in Nat
  BY DEF TypeOK
<1>2. UNCHANGED <<late, timeouts>> \/ AwaitDone
  BY DEF Next, Host, Client, Device, Open, Setup, ReadWrite, Unload, Send, AwaitOne, Stream,
         DevCommand, DevSay, DevStray, DevData, Unplug, Done, vars, bounds
<1>3. late' \in {late, late + 1} /\ timeouts' \in {timeouts, timeouts + 1}
  BY <1>2 DEF AwaitDone
<1> QED  BY <1>1, <1>3 DEF InTime

LEMMA OpenFlow == TypeOK /\ Flow /\ Open => Flow'
<1> SUFFICES ASSUME TypeOK, Flow, Open PROVE Flow'
  OBVIOUS
<1>1. /\ hpc = "idle" /\ hpc' \in {"idle", "up"}
      /\ UNCHANGED <<mode, toDev, toHost, out, late, refused, flash>> /\ req'.k = "open"
  BY DEF Open, Idle, devVars, NoReq
<1>2. AtRest' /\ Faithful'
  BY <1>1 DEF Flow, AtRest, Stale, Plain, Quiet, Coming, Faithful
<1> QED  BY <1>1, <1>2 DEF Flow

LEMMA SetupFlow == TypeOK /\ TypeOK' /\ Purpose /\ Flow /\ Setup => Flow'
<1> SUFFICES ASSUME TypeOK, TypeOK', Purpose, Flow, Setup PROVE Flow'
  OBVIOUS
<1>1. hpc = "up" /\ req.k = "open" /\ AtRest /\ UNCHANGED <<req, out, toDev, late>>
  BY DEF Setup, Flow, Purpose
<1>2. CASE mode = "gone"
  <2>1. hpc' = "idle" /\ mode' = "gone"
    BY <1>2 DEF Setup, Idle
  <2> QED  BY <1>1, <2>1 DEF Flow, AtRest, Faithful
<1>3. CASE mode # "gone"
  <2>1. toDev = <<>> /\ mode \in {"edl", "xml"} /\ Stale
    BY <1>1, <1>3 DEF AtRest
  <2>2. mode' \in {"edl", "xml"}
    BY <2>1 DEF Setup
  <2>3. Stale'
    <3>1. CASE toHost' = toHost
      BY <1>1, <2>1, <3>1 DEF Stale, Plain, Quiet, Coming
    <3>2. CASE toHost # <<>> /\ toHost' = Tail(toHost)
      <4>1. /\ Len(Coming) \in Nat \ {0} /\ Len(Coming') = Len(Coming) - 1
            /\ \A j \in 1 .. Len(Coming) - 1 : Coming'[j] = Coming[j + 1]
        BY <1>1, <3>2, Consumed
      <4>2. Plain'
        BY <2>1, <4>1 DEF Stale, Plain
      <4>3. late # 0
        BY <2>1, <4>1 DEF Stale, Quiet
      <4> QED  BY <1>1, <4>2, <4>3 DEF Stale
    <3> QED  BY <3>1, <3>2 DEF Setup
  <2>4. hpc' = "idle" \/ (hpc' = "send" /\ step' = "getstorageinfo")
    BY DEF Setup, Idle
  <2>5. AtRest' /\ Faithful'
    BY <1>1, <2>1, <2>2, <2>3 DEF AtRest, Faithful
  <2> QED  BY <2>4, <2>5 DEF Flow, Waiting
<1> QED  BY <1>2, <1>3

LEMMA ReadWriteFlow == TypeOK /\ Flow /\ ReadWrite => Flow'
<1> SUFFICES ASSUME TypeOK, Flow, ReadWrite PROVE Flow'
  OBVIOUS
<1>1. hpc = "idle" /\ UNCHANGED <<mode, toDev, toHost, out, late>>
  BY DEF ReadWrite, devVars
<1>2. AtRest'
  BY <1>1 DEF Flow, AtRest, Stale, Plain, Quiet, Coming
<1>3. PICK r \in Requests :
        /\ req' = [r EXCEPT !.val = reqs']
        /\ IF ~r.aligned
             THEN Idle("error")
             ELSE /\ hpc' = "send" /\ step' = IF r.k = "pread" THEN "read" ELSE "program"
                  /\ left' = r.n /\ buf' = <<>>
  BY DEF ReadWrite
<1>4. r \in Request
  BY RequestType
<1>5. CASE ~r.aligned
  BY <1>2, <1>3, <1>5 DEF Idle, Flow, Faithful
<1>6. CASE r.aligned
  <2>1. hpc' = "send" /\ req'.n = r.n /\ left' = r.n /\ buf' = <<>>
    BY <1>3, <1>4, <1>6 DEF Request
  <2> QED  BY <1>2, <2>1 DEF Flow, Waiting
<1> QED  BY <1>5, <1>6

LEMMA UnloadFlow == TypeOK /\ Flow /\ Unload => Flow'
<1> SUFFICES ASSUME TypeOK, Flow, Unload PROVE Flow'
  OBVIOUS
<1>1. /\ hpc = "idle" /\ UNCHANGED <<mode, toDev, toHost, out, late>>
      /\ hpc' = "end" \/ (hpc' = "send" /\ step' = "power")
  BY DEF Unload, devVars, bounds
<1>2. AtRest'
  BY <1>1 DEF Flow, AtRest, Stale, Plain, Quiet, Coming
<1> QED  BY <1>1, <1>2 DEF Flow, Waiting

LEMMA EndError ==
  ASSUME End("error")
  PROVE  hpc' \in {"idle", "end"} /\ (hpc' = "idle" => Faithful')
  BY DEF End, Idle, Faithful

LEMMA SendFlow == TypeOK /\ Purpose /\ Flow /\ Send => Flow'
<1> SUFFICES ASSUME TypeOK, Purpose, Flow, Send PROVE Flow'
  OBVIOUS
<1>1. /\ hpc = "send" /\ AtRest /\ Waiting
      /\ UNCHANGED <<step, req, left, buf, toHost, out, mode, late>>
  BY DEF Send, Flow, devVars, bounds
<1>2. CASE mode = "gone"
  <2>1. End("error")
    BY <1>2 DEF Send
  <2> QED  BY <1>1, <1>2, <2>1, EndError DEF Flow, AtRest
<1>3. CASE mode # "gone"
  <2>1. toDev = <<>> /\ mode \in {"edl", "xml"} /\ Stale
    BY <1>1, <1>3 DEF AtRest
  <2>2. hpc' = "await" /\ resp' = "none" /\ toDev' = Append(toDev, Command)
    BY <1>3 DEF Send, Command
  <2>3. toDev' = <<Command'>>
    BY <1>1, <2>1, <2>2 DEF Command
  <2>4. step' # "finish"
    BY <1>1 DEF Purpose
  <2>5. Stale' /\ There({"edl", "xml"})'
    BY <1>1, <2>1 DEF Stale, Plain, Quiet, Coming, There
  <2>6. Asked' /\ Waiting'
    BY <1>1, <2>2, <2>3, <2>4, <2>5 DEF Asked, Waiting
  <2> QED  BY <2>2, <2>6 DEF Flow, Awaits
<1> QED  BY <1>2, <1>3

-----------------------------------------------------------------------------
(* The host reads a message.                                               *)

LEMMA PlainGoesOn ==
  ASSUME TypeOK, AwaitOne, IsPlain(Coming[1]), Coming[1] = Head(toHost)
  PROVE  /\ hpc' = "await" /\ resp' = Parsed(Coming[1].m)
         /\ Coming[1].m \in {"log", "info", "ACK", "NAK"}
<1>1. Coming[1].m \in {"log", "info", "ACK", "NAK"} /\ ~Coming[1].rawmode
  BY DEF IsPlain, XmlMsgs
<1>2. ~StopsReading(Coming[1])
  BY <1>1 DEF StopsReading
<1>3. Coming[1].m # "data"
  BY <1>1
<1> QED  BY <1>1, <1>2, <1>3 DEF AwaitOne

LEMMA AcceptedGoesOn ==
  ASSUME TypeOK, AwaitOne, Coming[1] = RawAck, Coming[1] = Head(toHost),
         step \in {"read", "program"}
  PROVE  hpc' = "stream"
<1>1. Coming[1].m = "ACK" /\ Coming[1].rawmode
  BY DEF RawAck, Xml
<1>2. StopsReading(Coming[1]) /\ Parsed(Coming[1].m) = "ACK"
  BY <1>1 DEF StopsReading, Parsed
<1>3. Coming[1].m # "data"
  BY <1>1
<1>4. resp' = "ACK" /\ Outcome(resp')
  BY <1>2, <1>3 DEF AwaitOne
<1>5. Outcome("ACK")
  BY <1>4
<1> QED  BY <1>5 DEF Outcome

LEMMA AwaitOneFlow == TypeOK /\ TypeOK' /\ Purpose /\ Flow /\ AwaitOne => Flow'
<1> SUFFICES ASSUME TypeOK, TypeOK', Purpose, Flow, AwaitOne PROVE Flow'
  OBVIOUS
<1>1. /\ hpc = "await" /\ Awaits /\ toHost # <<>> /\ toHost' = Tail(toHost)
      /\ UNCHANGED <<step, req, left, buf, toDev, out, mode, flash, want, taken, refused, late>>
  BY DEF AwaitOne, Flow, devVars, bounds
<1>2. /\ Len(Coming) \in Nat \ {0} /\ Coming[1] = Head(toHost) /\ Coming[1] \in Msgs
      /\ Len(Coming') = Len(Coming) - 1
      /\ \A j \in 1 .. Len(Coming) - 1 : Coming'[j] = Coming[j + 1]
  BY <1>1, Consumed
<1>3. req.n \in Nat /\ Len(Coming') \in Nat
  BY <1>2 DEF TypeOK, Reqs
<1>4. ~Quiet
  BY <1>2 DEF Quiet
<1>5. ASSUME Plain PROVE IsPlain(Coming[1]) /\ Plain'
  BY <1>2, <1>5 DEF Plain
<1>6. ASSUME NEW l \in Nat, Announced(l), l # 0
      PROVE  IsPlain(Coming[1]) /\ Announced(l - 1)' /\ late' # 0
  <2>1. /\ 1 \in 1 .. l /\ l \in 1 .. Len(Coming) - 1 /\ l - 1 + 1 = l
        /\ l - 1 < Len(Coming') /\ late' # 0
    BY <1>1, <1>2, <1>6 DEF Announced
  <2>2. Coming'[l] = RawAck
    BY <1>2, <1>6, <2>1 DEF Announced
  <2>3. \A j \in 1 .. l - 1 : IsPlain(Coming'[j])
    <3> TAKE j \in 1 .. l - 1
    <3>1. j \in 1 .. Len(Coming) - 1 /\ j + 1 \in 1 .. l
      BY <1>6, <2>1
    <3>2. Coming'[j] = Coming[j + 1]
      BY <1>2, <3>1
    <3> QED  BY <1>6, <3>1, <3>2 DEF Announced
  <2>4. IsPlain(Coming[1])
    BY <1>6, <2>1 DEF Announced
  <2>5. Announced(l - 1)'
    BY <2>1, <2>2, <2>3 DEF Announced
  <2> QED  BY <2>1, <2>4, <2>5
<1>7. CASE Waiting /\ (Asked \/ Told \/ Refused)
  <2>1. Plain
    BY <1>7 DEF Asked, Told, Refused, Stale
  <2>2. hpc' = "await" /\ Plain' /\ Waiting'
    BY <1>1, <1>2, <1>5, <1>7, <2>1, PlainGoesOn DEF Waiting
  <2>3. CASE Asked
    <3>1. late' # 0 /\ toDev' = <<Command'>> /\ There({"edl", "xml"})'
      BY <1>1, <1>4, <2>3 DEF Asked, Stale, Command, There
    <3>2. Asked'
      BY <1>1, <2>2, <2>3, <3>1 DEF Asked, Stale
    <3> QED  BY <2>2, <3>2 DEF Flow, Awaits
  <2>4. CASE Told
    <3>1. Told'
      BY <1>1, <2>2, <2>4 DEF Told, There
    <3> QED  BY <2>2, <3>1 DEF Flow, Awaits
  <2>5. CASE Refused
    <3>1. late' = 0 => Len(Coming') = 0
      BY <1>1, <1>2, <2>5 DEF Refused
    <3>2. Refused'
      BY <1>1, <2>2, <2>5, <3>1 DEF Refused, There, Quiet
    <3> QED  BY <2>2, <3>2 DEF Flow, Awaits
  <2> QED  BY <1>7, <2>3, <2>4, <2>5
<1>8. CASE Waiting /\ Reading
  <2>1. PICK l \in Nat : Announced(l) /\ Sectored(l + 1, 1)
    BY <1>8 DEF Reading
  <2>2. CASE l # 0
    <3>1. hpc' = "await" /\ Announced(l - 1)' /\ late' # 0
      BY <1>2, <1>6, <2>1, <2>2, PlainGoesOn
    <3>2. Sectored(l - 1 + 1, 1)'
      <4>1. /\ Len(Coming) = l + 1 + req.n + 1 /\ Coming[l + 1 + req.n + 1] = Ack
            /\ \A j \in 1 .. req.n :
                 Coming[l + 1 + j] = [m |-> "data", val |-> flash[req.off + (1 + j - 1) - 1]]
        BY <1>3, <2>1 DEF Sectored
      <4>2. Coming'[l + req.n + 1] = Ack
        BY <1>2, <1>3, <4>1
      <4>3. \A j \in 1 .. req.n :
              Coming'[l + j] = [m |-> "data", val |-> flash[req.off + (1 + j - 1) - 1]]
        <5> TAKE j \in 1 .. req.n
        <5>1. l + j \in 1 .. Len(Coming) - 1 /\ l + j + 1 = l + 1 + j
          BY <1>3, <4>1
        <5> QED  BY <1>2, <4>1, <5>1
      <4>4. Ack' = Ack /\ req' = req /\ flash' = flash
        BY <1>1 DEF Ack, Xml
      <4>5. l - 1 + 1 = l /\ req.n - 1 + 1 = req.n
        BY <1>3
      <4>6. Len(Coming') = l + req.n + 1
        BY <1>2, <1>3, <4>1
      <4> QED  BY <4>2, <4>3, <4>4, <4>5, <4>6 DEF Sectored
    <3>3. l - 1 \in Nat
      BY <2>2
    <3>4. Reading' /\ Waiting'
      BY <1>1, <1>8, <3>1, <3>2, <3>3 DEF Reading, Waiting, There
    <3> QED  BY <3>1, <3>4 DEF Flow, Awaits
  <2>3. CASE l = 0
    <3>1. Coming[1] = RawAck /\ step = "read" /\ buf = <<>> /\ left = req.n
      BY <1>8, <2>1, <2>3 DEF Announced, Reading, Waiting
    <3>2. hpc' = "stream"
      BY <1>2, <3>1, AcceptedGoesOn
    <3>3. Len(buf) = 0
      BY <3>1, EmptySeq
    <3>4. Sectored(0, Len(buf) + 1)'
      <4>1. /\ Len(Coming) = 1 + req.n + 1 /\ Coming[1 + req.n + 1] = Ack
            /\ \A j \in 1 .. req.n :
                 Coming[1 + j] = [m |-> "data", val |-> flash[req.off + (1 + j - 1) - 1]]
        BY <1>3, <2>1, <2>3 DEF Sectored
      <4>2. Coming'[req.n + 1] = Ack
        <5>1. req.n + 1 \in 1 .. Len(Coming) - 1 /\ req.n + 1 + 1 = 1 + req.n + 1
          BY <1>3, <4>1
        <5>2. Coming'[req.n + 1] = Coming[req.n + 1 + 1]
          BY <1>2, <5>1
        <5> QED  BY <4>1, <5>1, <5>2
      <4>3. \A j \in 1 .. req.n :
              Coming'[j] = [m |-> "data", val |-> flash[req.off + (1 + j - 1) - 1]]
        <5> TAKE j \in 1 .. req.n
        <5>1. j \in 1 .. Len(Coming) - 1 /\ j + 1 = 1 + j
          BY <1>3, <4>1
        <5> QED  BY <1>2, <4>1, <5>1
      <4>4. Ack' = Ack /\ req' = req /\ flash' = flash /\ buf' = buf
        BY <1>1 DEF Ack, Xml
      <4>5. req.n - 1 + 1 = req.n /\ 0 + req.n + 1 = req.n + 1 /\ 0 + 1 = 1
            /\ \A j \in 1 .. req.n : 0 + j = j
        BY <1>3
      <4>6. Len(Coming') = req.n + 1
        BY <1>2, <1>3, <4>1
      <4> QED  BY <3>3, <4>2, <4>3, <4>4, <4>5, <4>6 DEF Sectored
    <3>5. /\ req'.k = "pread" /\ toDev' = <<>> /\ There({"xml"})'
          /\ Read' /\ Len(buf') + left' = req'.n
      BY <1>1, <1>3, <1>8, <3>1, <3>3 DEF Reading, There, Read, Purpose
    <3> QED  BY <3>2, <3>4, <3>5 DEF Flow, Streams
  <2> QED  BY <2>2, <2>3
<1>9. CASE Waiting /\ Writing
  <2>1. PICK l \in Nat : Announced(l) /\ Len(Coming) = l + 1
    BY <1>9 DEF Writing
  <2>2. CASE l # 0
    <3>1. hpc' = "await" /\ Announced(l - 1)' /\ late' # 0
      BY <1>2, <1>6, <2>1, <2>2, PlainGoesOn
    <3>2. l - 1 \in Nat /\ Len(Coming') = l - 1 + 1
      BY <1>2, <2>1, <2>2
    <3>3. Writing' /\ Waiting'
      BY <1>1, <1>9, <3>1, <3>2 DEF Writing, Waiting, There
    <3> QED  BY <3>1, <3>3 DEF Flow, Awaits
  <2>3. CASE l = 0
    <3>1. Coming[1] = RawAck /\ step = "program" /\ left = req.n /\ Len(Coming') = 0
      <4>1. Coming[1] = RawAck
        BY <2>1, <2>3 DEF Announced
      <4>2. Len(Coming') = 0
        BY <1>2, <2>1, <2>3
      <4> QED  BY <1>9, <4>1, <4>2 DEF Writing, Waiting
    <3>2. hpc' = "stream" /\ req.k = "pwrite" /\ req.n > 0
      BY <1>1, <1>2, <3>1, AcceptedGoesOn DEF Purpose
    <3>3. Len(toDev) = 0 /\ Len(taken) = 0
      BY <1>9, EmptySeq DEF Writing
    <3>4. Taking'
      BY <1>1, <1>3, <1>9, <3>1, <3>2, <3>3 DEF Writing, Taking, There, OnTheirWay, Quiet
    <3> QED  BY <1>1, <3>2, <3>4 DEF Flow, Streams
  <2> QED  BY <2>2, <2>3
<1>10. CASE /\ step = "finish" /\ req.k = "pread" /\ toDev = <<>> /\ There({"xml"})
            /\ Read /\ Len(buf) = req.n /\ Answer("ACK")
  <2>1. IsPlain(Coming[1]) /\ Coming[1].m = "ACK"
    <3>1. Coming[1] = Ack
      BY <1>10 DEF Answer, Ack
    <3> QED  BY <3>1, Responses
  <2>2. Len(Coming') = 0
    BY <1>2, <1>10 DEF Answer
  <2>3. hpc' = "await" /\ resp' = "ACK"
    BY <1>2, <1>10, <2>1, PlainGoesOn DEF Parsed
  <2>4. Read' /\ There({"xml"})' /\ Quiet'
    BY <1>1, <1>10, <2>2 DEF Read, There, Quiet
  <2> QED  BY <1>1, <1>10, <2>3, <2>4 DEF Flow, Awaits
<1>11. CASE /\ step = "finish" /\ req.k = "pwrite" /\ left = 0
            /\ Taken /\ (Answer("ACK") \/ Answer("NAK"))
  <2>1. IsPlain(Coming[1]) /\ Coming[1].m \in {"ACK", "NAK"}
    <3>1. Coming[1] = Ack \/ Coming[1] = Nak
      BY <1>11 DEF Answer, Ack, Nak
    <3> QED  BY <3>1, Responses
  <2>2. Len(Coming') = 0
    <3>1. Len(Coming) = 1
      BY <1>11, Zenon DEF Answer
    <3> QED  BY <1>2, <3>1
  <2>3. hpc' = "await" /\ resp' \in {"ACK", "NAK"}
    BY <1>2, <1>11, <2>1, PlainGoesOn DEF Parsed
  <2>4. Taken' /\ Quiet'
    BY <1>1, <1>11, <2>2 DEF Taken, Written, There, Quiet
  <2> QED  BY <1>1, <1>11, <2>3, <2>4 DEF Flow, Awaits
<1> QED  BY <1>1, <1>4, <1>7, <1>8, <1>9, <1>10, <1>11 DEF Awaits, Taking, Dropping, OnTheirWay

-----------------------------------------------------------------------------
(* The host has waited for long enough.                                    *)

\* As long as something is to come, only a silence after a response ends the waiting.
LEMMA Patience ==
  ASSUME TypeOK, AwaitDone, InTime', mode # "gone", toDev # <<>> \/ ~Quiet
  PROVE  resp # "none" /\ late = 0 /\ late' = 1
<1>1. toHost = <<>>
  BY DEF AwaitDone
<1>2. toDev # <<>> \/ out # <<>>
  BY <1>1, QuietIs
<1>3. ~Silent
  BY <1>2 DEF Silent
<1>4. \/ resp # "none" /\ late' = late + 1
      \/ timeouts' = timeouts + 1
  BY <1>3 DEF AwaitDone
<1>5. late \in Nat /\ timeouts \in Nat
  BY DEF TypeOK
<1> QED  BY <1>4, <1>5 DEF InTime

LEMMA UnpluggedDone ==
  ASSUME TypeOK, Purpose, AwaitDone, mode = "gone", Waiting, step # "finish"
  PROVE  Flow'
<1>1. /\ hpc = "await" /\ toHost = <<>> /\ toHost' = <<>> /\ Outcome(resp) /\ mode' = "gone"
      /\ req' = req /\ left' = left /\ req.n \in Nat
  BY DEF AwaitDone, devVars, TypeOK, Reqs
<1>2. AtRest'
  BY <1>1 DEF AtRest
<1>3. CASE step \in {"getstorageinfo", "power"}
  <2>1. req.k \in {"open", "unload"} /\ (End("ok") \/ End("error"))
    BY <1>1, <1>3 DEF Purpose, Outcome
  <2>2. hpc' \in {"idle", "end"}
    BY <2>1, Ends
  <2> QED  BY <1>1, <1>2, <2>1, <2>2 DEF Flow, Faithful
<1>4. CASE step \in {"read", "program"}
  <2>1. left' > 0 /\ (hpc' = "stream" \/ End("error"))
    BY <1>1, <1>4 DEF Purpose, Outcome, Waiting
  <2>2. CASE hpc' = "stream"
    <3>1. Dead'
      BY <1>1, <2>1 DEF Dead, Silent, There
    <3> QED  BY <2>2, <3>1 DEF Flow, Streams
  <2>3. CASE End("error")
    BY <1>2, <2>3, EndError DEF Flow
  <2> QED  BY <2>1, <2>2, <2>3
<1>5. step \in Steps
  BY <1>1 DEF TypeOK
<1> QED  BY <1>3, <1>4, <1>5 DEF Steps

LEMMA GivesUp ==
  ASSUME TypeOK, UNCHANGED <<mode, toDev, toHost, out>>, End("error"),
         mode = "gone" \/ (toDev = <<>> /\ mode = "xml" /\ Quiet)
  PROVE  Flow'
<1>1. UNCHANGED <<mode, toDev, toHost, out>>
  OBVIOUS
<1>2. AtRest'
  <2>1. CASE mode = "gone"
    BY <1>1, <2>1 DEF AtRest
  <2>2. CASE toDev = <<>> /\ mode = "xml" /\ Quiet
    <3>1. Quiet' /\ Len(Coming') = 0
      BY <1>1, <2>2 DEF Quiet, Coming
    <3>2. Plain'
      BY <3>1 DEF Plain
    <3> QED  BY <1>1, <2>2, <3>1, <3>2 DEF AtRest, Stale
  <2> QED  BY <2>1, <2>2
<1> QED  BY <1>2, EndError DEF Flow

\* A request whose last response has come.
LEMMA Finishes ==
  ASSUME TypeOK, AwaitDone, End("ok"), req.k \in {"pread", "pwrite"},
         toDev = <<>>, There({"xml"}), Quiet, Faithful'
  PROVE  Flow'
<1>1. UNCHANGED <<mode, toDev, toHost, out>>
  BY DEF AwaitDone, devVars
<1>2. Quiet' /\ Len(Coming') = 0
  BY <1>1 DEF Quiet, Coming
<1>3. Plain'
  BY <1>2 DEF Plain
<1>4. AtRest'
  BY <1>1, <1>2, <1>3 DEF AtRest, Stale, There
<1>5. hpc' = "idle"
  BY DEF End, Idle
<1> QED  BY <1>4, <1>5 DEF Flow

LEMMA SameSectors ==
  ASSUME TypeOK, hpc = "await", Read, Len(buf) = req.n
  PROVE  buf = Region
<1>1. buf \in Seq(Int) /\ req.n \in Nat
  BY DEF TypeOK, Reqs
<1>2. buf = [i \in 1 .. req.n |-> buf[i]]
  BY <1>1
<1> QED  BY <1>1, <1>2 DEF Read, Region

LEMMA AwaitDoneFlow == TypeOK /\ Purpose /\ Flow /\ InTime' /\ AwaitDone => Flow'
<1> SUFFICES ASSUME TypeOK, Purpose, Flow, InTime', AwaitDone PROVE Flow'
  OBVIOUS
<1>1. /\ hpc = "await" /\ Awaits /\ toHost = <<>> /\ Outcome(resp)
      /\ UNCHANGED <<step, req, resp, left, buf, toDev, toHost, refused>>
      /\ UNCHANGED <<out, mode, flash, want, taken>>
  BY DEF AwaitDone, Flow, devVars
<1>2. late' = 0 => late = 0
  <2>1. late \in Nat /\ late' \in {late, late + 1}
    BY DEF AwaitDone, TypeOK
  <2> QED  BY <2>1
<1>3. /\ req.n \in Nat
      /\ Outcome("none") /\ resp = "none" /\ step = "finish" => End("error")
  BY <1>1 DEF Outcome, TypeOK, Purpose, Reqs
<1>4. CASE Waiting /\ mode = "gone" /\ step # "finish"
  BY <1>4, UnpluggedDone
<1>5. CASE Waiting /\ Asked /\ mode # "gone"
  <2>1. toDev # <<>>
    BY <1>5 DEF Asked
  <2> QED  BY <1>5, <2>1, Patience DEF Asked
<1>6. CASE Waiting /\ (Reading \/ Writing) /\ mode # "gone"
  <2>1. ~Quiet
    <3>1. ASSUME NEW l \in Nat, Announced(l) PROVE ~Quiet
      <4>1. l < Len(Coming)
        BY <3>1 DEF Announced
      <4> QED  BY <4>1 DEF Quiet
    <3> QED  BY <1>6, <3>1 DEF Reading, Writing
  <2> QED  BY <1>6, <2>1, Patience DEF Reading, Writing
<1>7. CASE Waiting /\ Told /\ mode # "gone"
  <2>1. CASE step = "power"
    <3>1. req.k = "unload" /\ End("ok")
      BY <1>1, <2>1 DEF Purpose, Outcome
    <3>2. hpc' = "end"
      BY <3>1 DEF End
    <3> QED  BY <3>2 DEF Flow
  <2>2. CASE step = "getstorageinfo"
    <3>1. req.k = "open" /\ (End("ok") \/ End("error"))
      BY <1>1, <2>2 DEF Purpose, Outcome
    <3>2. hpc' = "idle"
      BY <3>1 DEF End, Idle
    <3>3. mode = "xml" /\ toDev = <<>> /\ Plain
      BY <1>7, <2>2 DEF Told, There
    <3>4. late' = 0 => Quiet
      BY <1>2, <1>7, Patience
    <3>5. AtRest'
      BY <1>1, <3>3, <3>4 DEF AtRest, Stale, Plain, Quiet, Coming
    <3> QED  BY <1>1, <3>1, <3>2, <3>5 DEF Flow, Faithful
  <2> QED  BY <1>7, <2>1, <2>2 DEF Told
<1>8. CASE Waiting /\ Refused /\ mode # "gone"
  <2>1. toDev = <<>> /\ mode = "xml" /\ Quiet /\ refused > 0 /\ left = req.n /\ out = <<>>
    <3>1. Quiet
      BY <1>8, Patience DEF Refused
    <3>2. out = <<>>
      BY <3>1, QuietIs
    <3> QED  BY <1>8, <3>1, <3>2 DEF Refused, There, Waiting
  <2>2. CASE End("error")
    BY <1>1, <2>1, <2>2, GivesUp
  <2>3. CASE step = "read" /\ hpc' = "stream"
    <3>1. req.k = "pread" /\ req.n > 0
      BY <1>1, <2>3 DEF Purpose
    <3>2. Dead'
      BY <1>1, <2>1, <3>1 DEF Dead, Silent, There
    <3> QED  BY <2>3, <3>2 DEF Flow, Streams
  <2>4. CASE step = "program" /\ hpc' = "stream"
    <3>1. req.k = "pwrite"
      BY <1>1, <2>4 DEF Purpose
    <3>2. Quiet'
      BY <1>1, <2>1 DEF Quiet, Coming
    <3>3. \A i \in 1 .. Len(toDev') : toDev'[i] = Sector'
      <4>1. Len(toDev') = 0
        BY <1>1, <2>1, EmptySeq
      <4> QED  BY <4>1
    <3>4. Dropping'
      BY <1>1, <2>1, <3>2, <3>3 DEF Dropping, OnTheirWay, There
    <3> QED  BY <1>1, <2>4, <3>1, <3>4 DEF Flow, Streams
  <2> QED  BY <1>1, <1>8, <2>2, <2>3, <2>4 DEF Outcome, Refused
<1>9. CASE /\ step = "finish" /\ req.k = "pread" /\ toDev = <<>> /\ There({"xml"})
           /\ Read /\ Len(buf) = req.n
           /\ \/ resp = "none" /\ Answer("ACK")
              \/ resp = "ACK" /\ Quiet
  <2>1. CASE resp = "none" /\ Answer("ACK")
    <3>1. ~Quiet
      BY <2>1 DEF Answer, Quiet
    <3>2. mode = "gone"
      BY <2>1, <3>1, Patience
    <3>3. End("error")
      BY <1>1, <1>3, <1>9, <2>1
    <3> QED  BY <1>1, <3>2, <3>3, GivesUp
  <2>2. CASE resp = "ACK" /\ Quiet
    <3>1. End("ok")
      BY <1>1, <1>9, <2>2 DEF Outcome
    <3>2. buf = Region
      BY <1>1, <1>9, SameSectors
    <3>3. Faithful'
      BY <1>1, <1>9, <3>2 DEF Faithful, Region
    <3> QED  BY <1>9, <2>2, <3>1, <3>3, Finishes
  <2> QED  BY <1>9, <2>1, <2>2
<1>10. CASE /\ step = "finish" /\ req.k = "pwrite" /\ left = 0
            /\ \/ (Taking \/ Dropping) /\ resp = "none"
               \/ Taken /\ resp = "none" /\ (Answer("ACK") \/ Answer("NAK"))
               \/ Taken /\ resp \in {"ACK", "NAK"} /\ Quiet
  <2>1. CASE Taking /\ resp = "none"
    <3>1. mode = "gone" \/ toDev # <<>>
      <4>1. Len(toDev) # 0 /\ (toDev = <<>> => Len(toDev) = 0)
        <5>1. Len(taken) \in Nat /\ Len(toDev) \in Nat
          BY LenProperties DEF TypeOK
        <5> QED  BY <1>3, <1>10, <2>1, <5>1, EmptySeq DEF Taking
      <4> QED  BY <4>1
    <3>2. mode = "gone"
      BY <2>1, <3>1, Patience
    <3>3. End("error")
      BY <1>1, <1>3, <1>10, <2>1
    <3> QED  BY <1>1, <3>2, <3>3, GivesUp
  <2>2. CASE Dropping /\ resp = "none"
    <3>1. mode = "gone" \/ toDev = <<>>
      BY <2>2, Patience
    <3>2. End("error")
      BY <1>1, <1>3, <1>10, <2>2
    <3> QED  BY <1>1, <2>2, <3>1, <3>2, GivesUp DEF Dropping, There, OnTheirWay
  <2>3. CASE Taken /\ resp = "none" /\ (Answer("ACK") \/ Answer("NAK"))
    <3>1. ~Quiet
      <4>1. Len(Coming) = 1
        BY <2>3, Zenon DEF Answer
      <4> QED  BY <4>1 DEF Quiet
    <3>2. mode = "gone"
      BY <2>3, <3>1, Patience
    <3>3. End("error")
      BY <1>1, <1>3, <1>10, <2>3
    <3> QED  BY <1>1, <3>2, <3>3, GivesUp
  <2>4. CASE Taken /\ resp \in {"ACK", "NAK"} /\ Quiet
    <3>1. End("ok")
      BY <1>1, <1>10, <2>4 DEF Outcome
    <3>2. Faithful'
      BY <1>1, <1>10, <2>4 DEF Faithful, Taken, Written
    <3> QED  BY <1>10, <2>4, <3>1, <3>2, Finishes DEF Taken
  <2> QED  BY <1>10, <2>1, <2>2, <2>3, <2>4
<1> QED  BY <1>1, <1>4, <1>5, <1>6, <1>7, <1>8, <1>9, <1>10
         DEF Awaits, Asked, Told, Refused, Reading, Writing

-----------------------------------------------------------------------------
(* The data phase.                                                         *)

\* A read takes the next sector.
LEMMA SectorRead ==
  ASSUME TypeOK, TypeOK', toDev = <<>>, Read, NEW n \in Nat, Len(buf) + left = req.n,
         left = n + 1, Sectored(0, Len(buf) + 1), toHost # <<>>,
         buf' = Append(buf, IF Head(toHost).m = "data" THEN Head(toHost).val ELSE -1),
         toHost' = Tail(toHost), left' = left - 1, UNCHANGED <<out, req, flash>>
  PROVE  Read' /\ Len(buf') + left' = req'.n /\ Sectored(0, Len(buf) + 1)'
<1>1. PICK b \in Nat : b = Len(buf) /\ req.n = b + n + 1
  <2>1. Len(buf) \in Nat
    BY LenProperties DEF TypeOK
  <2> QED  BY <2>1
<1>2. /\ Len(Coming) = n + 2 /\ Coming[n + 2] = Ack
      /\ \A j \in 1 .. n + 1 : Coming[j] = [m |-> "data", val |-> flash[req.off + (b + 1 + j - 1) - 1]]
  <2>1. req.n - (b + 1) + 1 = n + 1 /\ 0 + (n + 1) + 1 = n + 2 /\ \A j \in 1 .. n + 1 : 0 + j = j
    BY <1>1
  <2> QED  BY <1>1, <2>1 DEF Sectored
<1>3. /\ Coming[1] = Head(toHost) /\ Len(Coming') = Len(Coming) - 1
      /\ \A j \in 1 .. Len(Coming) - 1 : Coming'[j] = Coming[j + 1]
  BY Consumed
<1>4. Len(Coming') = n + 1 /\ \A j \in 1 .. n + 1 : Coming'[j] = Coming[j + 1]
  <2>1. Len(Coming) - 1 = n + 1
    BY <1>2
  <2> QED  BY <1>3, <2>1
<1>5. req.off \in Nat
  BY DEF TypeOK, Reqs
<1>6. Head(toHost).m = "data" /\ Head(toHost).val = flash[req.off + (b + 1) - 1]
  <2>1. 1 \in 1 .. n + 1 /\ b + 1 + 1 - 1 = b + 1
    BY <1>1
  <2>2. Coming[1] = [m |-> "data", val |-> flash[req.off + (b + 1) - 1]]
    BY <1>2, <2>1
  <2> QED  BY <1>3, <2>2
<1>7. /\ Len(buf') = b + 1 /\ buf'[b + 1] = flash[req.off + (b + 1) - 1]
      /\ \A i \in 1 .. b : buf'[i] = buf[i]
  <2>1. buf' = Append(buf, flash[req.off + (b + 1) - 1])
    BY <1>6
  <2>2. buf \in Seq(Int) /\ flash[req.off + (b + 1) - 1] \in Int
    <3>1. Head(toHost) \in Msgs
      BY <1>3, Consumed
    <3> QED  BY <1>6, <3>1 DEF TypeOK, Msgs, XmlMsgs
  <2> QED  BY <1>1, <2>1, <2>2, AppendProperties
<1>8. Read'
  <2>1. \A i \in 1 .. b + 1 : buf'[i] = flash[req.off + i - 1]
    BY <1>1, <1>7 DEF Read
  <2> QED  BY <1>7, <2>1 DEF Read
<1>9. Sectored(0, Len(buf) + 1)'
  <2>1. Coming'[n + 1] = Ack'
    <3>1. n + 1 \in 1 .. n + 1 /\ n + 1 + 1 = n + 2
      OBVIOUS
    <3> QED  BY <1>2, <1>4, <3>1 DEF Ack, Xml
  <2>2. \A j \in 1 .. n :
          Coming'[j] = [m |-> "data", val |-> flash[req.off + (b + 1 + 1 + j - 1) - 1]]
    <3> TAKE j \in 1 .. n
    <3>1. j \in 1 .. n + 1 /\ j + 1 \in 1 .. n + 1 /\ b + 1 + (j + 1) - 1 = b + 1 + 1 + j - 1
      BY <1>1
    <3> QED  BY <1>2, <1>4, <3>1
  <2>3. req.n - (b + 1 + 1) + 1 = n /\ 0 + n + 1 = n + 1 /\ \A j \in 1 .. n : 0 + j = j
    BY <1>1
  <2> QED  BY <1>4, <1>7, <2>1, <2>2, <2>3 DEF Sectored
<1> QED  BY <1>1, <1>7, <1>8, <1>9

\* More sectors are on their way to the device.
LEMMA SectorsSent ==
  ASSUME TypeOK, \A i \in 1 .. Len(toDev) : toDev[i] = Sector,
         toDev' = toDev \o [i \in 1 .. Chunk |-> [cmd |-> "data", val |-> req.val]],
         UNCHANGED req
  PROVE  /\ Len(toDev) \in Nat /\ Len(toDev') = Len(toDev) + Chunk
         /\ \A i \in 1 .. Len(toDev') : toDev'[i] = Sector'
<1> DEFINE more == [i \in 1 .. Chunk |-> [cmd |-> "data", val |-> req.val]]
<1>1. Chunk \in Nat
  BY ChunkType
<1>2. Sector \in Cmds /\ Sector' = Sector
  BY DEF TypeOK, Reqs, Cmds, Sector
<1>3. more \in Seq(Cmds) /\ Len(more) = Chunk /\ \A i \in 1 .. Chunk : more[i] = Sector
  BY <1>1, <1>2 DEF Sector
<1>4. toDev \in Seq(Cmds) /\ Len(toDev) \in Nat
  BY LenProperties DEF TypeOK
<1>5. /\ Len(toDev \o more) = Len(toDev) + Len(more)
      /\ \A i \in 1 .. Len(toDev) + Len(more) :
           (toDev \o more)[i] = IF i <= Len(toDev) THEN toDev[i] ELSE more[i - Len(toDev)]
  BY <1>3, <1>4, ConcatProperties
<1>6. ASSUME NEW i \in 1 .. Len(toDev) + Chunk
      PROVE  (toDev \o more)[i] = Sector
  <2>1. CASE i <= Len(toDev)
    <3>1. i \in 1 .. Len(toDev) /\ (toDev \o more)[i] = toDev[i]
      BY <1>1, <1>3, <1>4, <1>5, <2>1
    <3> QED  BY <3>1
  <2>2. CASE ~(i <= Len(toDev))
    <3>1. i - Len(toDev) \in 1 .. Chunk /\ (toDev \o more)[i] = more[i - Len(toDev)]
      BY <1>1, <1>3, <1>4, <1>5, <2>2
    <3> QED  BY <1>3, <3>1
  <2> QED  BY <2>1, <2>2
<1> QED  BY <1>2, <1>3, <1>4, <1>5, <1>6

LEMMA StreamFlow == TypeOK /\ TypeOK' /\ Purpose /\ Flow /\ Stream => Flow'
<1> SUFFICES ASSUME TypeOK, TypeOK', Purpose, Flow, Stream PROVE Flow'
  OBVIOUS
<1>1. /\ hpc = "stream" /\ Streams /\ req.k \in {"pread", "pwrite"}
      /\ UNCHANGED <<req, out, mode, flash, want, taken, refused, late>>
  BY DEF Stream, Flow, Purpose, devVars, bounds
<1>2. /\ req.n \in Nat /\ left \in Nat /\ Len(buf) \in Nat /\ Len(toDev) \in Nat
      /\ Len(taken) \in Nat
  BY LenProperties DEF TypeOK, Reqs
<1>3. CASE left = 0
  <2>1. /\ hpc' = "await" /\ step' = "finish" /\ resp' = "none"
        /\ UNCHANGED <<left, buf, toDev, toHost>>
    BY <1>3 DEF Stream, Streamed, AfterData
  <2>2. ~Dead
    BY <1>3 DEF Dead
  <2>3. CASE /\ req.k = "pread" /\ toDev = <<>> /\ There({"xml"})
             /\ Read /\ Len(buf) + left = req.n /\ Sectored(0, Len(buf) + 1)
    <3>1. Len(buf) = req.n /\ req.n - (Len(buf) + 1) + 1 = 0
      BY <1>2, <1>3, <2>3
    <3>2. Len(Coming) = 1 /\ Coming[1] = Ack
      BY <2>3, <3>1 DEF Sectored
    <3>3. Answer("ACK")'
      BY <1>1, <2>1, <3>2 DEF Answer, Coming, Ack, Xml
    <3>4. Read' /\ There({"xml"})'
      BY <1>1, <2>1, <2>3 DEF Read, There
    <3> QED  BY <1>1, <2>1, <2>3, <3>1, <3>3, <3>4 DEF Flow, Awaits
  <2>4. CASE /\ req.k = "pwrite"
             /\ \/ Taking \/ Dropping
                \/ Taken /\ (Answer("ACK") \/ Answer("NAK"))
    <3>1. CASE Taking \/ Dropping
      <4>1. OnTheirWay'
        BY <1>1, <2>1, <3>1 DEF Taking, Dropping, OnTheirWay, Quiet, Coming, Sector
      <4>2. Taking' \/ Dropping'
        BY <1>1, <2>1, <3>1, <4>1 DEF Taking, Dropping, There
      <4> QED  BY <1>1, <1>3, <2>1, <2>4, <4>2 DEF Flow, Awaits
    <3>2. CASE Taken /\ (Answer("ACK") \/ Answer("NAK"))
      <4>1. Taken'
        BY <1>1, <2>1, <3>2 DEF Taken, There, Written
      <4>2. Answer("ACK")' \/ Answer("NAK")'
        BY <1>1, <2>1, <3>2 DEF Answer, Coming, Xml
      <4> QED  BY <1>1, <1>3, <2>1, <2>4, <4>1, <4>2 DEF Flow, Awaits
    <3> QED  BY <2>4, <3>1, <3>2
  <2> QED  BY <1>1, <2>2, <2>3, <2>4 DEF Streams
<1>4. CASE left # 0 /\ req.k = "pread" /\ toHost # <<>>
  <2>1. /\ buf' = Append(buf, IF Head(toHost).m = "data" THEN Head(toHost).val ELSE -1)
        /\ toHost' = Tail(toHost) /\ left' = left - 1 /\ UNCHANGED <<hpc, toDev>>
    BY <1>4 DEF Stream, Streamed
  <2>2. /\ toDev = <<>> /\ There({"xml"})
        /\ Read /\ Len(buf) + left = req.n /\ Sectored(0, Len(buf) + 1)
    BY <1>1, <1>4 DEF Streams, Dead
  <2>3. PICK n \in Nat : left = n + 1
    <3>1. left - 1 \in Nat /\ left = left - 1 + 1
      BY <1>2, <1>4
    <3> QED  BY <3>1
  <2>4. Read' /\ Len(buf') + left' = req'.n /\ Sectored(0, Len(buf) + 1)'
    BY <1>1, <1>4, <2>1, <2>2, <2>3, SectorRead
  <2>5. There({"xml"})'
    BY <1>1, <2>2 DEF There
  <2> QED  BY <1>1, <1>4, <2>1, <2>2, <2>4, <2>5 DEF Flow, Streams
<1>5. CASE left # 0 /\ req.k = "pread" /\ toHost = <<>>
  <2>1. Silent /\ End("error") /\ UNCHANGED <<toDev, toHost>>
    BY <1>5 DEF Stream, Streamed
  <2>2. There({"xml"})
    BY <1>1, <1>5 DEF Streams, Dead
  <2>3. mode = "gone" \/ (toDev = <<>> /\ mode = "xml" /\ Quiet)
    BY <1>5, <2>1, <2>2, QuietIs DEF Silent, There
  <2> QED  BY <1>1, <2>1, <2>3, GivesUp
<1>6. CASE left # 0 /\ req.k = "pwrite"
  <2>1. CASE mode = "gone"
    <3>1. End("error") /\ UNCHANGED <<toDev, toHost>>
      BY <1>6, <2>1 DEF Stream, Streamed
    <3> QED  BY <1>1, <2>1, <3>1, GivesUp
  <2>2. CASE mode # "gone"
    <3>1. /\ toDev' = toDev \o [i \in 1 .. Chunk |-> [cmd |-> "data", val |-> req.val]]
          /\ left' = left - Chunk /\ UNCHANGED <<hpc, toHost>>
      BY <1>6, <2>2 DEF Stream, Streamed
    <3>2. Taking \/ Dropping
      BY <1>1, <1>6, <2>2 DEF Streams, Dead, Taken
    <3>3. /\ Len(toDev') = Len(toDev) + Chunk
          /\ \A i \in 1 .. Len(toDev') : toDev'[i] = Sector'
      BY <1>1, <3>1, <3>2, SectorsSent DEF Taking, Dropping, OnTheirWay
    <3>4. OnTheirWay'
      BY <1>1, <3>1, <3>2, <3>3 DEF Taking, Dropping, OnTheirWay, Quiet, Coming
    <3>5. CASE Taking
      <4>1. Len(taken') + Len(toDev') + left' = req'.n
        <5>1. Chunk \in Nat
          BY ChunkType
        <5> QED  BY <1>1, <1>2, <3>1, <3>3, <3>5, <5>1 DEF Taking
      <4>2. Taking'
        BY <1>1, <3>4, <3>5, <4>1 DEF Taking, There
      <4> QED  BY <1>1, <1>6, <3>1, <4>2 DEF Flow, Streams
    <3>6. CASE Dropping
      <4>1. Dropping'
        BY <1>1, <3>4, <3>6 DEF Dropping, There
      <4> QED  BY <1>1, <1>6, <3>1, <4>1 DEF Flow, Streams
    <3> QED  BY <3>2, <3>5, <3>6
  <2> QED  BY <2>1, <2>2
<1> QED  BY <1>1, <1>3, <1>4, <1>5, <1>6

-----------------------------------------------------------------------------
(* The steps of the device.                                                *)

\* Nothing has changed for the host but that the device may be gone.
LEMMA Unmoved ==
  ASSUME Flow, Coming' = Coming, mode' \in {mode, "gone"}, Dead => Dead',
         UNCHANGED <<hpc, step, req, resp, left, buf, ret>>,
         UNCHANGED <<toDev, flash, want, taken, refused, late>>
  PROVE  Flow'
<1>1. /\ Plain => Plain'
      /\ Quiet => Quiet'
      /\ Stale => Stale'
  BY DEF Plain, Quiet, Stale
<1>2. Ack' = Ack /\ RawAck' = RawAck /\ \A x : Xml(x, FALSE)' = Xml(x, FALSE)
  BY DEF Ack, RawAck, Xml
<1>3. /\ Answer("ACK") => Answer("ACK")'
      /\ Answer("NAK") => Answer("NAK")'
  BY DEF Answer, Xml
<1>4. \A l \in Nat : Announced(l) => Announced(l)'
  BY <1>2 DEF Announced
<1>5. \A l \in Nat : Sectored(l + 1, 1) => Sectored(l + 1, 1)'
  BY <1>2 DEF Sectored
<1>6. Sectored(0, Len(buf) + 1) => Sectored(0, Len(buf) + 1)'
  BY <1>2 DEF Sectored
<1>7. /\ There({"edl", "xml"}) => There({"edl", "xml"})'
      /\ There({"xml"}) => There({"xml"})'
      /\ There({"in"}) => There({"in"})'
      /\ There(IF step = "power" THEN {"xml", "off"} ELSE {"xml"}) =>
           There(IF step = "power" THEN {"xml", "off"} ELSE {"xml"})'
  BY DEF There
<1>8. hpc \in {"idle", "up", "send"} => AtRest'
  BY <1>1 DEF Flow, AtRest
<1>9. Waiting => Waiting'
  BY DEF Waiting
<1>10. Asked => Asked'
  BY <1>1, <1>7 DEF Asked, Command
<1>11. (Told => Told') /\ (Refused => Refused')
  BY <1>1, <1>7 DEF Told, Refused
<1>12. Reading => Reading'
  BY <1>4, <1>5, <1>7 DEF Reading
<1>13. Writing => Writing'
  BY <1>4, <1>7 DEF Writing
<1>14. OnTheirWay => OnTheirWay'
  BY <1>1 DEF OnTheirWay, Sector
<1>15. (Taking => Taking') /\ (Dropping => Dropping')
  BY <1>7, <1>14 DEF Taking, Dropping
<1>16. Taken => Taken'
  BY <1>7 DEF Taken, Written
<1>17. Read => Read'
  BY DEF Read
<1>18. hpc = "await" => Awaits'
  BY <1>1, <1>3, <1>7, <1>9, <1>10, <1>11, <1>12, <1>13, <1>15, <1>16, <1>17 DEF Flow, Awaits
<1>19. hpc = "stream" => Streams'
  BY <1>3, <1>6, <1>7, <1>15, <1>16, <1>17 DEF Flow, Streams
<1>20. Faithful => Faithful'
  BY DEF Faithful, Region, Written
<1> QED  BY <1>8, <1>9, <1>18, <1>19, <1>20 DEF Flow

LEMMA DevSayFlow == TypeOK /\ Flow /\ DevSay => Flow'
<1> SUFFICES ASSUME TypeOK, Flow, DevSay PROVE Flow'
  OBVIOUS
<1>1. Coming' = Coming
  BY Said
<1>2. /\ mode # "gone" /\ out # <<>> /\ mode' = mode
      /\ UNCHANGED <<hpc, step, req, resp, left, buf, ret>>
      /\ UNCHANGED <<toDev, flash, want, taken, refused, late>>
  BY DEF DevSay, bounds
<1>3. ~Dead
  BY <1>2 DEF Dead, Silent
<1> QED  BY <1>1, <1>2, <1>3, Unmoved

LEMMA UnplugFlow == Flow /\ Unplug => Flow'
<1> SUFFICES ASSUME Flow, Unplug PROVE Flow'
  OBVIOUS
<1>1. /\ mode' = "gone" /\ Coming' = Coming /\ toHost' = toHost
      /\ UNCHANGED <<hpc, step, req, resp, left, buf, ret>>
      /\ UNCHANGED <<toDev, flash, want, taken, refused, late>>
  BY DEF Unplug, Coming
<1>2. Dead => Dead'
  BY <1>1 DEF Dead, Silent, There
<1> QED  BY <1>1, <1>2, Unmoved

\* The device takes the first message.
LEMMA TakenIn ==
  ASSUME TypeOK, toDev # <<>>, toDev' = Tail(toDev)
  PROVE  /\ Len(toDev) \in Nat \ {0} /\ toDev[1] = Head(toDev) /\ Len(toDev') = Len(toDev) - 1
         /\ \A i \in 1 .. Len(toDev) - 1 : toDev'[i] = toDev[i + 1]
<1>1. toDev \in Seq(Cmds)
  BY DEF TypeOK
<1> QED  BY <1>1, HeadTailProperties, EmptySeq

LEMMA SectorTakenIn ==
  ASSUME TypeOK, toDev # <<>>, toDev' = Tail(toDev), OnTheirWay, UNCHANGED req
  PROVE  /\ Head(toDev) = Sector /\ \A i \in 1 .. Len(toDev') : toDev'[i] = Sector'
<1>1. /\ Len(toDev) \in Nat \ {0} /\ toDev[1] = Head(toDev) /\ Len(toDev') = Len(toDev) - 1
      /\ \A i \in 1 .. Len(toDev) - 1 : toDev'[i] = toDev[i + 1]
  BY TakenIn
<1>2. Sector' = Sector
  BY DEF Sector
<1>3. toDev[1] = Sector
  BY <1>1 DEF OnTheirWay
<1>4. ASSUME NEW i \in 1 .. Len(toDev) - 1
      PROVE  toDev'[i] = Sector
  <2>1. i + 1 \in 1 .. Len(toDev)
    BY <1>1
  <2> QED  BY <1>1, <2>1 DEF OnTheirWay
<1> QED  BY <1>1, <1>2, <1>3, <1>4

LEMMA DevStrayFlow == TypeOK /\ Flow /\ DevStray => Flow'
<1> SUFFICES ASSUME TypeOK, Flow, DevStray PROVE Flow'
  OBVIOUS
<1>1. /\ mode = "xml" /\ toDev # <<>> /\ Head(toDev).cmd = "data" /\ toDev' = Tail(toDev)
      /\ UNCHANGED <<hpc, step, req, resp, left, buf, ret, mode, toHost, out, refused>>
  BY DEF DevStray, devVars, bounds
<1>2. hpc \notin {"idle", "up", "send"}
  BY <1>1 DEF Flow, AtRest
<1>3. ASSUME Dropping PROVE Dropping'
  <2>1. \A i \in 1 .. Len(toDev') : toDev'[i] = Sector'
    BY <1>1, <1>3, SectorTakenIn DEF Dropping
  <2> QED  BY <1>1, <1>3, <2>1 DEF Dropping, There, OnTheirWay, Quiet, Coming
<1>4. CASE hpc = "await"
  <2>1. ~Asked
    <3>1. step \in Steps
      BY <1>4 DEF TypeOK
    <3>2. step # "data"
      BY <3>1 DEF Steps
    <3>3. Asked => Head(toDev).cmd = step
      BY DEF Asked, Command
    <3> QED  BY <1>1, <3>2, <3>3
  <2>2. ~(Told \/ Refused \/ Reading \/ Writing) /\ ~Taken /\ ~Taking
    BY <1>1 DEF Told, Refused, Reading, Writing, Taken, Taking, There
  <2>3. step = "finish" /\ req.k = "pwrite" /\ left = 0 /\ resp = "none" /\ Dropping
    BY <1>1, <1>4, <2>1, <2>2 DEF Flow, Awaits
  <2> QED  BY <1>1, <1>3, <1>4, <2>3 DEF Flow, Awaits
<1>5. CASE hpc = "stream"
  <2>1. ~Taken /\ ~Taking /\ ~Dead
    BY <1>1 DEF Taken, Taking, There, Dead, Silent
  <2>2. req.k = "pwrite" /\ Dropping
    BY <1>1, <1>5, <2>1 DEF Flow, Streams
  <2> QED  BY <1>1, <1>3, <1>5, <2>2 DEF Flow, Streams
<1> QED  BY <1>1, <1>2, <1>4, <1>5 DEF Flow

\* An answer without data.
LEMMA PlainAnswer ==
  ASSUME TypeOK, TypeOK', out = <<>>, toHost' = toHost, Plain,
         \A j \in 1 .. Len(out') : IsPlain(out'[j])
  PROVE  Plain'
<1>1. PICK n \in Nat, k \in Nat : n = Len(Coming) /\ k = Len(out') /\ Len(Coming') = n + k
  BY Answered
<1>2. /\ \A j \in 1 .. n : Coming'[j] = Coming[j]
      /\ \A j \in 1 .. k : Coming'[n + j] = out'[j]
  BY <1>1, Answered
<1>3. ASSUME NEW j \in 1 .. n + k
      PROVE  IsPlain(Coming'[j])
  <2>1. CASE j <= n
    <3>1. j \in 1 .. n
      BY <2>1
    <3>2. IsPlain(Coming[j])
      BY <1>1, <3>1 DEF Plain
    <3> QED  BY <1>2, <3>1, <3>2
  <2>2. CASE ~(j <= n)
    <3>1. j - n \in 1 .. k /\ n + (j - n) = j
      BY <2>2
    <3>2. Coming'[j] = out'[j - n]
      BY <1>2, <3>1
    <3> QED  BY <1>1, <3>1, <3>2
  <2> QED  BY <2>1, <2>2
<1> QED  BY <1>1, <1>3 DEF Plain

LEMMA PlainInfo ==
  /\ \A j \in 1 .. Len(<<Nak>>) : IsPlain(<<Nak>>[j])
  /\ \A j \in 1 .. Len(<<Ack>>) : IsPlain(<<Ack>>[j])
  /\ \A j \in 1 .. Len(<<Xml("info", FALSE), Ack>>) : IsPlain(<<Xml("info", FALSE), Ack>>[j])
  /\ \A j \in 1 .. Len(<<Xml("log", FALSE), Xml("info", FALSE), Ack>>) :
       IsPlain(<<Xml("log", FALSE), Xml("info", FALSE), Ack>>[j])
<1> DEFINE P == {x \in XmlMsgs : ~x.rawmode}
<1>1. Xml("info", FALSE) \in P /\ Xml("log", FALSE) \in P
  BY DEF Xml, XmlMsgs
<1>2. Ack \in P /\ Nak \in P
  BY Responses DEF IsPlain
<1>3. \A x \in P : IsPlain(x)
  BY DEF IsPlain
<1> HIDE DEF P
<1>4. /\ \A j \in 1 .. Len(<<Nak>>) : <<Nak>>[j] \in P
      /\ \A j \in 1 .. Len(<<Ack>>) : <<Ack>>[j] \in P
  BY <1>2
<1>5. /\ \A j \in 1 .. Len(<<Xml("info", FALSE), Ack>>) : <<Xml("info", FALSE), Ack>>[j] \in P
      /\ \A j \in 1 .. Len(<<Xml("log", FALSE), Xml("info", FALSE), Ack>>) :
           <<Xml("log", FALSE), Xml("info", FALSE), Ack>>[j] \in P
  BY <1>1, <1>2, SomeOf
<1> QED  BY <1>3, <1>4, <1>5

\* The acceptance of a read, its sectors and a response.
ReadAnswer(off, n) == <<RawAck>> \o Data(off, n) \o <<Ack>>
Announces(s, off, n) ==
  /\ Len(s) = n + 2 /\ s[1] = RawAck /\ s[n + 2] = Ack
  /\ \A j \in 1 .. n : s[1 + j] = [m |-> "data", val |-> flash[off + j - 1]]

LEMMA SectorsSaid ==
  ASSUME TypeOK, NEW off \in Nat, NEW n \in Nat, off + n <= Sectors,
         NEW s, s = ReadAnswer(off, n)
  PROVE  Announces(s, off, n)
<1> DEFINE d == Data(off, n)
<1>1. /\ d \in Seq(Msgs) /\ Len(d) = n
      /\ \A j \in 1 .. n : d[j] = [m |-> "data", val |-> flash[off + j - 1]]
  BY DataType
<1> HIDE DEF d
<1>2. /\ <<RawAck>> \in Seq(Msgs) /\ Len(<<RawAck>>) = 1 /\ <<RawAck>>[1] = RawAck
      /\ <<Ack>> \in Seq(Msgs) /\ Len(<<Ack>>) = 1 /\ <<Ack>>[1] = Ack
  BY XmlType, OneOf
<1>3. PICK h \in Seq(Msgs) : h = <<RawAck>> \o d
  BY <1>1, <1>2, ConcatProperties
<1>4. /\ Len(h) = 1 + n /\ h[1] = RawAck
      /\ \A j \in 1 .. n : h[1 + j] = d[j]
  <2>1. /\ Len(h) = 1 + n
        /\ \A j \in 1 .. 1 + n : h[j] = IF j <= 1 THEN <<RawAck>>[j] ELSE d[j - 1]
    BY <1>1, <1>2, <1>3, TwoParts
  <2>2. h[1] = RawAck
    BY <1>2, <2>1
  <2>3. ASSUME NEW j \in 1 .. n PROVE h[1 + j] = d[j]
    <3>1. 1 + j \in 1 .. 1 + n /\ ~(1 + j <= 1) /\ 1 + j - 1 = j
      OBVIOUS
    <3> QED  BY <2>1, <3>1
  <2> QED  BY <2>1, <2>2, <2>3
<1>5. /\ Len(s) = 1 + n + 1
      /\ \A j \in 1 .. 1 + n + 1 : s[j] = IF j <= 1 + n THEN h[j] ELSE <<Ack>>[j - (1 + n)]
  <2>1. s = h \o <<Ack>>
    BY <1>3 DEF d, ReadAnswer
  <2> QED  BY <1>2, <1>4, <2>1, TwoParts
<1>6. s[1] = RawAck
  BY <1>4, <1>5
<1>7. s[n + 2] = Ack
  <2>1. n + 2 \in 1 .. 1 + n + 1 /\ ~(n + 2 <= 1 + n) /\ n + 2 - (1 + n) = 1
    OBVIOUS
  <2> QED  BY <1>2, <1>5, <2>1
<1>8. ASSUME NEW j \in 1 .. n
      PROVE  s[1 + j] = [m |-> "data", val |-> flash[off + j - 1]]
  <2>1. 1 + j \in 1 .. 1 + n + 1 /\ 1 + j <= 1 + n
    OBVIOUS
  <2> QED  BY <1>1, <1>4, <1>5, <2>1
<1> QED  BY <1>5, <1>6, <1>7, <1>8 DEF Announces

\* The device takes commands of an exchange that has just begun.
LEMMA DevCommandFlow == TypeOK /\ TypeOK' /\ Purpose /\ Flow /\ DevCommand => Flow'
<1> SUFFICES ASSUME TypeOK, TypeOK', Purpose, Flow, DevCommand PROVE Flow'
  OBVIOUS
<1>1. /\ mode = "xml" /\ out = <<>> /\ toDev # <<>> /\ Head(toDev).cmd # "data"
      /\ toDev' = Tail(toDev)
      /\ UNCHANGED <<hpc, step, req, resp, left, buf, toHost, flash, late>>
  BY DEF DevCommand
<1>2. hpc \notin {"idle", "up", "send"}
  BY <1>1 DEF Flow, AtRest
<1>3. ~OnTheirWay
  <2>1. OnTheirWay => toDev[1] = Sector
    BY <1>1, TakenIn DEF OnTheirWay
  <2>2. toDev[1] = Head(toDev)
    BY <1>1, TakenIn
  <2> QED  BY <1>1, <2>1, <2>2 DEF Sector
<1>4. CASE hpc = "stream"
  <2>1. ~Taken /\ ~Taking /\ ~Dropping /\ ~Dead
    BY <1>1, <1>3 DEF Taken, Taking, Dropping, Dead, Silent
  <2> QED  BY <1>1, <1>4, <2>1 DEF Flow, Streams
<1>5. CASE hpc = "await"
  <2>1. ~Taken /\ ~Taking /\ ~Dropping /\ ~Told /\ ~Refused /\ ~Reading /\ ~Writing
    BY <1>1, <1>3 DEF Taken, Taking, Dropping, Told, Refused, Reading, Writing
  <2>2. Waiting /\ Asked
    BY <1>1, <1>5, <2>1 DEF Flow, Awaits
  <2>3. /\ step \in {"getstorageinfo", "read", "program", "power"}
        /\ toDev = <<Command>> /\ Stale /\ (late = 0 => resp = "none") /\ Waiting'
    BY <1>1, <1>5, <2>2 DEF Asked, TypeOK, Steps, Waiting
  <2>4. Head(toDev) = Command /\ toDev' = <<>>
    BY <1>1, <2>3
  <2>5. PICK l \in Nat : l = Len(Coming)
    BY ComingType
  <2>6. /\ Len(Coming') = l + Len(out') /\ Len(out') \in Nat
        /\ \A j \in 1 .. l : Coming'[j] = Coming[j]
        /\ \A j \in 1 .. Len(out') : Coming'[l + j] = out'[j]
    BY <1>1, <2>5, Answered
  <2>7. Plain /\ (late = 0 => l = 0)
    BY <2>3, <2>5 DEF Stale, Quiet
  <2>8. req.n \in Nat /\ req.off \in Nat /\ req.off + req.n <= Sectors
    BY <1>5 DEF TypeOK, Reqs, OnLun
  <2>9. ASSUME out'[1] = RawAck, Len(out') \in Nat \ {0}
        PROVE  Announced(l)'
    <3>1. Coming'[l + 1] = RawAck /\ l < Len(Coming')
      BY <2>6, <2>9
    <3>2. \A j \in 1 .. l : IsPlain(Coming'[j])
      BY <2>5, <2>6, <2>7 DEF Plain
    <3> QED  BY <1>1, <2>7, <3>1, <3>2 DEF Announced, RawAck, Xml
  <2>10. CASE refused' = refused + 1 /\ out' = <<Nak>> /\ mode' = mode
    <3>1. Len(out') = 1
      BY <2>10
    <3>2. Plain'
      BY <1>1, <2>7, <2>10, PlainInfo, PlainAnswer
    <3>3. refused' > 0
      <4>1. refused \in Nat
        BY DEF TypeOK
      <4> QED  BY <2>10, <4>1
    <3>4. late' = 0 => Len(Coming') <= 1 /\ resp' = "none"
      BY <1>1, <2>3, <2>6, <2>7, <3>1
    <3>5. Told' \/ Refused'
      BY <1>1, <2>3, <2>4, <2>10, <3>2, <3>3, <3>4 DEF Told, Refused, There
    <3> QED  BY <1>1, <1>5, <2>3, <3>5 DEF Flow, Awaits
  <2>11. CASE /\ Accepted(Command)
              /\ mode' = CASE Command.cmd = "program" -> "in"
                           [] Command.cmd = "power" -> "off" [] OTHER -> mode
              /\ want' = IF Command.cmd = "program" THEN [off |-> Command.off, n |-> Command.n]
                                                    ELSE want
              /\ taken' = <<>>
    <3>1. Command.cmd = step /\ Command.off = req.off /\ Command.n = req.n
      BY DEF Command
    <3>2. CASE step \in {"getstorageinfo", "power"}
      <4>1. out' \in {<<Xml("log", FALSE), Xml("info", FALSE), Ack>>,
                      <<Xml("info", FALSE), Ack>>, <<Ack>>}
        BY <2>11, <3>1, <3>2 DEF Accepted, Ack
      <4>2. \A j \in 1 .. Len(out') : IsPlain(out'[j])
        BY <4>1, PlainInfo
      <4>3. Plain'
        BY <1>1, <2>7, <4>2, PlainAnswer
      <4>4. mode' = IF step = "power" THEN "off" ELSE "xml"
        BY <1>1, <2>11, <3>1, <3>2
      <4>5. Told'
        BY <1>1, <2>4, <3>2, <4>3, <4>4 DEF Told, There
      <4> QED  BY <1>1, <1>5, <2>3, <4>5 DEF Flow, Awaits
    <3>3. CASE step = "read"
      <4>1. out' = <<RawAck>> \o Data(req.off, req.n) \o <<Ack>> /\ mode' = "xml"
        BY <1>1, <2>11, <3>1, <3>3 DEF Accepted, Ack, RawAck
      <4>2. /\ Len(out') = req.n + 2 /\ out'[1] = RawAck /\ out'[req.n + 2] = Ack
            /\ \A j \in 1 .. req.n :
                 out'[1 + j] = [m |-> "data", val |-> flash[req.off + j - 1]]
        <5>1. PICK off \in Nat, n \in Nat : off = req.off /\ n = req.n /\ off + n <= Sectors
          BY <2>8
        <5>2. PICK s : s = ReadAnswer(off, n) /\ s = out'
          BY <4>1, <5>1 DEF ReadAnswer
        <5>3. Announces(s, off, n)
          BY <5>1, <5>2, SectorsSaid
        <5> QED  BY <5>1, <5>2, <5>3 DEF Announces
      <4>3. Announced(l)'
        BY <2>8, <2>9, <4>2
      <4>4. Sectored(l + 1, 1)'
        <5>1. Len(Coming') = l + 1 + req.n + 1
          <6>1. Len(Coming') = l + (req.n + 2)
            BY <2>6, <4>2
          <6> QED  BY <2>8, <6>1
        <5>2. Coming'[l + 1 + req.n + 1] = Ack
          <6>1. req.n + 2 \in 1 .. Len(out') /\ l + (req.n + 2) = l + 1 + req.n + 1
            BY <2>8, <4>2
          <6> QED  BY <2>6, <4>2, <6>1
        <5>3. ASSUME NEW j \in 1 .. req.n
              PROVE  Coming'[l + 1 + j] = [m |-> "data", val |-> flash[req.off + (1 + j - 1) - 1]]
          <6>1. 1 + j \in 1 .. Len(out') /\ l + (1 + j) = l + 1 + j /\ 1 + j - 1 = j
            BY <2>8, <4>2
          <6> QED  BY <2>6, <4>2, <6>1
        <5>4. req.n - 1 + 1 = req.n /\ Ack' = Ack
          BY <2>8 DEF Ack, Xml
        <5> QED  BY <1>1, <5>1, <5>2, <5>3, <5>4 DEF Sectored
      <4>5. Reading'
        BY <1>1, <2>3, <2>4, <3>3, <4>1, <4>3, <4>4 DEF Reading, There
      <4> QED  BY <1>1, <1>5, <2>3, <4>5 DEF Flow, Awaits
    <3>4. CASE step = "program"
      <4>1. /\ out' = <<RawAck>> /\ mode' = "in" /\ want' = [off |-> req.off, n |-> req.n]
            /\ taken' = <<>>
        BY <1>1, <2>11, <3>1, <3>4 DEF Accepted, RawAck
      <4>2. Len(out') = 1 /\ out'[1] = RawAck
        BY <4>1
      <4>3. Announced(l)' /\ Len(Coming') = l + 1
        BY <2>6, <2>9, <4>2
      <4>4. Writing'
        BY <1>1, <2>3, <2>4, <3>4, <4>1, <4>3 DEF Writing, There
      <4> QED  BY <1>1, <1>5, <2>3, <4>4 DEF Flow, Awaits
    <3> QED  BY <2>3, <3>2, <3>3, <3>4
  <2> QED  BY <2>4, <2>10, <2>11 DEF DevCommand, Nak
<1> QED  BY <1>1, <1>2, <1>4, <1>5 DEF Flow

\* The device takes a sector.
LEMMA DevDataFlow == TypeOK /\ TypeOK' /\ Flow /\ DevData => Flow'
<1> SUFFICES ASSUME TypeOK, TypeOK', Flow, DevData PROVE Flow'
  OBVIOUS
<1> DEFINE all == Append(taken, IF Head(toDev).cmd = "data" THEN Head(toDev).val ELSE -1)
<1>1. /\ mode = "in" /\ out = <<>> /\ toDev # <<>> /\ toDev' = Tail(toDev) /\ taken' = all
      /\ UNCHANGED <<hpc, step, req, resp, left, buf, toHost, want, late>>
      /\ IF Len(all) < want.n
           THEN UNCHANGED <<mode, flash, out, refused>>
           ELSE /\ mode' = "xml"
                /\ \/ /\ flash' = [s \in 0 .. Sectors - 1 |->
                                     IF s \in want.off .. want.off + want.n - 1
                                       THEN all[s - want.off + 1] ELSE flash[s]]
                      /\ out' = <<Ack>> /\ UNCHANGED refused
                   \/ refused' = refused + 1 /\ out' = <<Nak>> /\ UNCHANGED flash
  BY DEF DevData, Ack, Nak
<1> HIDE DEF all
<1>2. hpc \notin {"idle", "up", "send"}
  BY <1>1 DEF Flow, AtRest
<1>3. ~(Asked \/ Told \/ Refused \/ Reading \/ Writing \/ Dropping \/ Taken) /\ ~Dead
  <2>1. ~Asked /\ ~Dropping
    BY <1>1 DEF Asked, Dropping, There
  <2>2. ~(Told \/ Refused \/ Reading \/ Writing \/ Taken) /\ ~Dead
    BY <1>1 DEF Told, Refused, Reading, Writing, Taken, Dead, Silent
  <2> QED  BY <2>1, <2>2
<1>4. /\ hpc = "await" => step = "finish" /\ req.k = "pwrite" /\ left = 0 /\ resp = "none"
      /\ hpc = "stream" => req.k = "pwrite"
      /\ hpc \in {"await", "stream"} => Taking
  BY <1>1, <1>3 DEF Flow, Awaits, Streams
<1>5. CASE hpc \in {"await", "stream"}
  <2>1. /\ req.off \in Nat /\ req.n \in Nat /\ req.off + req.n <= Sectors /\ Sectors \in Nat
        /\ left \in Nat
    BY <1>5, RawIoAssumption DEF TypeOK, Reqs, OnLun
  <2>2. PICK t \in Nat, d \in Nat : t = Len(taken) /\ d = Len(toDev)
    <3>1. Len(taken) \in Nat /\ Len(toDev) \in Nat
      BY LenProperties DEF TypeOK
    <3> QED  BY <3>1
  <2>3. /\ OnTheirWay /\ want.off = req.off /\ want.n = req.n /\ t < req.n /\ t + d + left = req.n
        /\ \A i \in 1 .. t : taken[i] = req.val
    BY <1>4, <1>5, <2>2 DEF Taking
  <2>4. d # 0 /\ Len(toDev') = d - 1
    BY <1>1, <2>2, TakenIn
  <2>5. Head(toDev) = Sector /\ \A i \in 1 .. Len(toDev') : toDev'[i] = Sector'
    BY <1>1, <2>3, SectorTakenIn
  <2>6. all = Append(taken, req.val) /\ taken \in Seq(Int) /\ req.val \in Int
    <3>1. Head(toDev).cmd = "data" /\ Head(toDev).val = req.val
      BY <2>5 DEF Sector
    <3>2. taken \in Seq(Int) /\ req.val \in Int
      BY DEF TypeOK, Reqs
    <3> QED  BY <3>1, <3>2 DEF all
  <2>7. Len(all) = t + 1 /\ \A i \in 1 .. t + 1 : all[i] = req.val
    <3>1. /\ Len(all) = t + 1 /\ all[t + 1] = req.val
          /\ \A i \in 1 .. t : all[i] = taken[i]
      BY <2>2, <2>6, AppendProperties
    <3>2. ASSUME NEW i \in 1 .. t + 1 PROVE all[i] = req.val
      <4>1. i = t + 1 \/ i \in 1 .. t
        OBVIOUS
      <4> QED  BY <2>3, <3>1, <4>1
    <3> QED  BY <3>1, <3>2
  <2>8. CASE t + 1 < req.n
    <3>1. UNCHANGED <<mode, flash, out, refused>>
      BY <1>1, <2>3, <2>7, <2>8
    <3>2. OnTheirWay'
      BY <1>1, <2>3, <2>5, <3>1 DEF OnTheirWay, Quiet, Coming
    <3>3. Len(taken') < req'.n /\ Len(taken') + Len(toDev') + left' = req'.n
      BY <1>1, <2>1, <2>3, <2>4, <2>7, <2>8
    <3>4. \A i \in 1 .. Len(taken') : taken'[i] = req'.val
      BY <1>1, <2>7
    <3>5. There({"in"})' /\ want' = [off |-> req'.off, n |-> req'.n]
      BY <1>1, <1>4, <1>5, <3>1 DEF There, Taking
    <3>6. Taking'
      BY <3>2, <3>3, <3>4, <3>5 DEF Taking
    <3> QED  BY <1>1, <1>4, <1>5, <3>6 DEF Flow, Awaits, Streams
  <2>9. CASE ~(t + 1 < req.n)
    <3>1. /\ mode' = "xml"
          /\ \/ /\ flash' = [s \in 0 .. Sectors - 1 |->
                               IF s \in want.off .. want.off + want.n - 1
                                 THEN all[s - want.off + 1] ELSE flash[s]]
                /\ out' = <<Ack>> /\ UNCHANGED refused
             \/ refused' = refused + 1 /\ out' = <<Nak>> /\ UNCHANGED flash
      BY <1>1, <2>3, <2>7, <2>9
    <3>2. left = 0 /\ Len(toDev') = 0 /\ t + 1 = req.n
      BY <2>1, <2>3, <2>4, <2>9
    <3>3. toDev' = <<>>
      BY <3>2, EmptySeq DEF TypeOK
    <3>4. refused' = 0 => Written'
      <4>1. CASE refused' = refused + 1
        <5>1. refused \in Nat
          BY DEF TypeOK
        <5> QED  BY <4>1, <5>1
      <4>2. CASE flash' = [s \in 0 .. Sectors - 1 |->
                             IF s \in want.off .. want.off + want.n - 1
                               THEN all[s - want.off + 1] ELSE flash[s]]
        <5>1. ASSUME NEW i \in 1 .. t + 1
              PROVE  flash'[req.off + i - 1] = req.val
          <6>1. PICK s : s = req.off + i - 1
            OBVIOUS
          <6>2. i \in 1 .. req.n
            BY <3>2
          <6>3. /\ s \in 0 .. Sectors - 1 /\ s \in req.off .. req.off + req.n - 1
                /\ s - req.off + 1 = i
            BY <2>1, <6>1, <6>2
          <6>4. flash'[s] = all[s - req.off + 1]
            BY <2>3, <4>2, <6>3
          <6> QED  BY <2>7, <6>1, <6>3, <6>4
        <5> QED  BY <1>1, <3>2, <5>1 DEF Written
      <4> QED  BY <3>1, <4>1, <4>2 DEF Written
    <3>5. Taken'
      BY <1>1, <3>1, <3>2, <3>3, <3>4 DEF Taken, There
    <3>6. Answer("ACK")' \/ Answer("NAK")'
      <4>1. Len(Coming) = 0
        BY <2>3 DEF OnTheirWay, Quiet
      <4>2. Len(out') = 1 /\ (out'[1] = Ack \/ out'[1] = Nak)
        BY <3>1
      <4>3. Len(Coming') = 1 /\ Coming'[1] = out'[1]
        <5>1. /\ Len(Coming') = 0 + Len(out')
              /\ \A j \in 1 .. Len(out') : Coming'[0 + j] = out'[j]
          BY <1>1, <4>1, Answered
        <5> QED  BY <4>2, <5>1
      <4> QED  BY <4>2, <4>3 DEF Answer, Ack, Nak, Xml
    <3> QED  BY <1>1, <1>4, <1>5, <3>2, <3>5, <3>6 DEF Flow, Awaits, Streams
  <2> QED  BY <2>8, <2>9
<1> QED  BY <1>1, <1>2, <1>5 DEF Flow

-----------------------------------------------------------------------------
(* The theorems.                                                           *)

LEMMA InvInit == Init => Inv
<1> SUFFICES ASSUME Init PROVE Inv
  OBVIOUS
<1>1. TypeOK /\ Purpose
  BY TypeInit
<1>2. /\ hpc = "idle" /\ toDev = <<>> /\ toHost = <<>> /\ out = <<>> /\ mode = "edl"
      /\ ret = "none"
  BY DEF Init
<1>3. Quiet
  BY <1>1, <1>2, QuietIs
<1>4. Stale
  BY <1>3 DEF Stale, Plain, Quiet
<1> QED  BY <1>1, <1>2, <1>4 DEF Inv, FlowInv, Flow, AtRest, Faithful

LEMMA InvNext == Inv /\ [Next]_vars => Inv'
<1> SUFFICES ASSUME Inv, [Next]_vars PROVE Inv'
  OBVIOUS
<1>1. TypeOK' /\ Purpose'
  BY TypeNext, PurposeNext DEF Inv
<1>2. ASSUME InTime' PROVE Flow'
  <2>1. Flow
    BY <1>2, InTimeBefore DEF Inv, FlowInv
  <2>2. CASE Host
    BY <1>1, <1>2, <2>1, <2>2, SetupFlow, SendFlow, AwaitOneFlow, AwaitDoneFlow, StreamFlow
       DEF Host, Inv
  <2>3. CASE Client
    BY <2>1, <2>3, OpenFlow, ReadWriteFlow, UnloadFlow DEF Client, Inv
  <2>4. CASE Device
    BY <1>1, <2>1, <2>4, DevCommandFlow, DevSayFlow, DevStrayFlow, DevDataFlow DEF Device, Inv
  <2>5. CASE Done \/ UNCHANGED vars
    <3>1. /\ mode' = mode /\ Coming' = Coming
          /\ UNCHANGED <<hpc, step, req, resp, left, buf, ret>>
          /\ UNCHANGED <<toDev, toHost, out, flash, want, taken, refused, late>>
      BY <2>5 DEF Done, vars, devVars, bounds, Coming
    <3>2. Dead => Dead'
      BY <3>1 DEF Dead, Silent, There
    <3> QED  BY <2>1, <3>1, <3>2, Unmoved
  <2> QED  BY <2>1, <2>2, <2>3, <2>4, <2>5, UnplugFlow DEF Next
<1> QED  BY <1>1, <1>2 DEF Inv, FlowInv

THEOREM InvHolds == Spec => []Inv
<1> QED  BY InvInit, InvNext, PTL DEF Spec

\* What the plugin and the programmer keep has its type: no request leaves the LUN, and the
\* size the plugin tells nbdkit is that of the LUN.
THEOREM TypeCorrect == Spec => []TypeOK
<1>1. Inv => TypeOK
  BY DEF Inv
<1> QED  BY <1>1, InvHolds, PTL

\* qdl_plugin_pread() that succeeds has returned the sectors of the device.
THEOREM ReadsAreFaithful == Spec => []ReadFaithful
<1>1. Inv => ReadFaithful
  BY DEF Inv, FlowInv, Flow, Faithful, ReadFaithful
<1> QED  BY <1>1, InvHolds, PTL

\* qdl_plugin_pwrite() that succeeds while no command is refused has written the device.
THEOREM AcceptedWritesAreFaithful == Spec => []AcceptedWriteFaithful
<1>1. Inv => AcceptedWriteFaithful
  BY DEF Inv, FlowInv, Flow, Faithful, Written, Region, WriteFaithful, AcceptedWriteFaithful
<1> QED  BY <1>1, InvHolds, PTL

\* Every response has been consumed by the request it belongs to when the next one comes.
THEOREM ResponsesAreConsumed == Spec => []ResponseConsumed
<1>1. ASSUME Inv PROVE ResponseConsumed
  <2> SUFFICES ASSUME late = 0, timeouts = 0, hpc = "idle", mode # "gone"
               PROVE  toDev = <<>> /\ Coming = <<>>
    BY DEF ResponseConsumed, Coming
  <2>1. AtRest
    BY <1>1 DEF Inv, FlowInv, Flow, InTime
  <2>2. toDev = <<>> /\ Quiet
    BY <2>1 DEF AtRest, Stale
  <2>3. toHost = <<>> /\ out = <<>>
    BY <1>1, <2>2, QuietIs DEF Inv
  <2> QED  BY <2>2, <2>3 DEF Coming
<1> QED  BY <1>1, InvHolds, PTL

=============================================================================
