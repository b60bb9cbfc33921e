----------------------------- MODULE SaharaProof -----------------------------
(***************************************************************************)
(* Proofs about Sahara: with prompt answers a device gets nothing that it  *)
(* has not asked for, an undisturbed upload or dump succeeds, and success  *)
(* is reported only when a programmer runs or what is dumped is there; for *)
(* all images, requests and regions, and any number of disturbances.       *)
(***************************************************************************)
EXTENDS Sahara, SequenceTheorems, TLAPS

-----------------------------------------------------------------------------
(* Types.                                                                  *)

Requests == [image : Nat, len : Nat \ {0}]
Sent     == [t : {"HELLO_RESP", "RESET", "DONE"}] \cup [t : {"DATA"}, image : Nat, off : Nat]
              \cup [t : {"MEM_READ"}, n : {0, 2}]
Spoken   == [t : {"xml", "HELLO", "RESET_RESP", "MEM_DEBUG64", "mem", "zlp"}]
              \cup [t : {"READ_DATA"}, image : Nat, off : Nat]
              \cup [t : {"END_OF_IMAGE"}, ok : BOOLEAN]
              \cup [t : {"DONE_RESP"}, complete : BOOLEAN]

HostTypes ==
  /\ session \in Sessions /\ transport \in Transports /\ kind \in Kinds
  /\ hpc \in {"run", "table", "region", "block", "settle", "end"}
  /\ first_read \in BOOLEAN /\ result \in {"none", "ok", "assumed", "failed"}
  /\ region \in Nat /\ chunk \in Nat /\ dumped \in [DOMAIN Regions -> Int]

DeviceTypes ==
  /\ dpc \in {"start", "hello", "load", "data", "eoi", "failed", "table", "debug", "firehose",
              "dead", "gone"}
  /\ want \in Seq(Requests) /\ doff \in Nat
  /\ coy \in BOOLEAN /\ booted \in BOOLEAN /\ reset \in BOOLEAN /\ stray \in BOOLEAN

Counted == late \in Nat /\ bad \in Nat /\ gone \in Nat

TypeOK ==
  /\ HostTypes /\ DeviceTypes /\ Counted
  /\ toDev \in Seq(Sent) /\ toHost \in Seq(Spoken)

-----------------------------------------------------------------------------
(* What messages and states mean, however late they are.                   *)

\* The only image given is the programmer.
Single == DOMAIN Provided = {EHOSTDL}
NoProgrammer(w) == \A i \in DOMAIN w : w[i].image # EHOSTDL

\* A message tells of something that has happened.
Tells(m) ==
  /\ m.t = "xml" => booted
  /\ m.t = "RESET_RESP" => reset
  /\ m.t = "DONE_RESP" =>
       /\ ~Ramdump
       /\ m.complete => booted
       /\ Single /\ ~booted => NoProgrammer(want)

\* Data are of an image that was given.
Given(m) == m.t = "DATA" => m.image \in DOMAIN images

Truths == {m \in Spoken : Tells(m)}
Gifts  == {m \in Sent : Given(m)}

\* Which states a device gets to, ...
KindInv ==
  /\ kind = "edl" => dpc \notin {"table", "debug"}
  /\ kind = "crashed" => dpc \in {"start", "hello", "table", "debug", "dead", "gone"}
  /\ kind = "firehose" => dpc \in {"firehose", "dead", "gone"}
  /\ kind = "dead" => dpc \in {"dead", "gone"}

\* ... with what behind it.
WantInv ==
  /\ ~booted => want # <<>>
  /\ want # <<>> => doff < want[1].len
  /\ \A i, j \in DOMAIN want : want[i].image = EHOSTDL /\ want[j].image = EHOSTDL => i = j
  /\ dpc \in {"start", "hello", "load", "data", "eoi"} => ~booted
  /\ dpc = "eoi" => doff = 0 /\ want[1].image \in DOMAIN images
  /\ dpc = "firehose" => booted
  /\ coy => Len(want) <= 1

LinkInv ==
  /\ toHost \in Seq(Truths) /\ toDev \in Seq(Gifts)
  /\ Ramdump /\ result = "ok" => reset

Basic == HostTypes /\ DeviceTypes /\ Counted /\ KindInv /\ WantInv /\ LinkInv

-----------------------------------------------------------------------------
(* The files of a dump.                                                    *)

IsDebug(m) == m.t = "MEM_DEBUG64"
None(s) == \A j \in 1 .. Len(s) : ~IsDebug(s[j])
Once(s) == \A j, k \in 1 .. Len(s) : IsDebug(s[j]) /\ IsDebug(s[k]) => j = k

\* The table of regions is announced once.
DumpOnce ==
  /\ Once(toHost)
  /\ ~None(toHost) => region = 0 /\ hpc \in {"run", "end"}
  /\ dpc \in {"start", "hello", "table"} \/ kind # "crashed" =>
       None(toHost) /\ region = 0 /\ hpc \in {"run", "end"}
  /\ hpc = "table" => region = 0

\* Regions are dumped in their order, each as far as it was read.
FileInv ==
  /\ \A i \in DOMAIN Regions : /\ i < region => dumped[i] = 2 * Regions[i]
                               /\ i > region => dumped[i] = -1
  /\ hpc \in {"region", "block", "settle"} => region >= 1
  /\ hpc = "region" /\ region <= Len(Regions) =>
       chunk <= Regions[region] /\ dumped[region] = IF chunk = 0 THEN -1 ELSE 2 * chunk
  /\ hpc \in {"block", "settle"} => region <= Len(Regions) /\ chunk < Regions[region]
  /\ hpc = "block" => dumped[region] \in {2 * chunk, 2 * chunk + 1}
  /\ hpc = "settle" => dumped[region] = 2 * (chunk + 1)

DumpInv == DumpOnce /\ FileInv

-----------------------------------------------------------------------------
(* The conversation, when no answer is late.                               *)

HELLO    == [t |-> "HELLO"]
Announce == [t |-> "MEM_DEBUG64"]
Piece    == [t |-> "mem"]
Empty    == [t |-> "zlp"]
AskTable == [t |-> "MEM_READ", n |-> 0]
AskBlock == [t |-> "MEM_READ", n |-> 2]
DONE     == [t |-> "DONE"]
Eoi(ok)  == [t |-> "END_OF_IMAGE", ok |-> ok]
Request  == [t |-> "READ_DATA", image |-> Head(want).image, off |-> doff]
Block    == [t |-> "DATA", image |-> Head(want).image, off |-> doff]

\* The answer to the last DONE, and s behind it.
Reply(s) ==
  ~first_read /\ toHost # <<>> /\ Head(toHost).t = "DONE_RESP" /\ Tail(toHost) = s

Waiting(m) == toDev = <<>> /\ (toHost = <<m>> \/ Reply(<<m>>))
Answer(m)  == toDev = <<m>> /\ toHost = <<>>

\* The host waits for packets, ...
Talking ==
  CASE dpc \in {"start", "load"} -> toDev = <<>> /\ (toHost = <<>> \/ Reply(<<>>))
    [] dpc = "hello"  -> \/ Waiting(HELLO) \/ Answer(HelloResp)
                         \/ toDev = <<>> /\ toHost = <<>> /\ first_read /\ transport = "qud"
    [] dpc = "data"   -> Waiting(Request) \/ Answer(Block)
    [] dpc = "eoi"    -> \/ toDev = <<>> /\ toHost = <<Eoi(TRUE)>>
                         \/ Answer(DONE) /\ ~first_read
    [] dpc = "failed" -> toDev = <<>> /\ toHost = <<Eoi(FALSE)>>
    [] dpc = "table"  -> toDev = <<>> /\ toHost = <<>>
    [] dpc = "debug"  -> \/ toDev = <<>> /\ toHost = <<Announce>>
                         \/ toDev = <<Reset>> /\ toHost \in Seq({Piece, Empty})
    [] OTHER -> TRUE

\* ... or for memory.
Dumping ==
  CASE hpc = "table"  -> Answer(AskTable) \/ (toDev = <<>> /\ toHost = <<Piece>>)
    [] hpc = "region" -> toDev = <<>> /\ toHost = <<>>
    [] hpc = "block"  -> \/ /\ dumped[region] = 2 * chunk
                            /\ \/ Answer(AskBlock)
                               \/ toDev = <<>> /\ toHost \in {<<Piece, Piece>>, <<Piece, Piece, Empty>>}
                         \/ /\ dumped[region] = 2 * chunk + 1
                            /\ toDev = <<>> /\ toHost \in {<<Piece>>, <<Piece, Empty>>}
    [] hpc = "settle" -> toDev = <<>> /\ toHost \in {<<>>, <<Empty>>}
    [] OTHER -> TRUE

Up == dpc \notin {"firehose", "dead", "gone"}

Protocol ==
  /\ ~stray
  /\ Up => CASE hpc = "end" -> toDev \in {<<>>, <<Reset>>}
             [] hpc = "run" -> Talking
             [] OTHER       -> dpc = "debug" /\ Dumping

Prompt == late = 0 => Protocol

-----------------------------------------------------------------------------
(* Sessions that nothing disturbs.                                         *)

Calm == gone = 0 /\ bad = 0 /\ late = 0

UpInv ==
  ~Ramdump /\ kind = "edl" /\ (coy => Single) /\ Calm =>
    /\ dpc \notin {"gone", "dead", "failed"} /\ hpc \in {"run", "end"}
    /\ hpc = "end" => (result = "ok" /\ booted) \/ ~Servable
    /\ dpc = "firehose" /\ hpc = "run" =>
         toDev = <<>> /\ Reply(<<>>) /\ (Head(toHost).complete \/ Single)

AllDumped == region > Len(Regions)

DownInv ==
  Ramdump /\ kind = "crashed" /\ transport = "usb" /\ Calm =>
    /\ dpc # "dead"
    /\ dpc = "gone" =>
         /\ reset /\ AllDumped
         /\ \/ hpc = "run" /\ toHost = <<[t |-> "RESET_RESP"]>>
            \/ hpc = "end" /\ result = "ok"
    /\ dpc # "gone" => hpc # "end"
    /\ dpc = "debug" /\ hpc = "run" /\ toDev = <<Reset>> => toHost = <<>> /\ AllDumped

Inv == Basic /\ DumpInv /\ Prompt /\ UpInv /\ DownInv

-----------------------------------------------------------------------------
(* Sequences, and what is sent on the link.                                *)

LEMMA SeqGrows ==
  ASSUME NEW S, NEW T, S \subseteq T
  PROVE  Seq(S) \subseteq Seq(T)
<1> SUFFICES ASSUME NEW s \in Seq(S) PROVE s \in Seq(T)
  OBVIOUS
<1>1. Len(s) \in Nat /\ DOMAIN s = 1 .. Len(s) /\ s = [i \in 1 .. Len(s) |-> s[i]]
  BY LenProperties
<1>2. \A i \in 1 .. Len(s) : s[i] \in T
  BY ElementOfSeq
<1> QED
  BY <1>1, <1>2, IsASeq

LEMMA BasicType == Basic => TypeOK
<1>1. Truths \subseteq Spoken /\ Gifts \subseteq Sent
  BY DEF Truths, Gifts
<1>2. Seq(Truths) \subseteq Seq(Spoken) /\ Seq(Gifts) \subseteq Seq(Sent)
  BY <1>1, SeqGrows
<1> QED
  BY <1>2 DEF Basic, TypeOK, LinkInv

LEMMA HeadTail ==
  ASSUME NEW S, NEW s \in Seq(S), s # <<>>
  PROVE  Head(s) \in S /\ Tail(s) \in Seq(S)
BY HeadTailProperties

LEMMA Pair ==
  ASSUME NEW S, NEW a \in S, NEW b \in S
  PROVE  <<a, b>> \in Seq(S)
OBVIOUS

LEMMA Took ==
  ASSUME LinkInv, NEW t, Packet(t)
  PROVE  /\ toHost # <<>> /\ Head(toHost) \in Truths /\ Head(toHost).t = t
         /\ toHost' = Tail(toHost) /\ toHost' \in Seq(Truths)
BY HeadTail DEF LinkInv, Packet

LEMMA Sends ==
  ASSUME LinkInv, NEW m \in Gifts, Send(m)
  PROVE  toDev' \in Seq(Gifts)
BY AppendProperties DEF LinkInv, Send

\* Nothing but data has to be given.
LEMMA PlainGifts ==
  {HelloResp, Reset, DONE, AskTable, AskBlock} \subseteq Gifts
BY DEF HelloResp, Reset, DONE, AskTable, AskBlock, Gifts, Sent, Given

-----------------------------------------------------------------------------
(* The host's steps leave the device alone.                                *)

\* What a step of the host keeps.
HostKeeps ==
  /\ UNCHANGED <<session, transport, kind, dpc, want, doff, coy, booted, reset, stray, gone>>
  /\ HostTypes' /\ Counted'
  /\ toHost' \in Seq(Truths) /\ toDev' \in Seq(Gifts)
  /\ Ramdump /\ result' = "ok" => reset

LEMMA StopsWaitingType ==
  ASSUME Counted, StopsWaiting
  PROVE  late' \in Nat
BY DEF Counted, StopsWaiting

LEMMA KeepsRunTimesOut == Basic /\ RunTimesOut => HostKeeps
<1> SUFFICES ASSUME Basic, RunTimesOut PROVE HostKeeps
  OBVIOUS
<1>1. late' \in Nat
  BY StopsWaitingType DEF Basic, RunTimesOut
<1>2. toDev' \in Seq(Gifts)
  BY Sends, PlainGifts DEF RunTimesOut, Basic, LinkInv
<1>3. hpc' \in {"run", "end"} /\ result' \in {result, "failed", "assumed"}
  BY DEF RunTimesOut, Return, Carry
<1> QED
  BY <1>1, <1>2, <1>3
  DEF RunTimesOut, devVars, Basic, HostTypes, Counted, LinkInv, HostKeeps, Ramdump

LEMMA KeepsRunFails == Basic /\ RunFails => HostKeeps
BY DEF RunFails, Return, devVars, counters, Basic, HostTypes, Counted, LinkInv, HostKeeps, Ramdump

\* The handlers of one packet.
LEMMA KeepsHandler ==
  ASSUME Basic, NEW t, Packet(t), UNCHANGED runRest,
         first_read' \in BOOLEAN, hpc' \in {"run", "table", "end"},
         result' \in {result, "ok", "failed", "assumed"},
         Ramdump /\ result' = "ok" => reset,
         toDev' = toDev \/ \E m \in Gifts : Send(m)
  PROVE  HostKeeps
<1>1. toHost' \in Seq(Truths) /\ toDev' \in Seq(Gifts)
  BY Took, Sends DEF Basic, LinkInv
<1> QED
  BY <1>1 DEF runRest, devVars, counters, Basic, HostTypes, Counted, HostKeeps, Ramdump

LEMMA KeepsXml == Basic /\ HandleXml => HostKeeps
<1> SUFFICES ASSUME Basic, HandleXml PROVE HostKeeps
  OBVIOUS
<1>1. MaybeFirehose \in BOOLEAN
  BY DEF MaybeFirehose
<1> QED
  BY <1>1, KeepsHandler DEF HandleXml, Return

LEMMA KeepsHello == Basic /\ HandleHello => HostKeeps
<1> SUFFICES ASSUME Basic, HandleHello PROVE HostKeeps
  OBVIOUS
<1>1. HelloResp \in Gifts
  BY PlainGifts
<1> QED
  BY <1>1, KeepsHandler DEF HandleHello, Carry, Basic, LinkInv

LEMMA KeepsRead == Basic /\ HandleRead => HostKeeps
<1> SUFFICES ASSUME Basic, HandleRead PROVE HostKeeps
  OBVIOUS
<1> DEFINE m == Head(toHost)
           data == [t |-> "DATA", image |-> m.image, off |-> m.off]
<1>1. m \in Truths /\ m.t = "READ_DATA"
  BY Took DEF HandleRead, Basic
<1>2. m.image \in Nat /\ m.off \in Nat
  BY <1>1 DEF Truths, Spoken
<1>3. m.image \in DOMAIN images => data \in Gifts
  BY <1>2 DEF Gifts, Sent, Given
<1>4. Reset \in Gifts
  BY PlainGifts
<1>5. /\ toDev' = toDev \/ \E g \in Gifts : Send(g)
      /\ hpc' \in {"run", "end"} /\ result' \in {result, "failed"}
      /\ Packet("READ_DATA") /\ first_read' = FALSE /\ UNCHANGED runRest /\ hpc = "run"
  BY <1>3, <1>4 DEF HandleRead, Return, Carry
<1> QED
  BY <1>5, KeepsHandler DEF Basic, LinkInv

LEMMA KeepsEndOfImage == Basic /\ HandleEndOfImage => HostKeeps
<1> SUFFICES ASSUME Basic, HandleEndOfImage PROVE HostKeeps
  OBVIOUS
<1>1. [t |-> "DONE"] \in Gifts
  BY PlainGifts DEF DONE
<1> QED
  BY <1>1, KeepsHandler DEF HandleEndOfImage, Return, Carry, Basic, LinkInv

LEMMA KeepsDoneResp == Basic /\ HandleDoneResp => HostKeeps
<1> SUFFICES ASSUME Basic, HandleDoneResp PROVE HostKeeps
  OBVIOUS
<1>1. Head(toHost) \in Truths /\ Head(toHost).t = "DONE_RESP"
  BY Took DEF HandleDoneResp, Basic
<1>2. ~Ramdump
  BY <1>1 DEF Truths, Tells
<1> QED
  BY <1>2, KeepsHandler DEF HandleDoneResp, Return, Carry

LEMMA KeepsResetResp == Basic /\ HandleResetResp => HostKeeps
<1> SUFFICES ASSUME Basic, HandleResetResp PROVE HostKeeps
  OBVIOUS
<1>1. Head(toHost) \in Truths /\ Head(toHost).t = "RESET_RESP"
  BY Took DEF HandleResetResp, Basic
<1>2. reset
  BY <1>1 DEF Truths, Tells
<1> QED
  BY <1>2, KeepsHandler DEF HandleResetResp, Return, Carry

LEMMA KeepsDebug == Basic /\ HandleDebug => HostKeeps
<1> SUFFICES ASSUME Basic, HandleDebug PROVE HostKeeps
  OBVIOUS
<1>1. [t |-> "MEM_READ", n |-> 0] \in Gifts
  BY PlainGifts DEF AskTable
<1> QED
  BY <1>1, KeepsHandler DEF HandleDebug, Carry, Basic, LinkInv

LEMMA KeepsEmpty == Basic /\ HandleEmpty => HostKeeps
<1> SUFFICES ASSUME Basic, HandleEmpty PROVE HostKeeps
  OBVIOUS
<1>1. PICK t \in {"zlp", "mem"} : Packet(t)
  BY DEF HandleEmpty
<1> QED
  BY <1>1, KeepsHandler DEF HandleEmpty, Return

LEMMA KeepsReadTable == Basic /\ ReadTable => HostKeeps
<1> SUFFICES ASSUME Basic, ReadTable PROVE HostKeeps
  OBVIOUS
<1>1. late' \in Nat /\ toHost' \in Seq(Truths)
  BY StopsWaitingType, Took DEF ReadTable, Basic, LinkInv, Counted
<1>2. hpc' \in {"run", "region"} /\ region' \in Nat /\ chunk' \in Nat
  BY DEF ReadTable, Basic, HostTypes
<1> QED
  BY <1>1, <1>2 DEF ReadTable, dumpRest, devVars, Basic, HostTypes, Counted, LinkInv, HostKeeps, Ramdump

LEMMA KeepsStopDump ==
  ASSUME LinkInv, StopDump
  PROVE  hpc' = "run" /\ toDev' \in Seq(Gifts)
BY Sends, PlainGifts DEF StopDump

LEMMA KeepsRequestBlock == Basic /\ RequestBlock => HostKeeps
<1> SUFFICES ASSUME Basic, RequestBlock PROVE HostKeeps
  OBVIOUS
<1>1. [t |-> "MEM_READ", n |-> 2] \in Gifts
  BY PlainGifts DEF AskBlock
<1>2. hpc' \in {"run", "region", "block"} /\ toDev' \in Seq(Gifts)
  BY <1>1, Sends, KeepsStopDump DEF RequestBlock, Basic, LinkInv, HostTypes
<1>3. region' \in Nat /\ chunk' \in Nat /\ bad' \in Nat
  BY DEF RequestBlock, Basic, HostTypes, Counted
<1>4. dumped' \in [DOMAIN Regions -> Int]
  BY DEF RequestBlock, Basic, HostTypes
<1> QED
  BY <1>2, <1>3, <1>4
  DEF RequestBlock, dumpRest, devVars, Basic, HostTypes, Counted, LinkInv, HostKeeps, Ramdump

LEMMA KeepsReadPiece == Basic /\ ReadPiece => HostKeeps
<1> SUFFICES ASSUME Basic, ReadPiece PROVE HostKeeps
  OBVIOUS
<1>1. late' \in Nat /\ bad' \in Nat /\ toHost' \in Seq(Truths)
  BY StopsWaitingType, Took DEF ReadPiece, Basic, LinkInv, Counted
<1>2. hpc' \in {"run", "settle", "block"} /\ toDev' \in Seq(Gifts)
  BY KeepsStopDump DEF ReadPiece, Basic, LinkInv
<1>3. dumped' \in [DOMAIN Regions -> Int]
  BY DEF ReadPiece, Basic, HostTypes
<1> QED
  BY <1>1, <1>2, <1>3
  DEF ReadPiece, dumpRest, devVars, Basic, HostTypes, Counted, LinkInv, HostKeeps, Ramdump

LEMMA KeepsSettle == Basic /\ Settle => HostKeeps
<1> SUFFICES ASSUME Basic, Settle PROVE HostKeeps
  OBVIOUS
<1>1. toHost \in Seq(Truths) /\ (toHost # <<>> => Tail(toHost) \in Seq(Truths))
  BY HeadTail DEF Basic, LinkInv
<1>2. late' \in Nat /\ toHost' \in Seq(Truths)
  BY <1>1 DEF Settle, Basic, Counted
<1> QED
  BY <1>2
  DEF Settle, dumpRest, devVars, Basic, HostTypes, Counted, LinkInv, HostKeeps, Ramdump

LEMMA HostKept == Basic /\ Host => HostKeeps
BY KeepsRunTimesOut, KeepsRunFails, KeepsXml, KeepsHello, KeepsRead, KeepsEndOfImage,
   KeepsDoneResp, KeepsResetResp, KeepsDebug, KeepsEmpty, KeepsReadTable, KeepsRequestBlock,
   KeepsReadPiece, KeepsSettle DEF Host

LEMMA HostBasic == Basic /\ Host => Basic'
<1> SUFFICES ASSUME Basic, Host PROVE Basic'
  OBVIOUS
<1>1. HostKeeps
  BY HostKept
<1>2. Truths' = Truths /\ Gifts' = Gifts
  BY <1>1 DEF HostKeeps, Truths, Gifts, Tells, Given, Ramdump, Single, Provided, NoProgrammer, images
<1>3. LinkInv'
  BY <1>1, <1>2 DEF HostKeeps, LinkInv, Ramdump
<1>4. DeviceTypes' /\ KindInv' /\ WantInv'
  BY <1>1 DEF HostKeeps, Basic, DeviceTypes, KindInv, WantInv, images, Ramdump, Provided
<1> QED
  BY <1>1, <1>3, <1>4 DEF HostKeeps, Basic

-----------------------------------------------------------------------------
(* The device's steps.                                                     *)

\* What was true stays true.
LEMMA TruthsGrow ==
  ASSUME session' = session, booted => booted', reset => reset',
         ~booted' /\ NoProgrammer(want) => NoProgrammer(want)'
  PROVE  Seq(Truths) \subseteq Seq(Truths)' /\ Seq(Gifts) = Seq(Gifts)'
<1>1. Truths \subseteq Truths'
  BY DEF Truths, Tells, Ramdump, Single, Provided
<1>2. Gifts' = Gifts
  BY DEF Gifts, Given, images, Ramdump, Provided
<1>3. Seq(Truths) \subseteq Seq(Truths')
  BY <1>1, SeqGrows
<1> QED
  BY <1>2, <1>3

\* A step that only moves the device on, and what it says.
LEMMA DeviceMoves ==
  ASSUME Basic, UNCHANGED <<session, transport, kind, hostVars, late, want, doff, coy, booted>>,
         reset => reset', reset' \in BOOLEAN, stray' \in BOOLEAN,
         toDev' \in Seq(Gifts), toHost' \in Seq(Truths'),
         bad' \in Nat, gone' \in Nat,
         dpc' \in {"start", "hello", "load", "data", "failed", "table", "debug", "dead", "gone"}
           \/ dpc' = dpc,
         dpc' \in {"start", "hello", "load", "data"} => dpc \in {"start", "hello", "load", "data"},
         KindInv'
  PROVE  Basic'
<1>1. HostTypes' /\ Counted' /\ DeviceTypes'
  BY DEF Basic, hostVars, HostTypes, Counted, DeviceTypes
<1>2. WantInv'
  BY DEF Basic, WantInv, images, Ramdump, Provided
<1>3. Seq(Gifts) = Seq(Gifts)'
  BY TruthsGrow
<1>4. LinkInv'
  BY <1>3 DEF Basic, LinkInv, Ramdump, hostVars
<1> QED
  BY <1>1, <1>2, <1>4 DEF Basic

LEMMA OldTruths ==
  ASSUME Basic, UNCHANGED <<session, want, booted>>, reset => reset'
  PROVE  toHost \in Seq(Truths') /\ toDev \in Seq(Gifts)
<1>1. Seq(Truths) \subseteq Seq(Truths)'
  BY TruthsGrow DEF NoProgrammer
<1> QED
  BY <1>1 DEF Basic, LinkInv

LEMMA Says ==
  ASSUME NEW S, toHost \in Seq(S), NEW m \in S, Say(m)
  PROVE  toHost' \in Seq(S)
BY AppendProperties DEF Say

LEMMA HelloBasic == Basic /\ DevHello => Basic'
<1> SUFFICES ASSUME Basic, DevHello PROVE Basic'
  OBVIOUS
<1>1. UNCHANGED <<session, transport, kind, hostVars, late, gone, want, doff, coy, booted, reset,
                  stray, toDev, bad>> /\ dpc = "start" /\ dpc' = "hello"
  BY DEF DevHello, devRest
<1>2. toHost \in Seq(Truths') /\ toDev \in Seq(Gifts)
  BY <1>1, OldTruths
<1>3. [t |-> "HELLO"] \in Truths'
  BY DEF Truths, Spoken, Tells
<1>4. toHost' \in Seq(Truths')
  BY <1>2, <1>3, Says DEF DevHello
<1>5. KindInv'
  BY <1>1 DEF Basic, KindInv
<1> QED
  BY <1>1, <1>2, <1>4, <1>5, DeviceMoves DEF Basic, Counted, DeviceTypes

LEMMA RequestBasic == Basic /\ DevRequest => Basic'
<1> SUFFICES ASSUME Basic, DevRequest PROVE Basic'
  OBVIOUS
<1>1. UNCHANGED <<session, transport, kind, hostVars, late, gone, want, doff, coy, booted, reset,
                  stray, toDev, bad>> /\ dpc = "load" /\ dpc' = "data"
  BY DEF DevRequest, devRest
<1>2. toHost \in Seq(Truths') /\ toDev \in Seq(Gifts)
  BY <1>1, OldTruths
<1>3. Head(want) \in Requests /\ doff \in Nat
  <2>1. want # <<>> /\ want \in Seq(Requests) /\ doff \in Nat
    BY <1>1 DEF Basic, WantInv, DeviceTypes
  <2> QED
    BY <2>1, HeadTail
<1>4. Request \in Truths'
  BY <1>3 DEF Request, Requests, Truths, Spoken, Tells
<1>5. toHost' \in Seq(Truths')
  BY <1>2, <1>4, Says DEF DevRequest, Request
<1>6. KindInv'
  BY <1>1 DEF Basic, KindInv
<1> QED
  BY <1>1, <1>2, <1>5, <1>6, DeviceMoves DEF Basic, Counted, DeviceTypes

LEMMA AnnounceBasic == Basic /\ DevAnnounce => Basic'
<1> SUFFICES ASSUME Basic, DevAnnounce PROVE Basic'
  OBVIOUS
<1>1. UNCHANGED <<session, transport, kind, hostVars, late, gone, want, doff, coy, booted, reset,
                  stray, toDev, bad>> /\ dpc = "table" /\ dpc' = "debug"
  BY DEF DevAnnounce, devRest
<1>2. toHost \in Seq(Truths') /\ toDev \in Seq(Gifts)
  BY <1>1, OldTruths
<1>3. [t |-> "MEM_DEBUG64"] \in Truths'
  BY DEF Truths, Spoken, Tells
<1>4. toHost' \in Seq(Truths')
  BY <1>2, <1>3, Says DEF DevAnnounce
<1>5. KindInv'
  BY <1>1 DEF Basic, KindInv
<1> QED
  BY <1>1, <1>2, <1>4, <1>5, DeviceMoves DEF Basic, Counted, DeviceTypes

LEMMA RejectBasic == Basic /\ DevReject => Basic'
<1> SUFFICES ASSUME Basic, DevReject PROVE Basic'
  OBVIOUS
<1>1. UNCHANGED <<session, transport, kind, hostVars, late, gone, dpc, want, doff, coy, booted,
                  reset, bad>> /\ toDev # <<>> /\ toDev' = Tail(toDev)
  BY DEF DevReject, devRest
<1>2. toHost \in Seq(Truths') /\ toDev \in Seq(Gifts)
  BY <1>1, OldTruths
<1>3. dpc = "firehose" => [t |-> "xml"] \in Truths'
  BY <1>1 DEF Truths, Spoken, Tells, Basic, WantInv
<1>4. toHost' \in Seq(Truths')
  BY <1>2, <1>3, Says DEF DevReject
<1>5. toDev' \in Seq(Gifts)
  BY <1>1, <1>2, HeadTail
<1>6. stray' \in BOOLEAN
  BY DEF DevReject, Basic, DeviceTypes
<1>7. KindInv'
  BY <1>1 DEF Basic, KindInv
<1> QED
  BY <1>1, <1>4, <1>5, <1>6, <1>7, DeviceMoves DEF Basic, Counted, DeviceTypes

LEMMA LossBasic == Basic /\ (DevGone \/ DevHang) => Basic'
<1> SUFFICES ASSUME Basic, DevGone \/ DevHang PROVE Basic'
  OBVIOUS
<1>1. /\ UNCHANGED <<session, transport, kind, hostVars, late, want, doff, coy, booted, reset,
                     stray, bad>>
      /\ dpc' \in {"gone", "dead"} /\ gone' = gone + 1
      /\ toDev' \in {toDev, <<>>} /\ toHost' \in {toHost, <<>>}
  BY DEF DevGone, DevHang
<1>2. toHost \in Seq(Truths') /\ toDev \in Seq(Gifts)
  BY <1>1, OldTruths
<1>3. toHost' \in Seq(Truths') /\ toDev' \in Seq(Gifts)
  BY <1>1, <1>2, EmptySeq
<1>4. KindInv'
  BY <1>1 DEF Basic, KindInv
<1>5. gone' \in Nat
  BY <1>1 DEF Basic, Counted
<1> QED
  BY <1>1, <1>3, <1>4, <1>5, DeviceMoves DEF Basic, Counted, DeviceTypes

\* What it takes is what it was waiting for.
LEMMA TakeHello == Basic /\ DevTake /\ dpc = "hello" => Basic'
<1> SUFFICES ASSUME Basic, DevTake, dpc = "hello" PROVE Basic'
  OBVIOUS
<1>1. /\ UNCHANGED <<session, transport, kind, hostVars, late, gone, want, doff, coy, booted, reset,
                     stray, toHost, bad>>
      /\ dpc' = IF kind = "crashed" THEN "table" ELSE "load"
      /\ toDev # <<>> /\ toDev' = Tail(toDev)
  BY DEF DevTake, devRest
<1>2. toHost' \in Seq(Truths') /\ toDev \in Seq(Gifts)
  BY <1>1, OldTruths
<1>3. toDev' \in Seq(Gifts)
  BY <1>1, <1>2, HeadTail
<1>4. KindInv'
  BY <1>1 DEF Basic, KindInv
<1>5. dpc' \in {"table", "load"}
  BY <1>1
<1> QED
  BY <1>1, <1>2, <1>3, <1>4, <1>5, DeviceMoves DEF Basic, Counted, DeviceTypes

LEMMA TakeData == Basic /\ DevTake /\ dpc = "data" => Basic'
<1> SUFFICES ASSUME Basic, DevTake, dpc = "data" PROVE Basic'
  OBVIOUS
<1>1. /\ UNCHANGED <<session, transport, kind, hostVars, late, gone, want, coy, booted, reset, stray>>
      /\ toDev # <<>> /\ toDev' = Tail(toDev)
  BY DEF DevTake, devRest
<1>2. Head(toDev).t = "DATA" /\ Head(toDev).image = Head(want).image
  BY DEF DevTake, Expected
<1>3. toHost \in Seq(Truths') /\ toDev \in Seq(Gifts)
  BY <1>1, OldTruths
<1>4. Head(toDev) \in Gifts /\ toDev' \in Seq(Gifts)
  BY <1>1, <1>3, HeadTail
<1>5. Head(want).image \in DOMAIN images
  BY <1>2, <1>4 DEF Gifts, Given
<1>6. /\ want # <<>> /\ want \in Seq(Requests) /\ doff \in Nat /\ ~booted /\ bad \in Nat
      /\ doff < want[1].len /\ kind \notin {"firehose", "dead", "crashed"}
  BY DEF Basic, WantInv, DeviceTypes, Counted, KindInv
<1>7. Head(want) = want[1] /\ want[1] \in Requests
  BY <1>6, HeadTail
<1>8. \/ /\ doff + 1 < want[1].len /\ dpc' = "load" /\ doff' = doff + 1
         /\ UNCHANGED <<toHost, bad>>
      \/ /\ doff' = 0 /\ dpc' = "eoi" /\ UNCHANGED bad
         /\ Say([t |-> "END_OF_IMAGE", ok |-> TRUE])
      \/ /\ doff' = 0 /\ dpc' = "failed" /\ bad' = bad + 1
         /\ Say([t |-> "END_OF_IMAGE", ok |-> FALSE])
  BY <1>7 DEF DevTake
<1>9. \A b \in BOOLEAN : [t |-> "END_OF_IMAGE", ok |-> b] \in Truths'
  BY DEF Truths, Spoken, Tells
<1>10. toHost' \in Seq(Truths')
  BY <1>3, <1>8, <1>9, Says
<1>11. KindInv'
  BY <1>1, <1>6, <1>8 DEF Basic, KindInv
<1>12. doff' \in Nat /\ doff' < want[1].len /\ bad' \in Nat
  BY <1>6, <1>7, <1>8 DEF Requests
<1>13. WantInv'
  <2>1. images' = images /\ want' = want /\ booted' = booted /\ coy' = coy
    BY <1>1 DEF images, Ramdump, Provided
  <2> QED
    BY <1>5, <1>6, <1>7, <1>8, <1>12, <2>1 DEF Basic, WantInv
<1>14. HostTypes' /\ Counted' /\ DeviceTypes'
  BY <1>1, <1>8, <1>12 DEF Basic, hostVars, HostTypes, Counted, DeviceTypes
<1>15. Seq(Gifts) = Seq(Gifts)'
  BY <1>1, TruthsGrow DEF NoProgrammer
<1>16. LinkInv'
  BY <1>1, <1>4, <1>10, <1>15 DEF Basic, LinkInv, Ramdump, hostVars
<1> QED
  BY <1>11, <1>13, <1>14, <1>16 DEF Basic

LEMMA TakeDone == Basic /\ DevTake /\ dpc = "eoi" => Basic'
<1> SUFFICES ASSUME Basic, DevTake, dpc = "eoi" PROVE Basic'
  OBVIOUS
<1> DEFINE last   == Len(want) = 1
           answer == [t |-> "DONE_RESP", complete |-> last /\ ~coy]
<1>1. /\ UNCHANGED <<session, transport, kind, hostVars, late, gone, coy, reset, stray, doff, bad>>
      /\ toDev # <<>> /\ toDev' = Tail(toDev)
      /\ want' = Tail(want) /\ Say(answer)
      /\ IF last THEN dpc' = "firehose" /\ booted' = TRUE
                 ELSE dpc' \in {"start", "load"} /\ UNCHANGED booted
  BY DEF DevTake, devRest
<1>2. /\ want # <<>> /\ want \in Seq(Requests) /\ doff = 0 /\ ~booted
      /\ want[1].image \in DOMAIN images /\ kind \notin {"firehose", "dead", "crashed"}
      /\ \A i, j \in DOMAIN want : want[i].image = EHOSTDL /\ want[j].image = EHOSTDL => i = j
      /\ coy => Len(want) <= 1
  BY DEF Basic, WantInv, DeviceTypes, KindInv
<1>3. /\ Len(want) \in Nat /\ Len(want) >= 1 /\ DOMAIN want = 1 .. Len(want)
      /\ want' \in Seq(Requests) /\ Len(want') = Len(want) - 1 /\ DOMAIN want' = 1 .. Len(want')
      /\ \A i \in 1 .. Len(want') : want'[i] = want[i + 1]
  BY <1>1, <1>2, HeadTailProperties, LenProperties, EmptySeq
<1>4. \A i \in DOMAIN want' : i + 1 \in DOMAIN want /\ i + 1 # 1 /\ want'[i] = want[i + 1]
  BY <1>3
<1>5. \A i, j \in DOMAIN want' : want'[i].image = EHOSTDL /\ want'[j].image = EHOSTDL => i = j
  <2> SUFFICES ASSUME NEW i \in DOMAIN want', NEW j \in DOMAIN want',
                      want'[i].image = EHOSTDL, want'[j].image = EHOSTDL
               PROVE  i = j
    OBVIOUS
  <2>1. i + 1 = j + 1
    BY <1>2, <1>4
  <2>2. i \in Nat /\ j \in Nat
    BY <1>3
  <2> QED
    BY <2>1, <2>2
<1>6. NoProgrammer(want) => NoProgrammer(want)'
  BY <1>4 DEF NoProgrammer
<1>7. booted => booted'
  BY <1>2
<1>8. Seq(Truths) \subseteq Seq(Truths)' /\ Seq(Gifts) = Seq(Gifts)'
  BY <1>1, <1>6, <1>7, TruthsGrow
<1>9. ~Ramdump
  BY <1>2 DEF images
<1>10. Single => NoProgrammer(want)'
  <2> SUFFICES ASSUME Single, NEW i \in DOMAIN want' PROVE want'[i].image # EHOSTDL
    BY DEF NoProgrammer
  <2>1. want[1].image = EHOSTDL
    BY <1>2, <1>9 DEF Single, images
  <2>2. 1 \in DOMAIN want /\ i + 1 \in DOMAIN want /\ i + 1 # 1
    BY <1>3, <1>4
  <2> QED
    BY <1>2, <1>4, <2>1, <2>2
<1>11. answer.complete => booted'
  BY <1>1
<1>12. UNCHANGED <<Ramdump, Single>>
  BY <1>1 DEF Ramdump, Single, Provided
<1>13. answer \in Spoken
  BY DEF Spoken
<1>14. answer \in Truths'
  BY <1>9, <1>10, <1>11, <1>12, <1>13 DEF Truths, Tells
<1>15. toHost' \in Seq(Truths')
  BY <1>1, <1>8, <1>14, Says DEF Basic, LinkInv
<1>16. toDev' \in Seq(Gifts)'
  BY <1>1, <1>8, HeadTail DEF Basic, LinkInv
<1>17. LinkInv'
  BY <1>1, <1>12, <1>15, <1>16 DEF Basic, LinkInv, hostVars
<1>18. KindInv'
  BY <1>1, <1>2 DEF Basic, KindInv
<1>19. WantInv'
  <2>1. ~booted' => want' # <<>>
    <3>1. ~booted' => Len(want') >= 1
      BY <1>1, <1>3
    <3> QED
      BY <3>1, EmptySeq
  <2>2. want' # <<>> => doff' < want'[1].len
    <3>1. want' # <<>> => want'[1] \in Requests
      BY <1>3, EmptySeq
    <3>2. want' # <<>> => want'[1].len \in Nat \ {0}
      BY <3>1 DEF Requests
    <3>3. doff' = 0
      BY <1>1, <1>2
    <3> QED
      BY <3>2, <3>3
  <2>3. coy' => Len(want') <= 1
    BY <1>1, <1>2, <1>3
  <2>4. /\ dpc' \in {"start", "load"} => ~booted'
        /\ dpc' \in {"start", "load", "firehose"} /\ (dpc' = "firehose" => booted')
    BY <1>1, <1>2
  <2> QED
    BY <1>5, <2>1, <2>2, <2>3, <2>4 DEF WantInv
<1>20. HostTypes' /\ Counted' /\ DeviceTypes'
  BY <1>1, <1>3 DEF Basic, hostVars, HostTypes, Counted, DeviceTypes
<1> QED
  BY <1>17, <1>18, <1>19, <1>20 DEF Basic

LEMMA TakeDebug == Basic /\ DevTake /\ dpc = "debug" => Basic'
<1> SUFFICES ASSUME Basic, DevTake, dpc = "debug" PROVE Basic'
  OBVIOUS
<1>1. /\ UNCHANGED <<session, transport, kind, hostVars, late, gone, want, doff, coy, booted, stray, bad>>
      /\ dpc' \in {"debug", "gone"}
      /\ toDev # <<>> /\ toDev' = Tail(toDev)
  BY DEF DevTake, devRest
<1>2. reset => reset' /\ reset' \in BOOLEAN
  BY DEF DevTake, Basic, DeviceTypes
<1>3. toHost \in Seq(Truths') /\ toDev \in Seq(Gifts)
  BY <1>1, <1>2, OldTruths
<1>4. toHost' \in Seq(Truths')
  <2>1. CASE Head(toDev).t = "MEM_READ"
    <3>1. PICK zlp \in {<<>>, <<[t |-> "zlp"]>>} :
            toHost' = toHost \o (IF Head(toDev).n = 0 THEN <<[t |-> "mem"]>>
                                 ELSE <<[t |-> "mem"], [t |-> "mem"]>> \o zlp)
      BY <2>1 DEF DevTake
    <3>2. [t |-> "mem"] \in Truths' /\ [t |-> "zlp"] \in Truths'
      BY DEF Truths, Spoken, Tells
    <3>3. \A S : [t |-> "mem"] \in S /\ [t |-> "zlp"] \in S =>
            /\ <<[t |-> "mem"]>> \in Seq(S) /\ <<[t |-> "zlp"]>> \in Seq(S) /\ <<>> \in Seq(S)
            /\ <<[t |-> "mem"], [t |-> "mem"]>> \in Seq(S)
      OBVIOUS
    <3>4. /\ <<[t |-> "mem"]>> \in Seq(Truths') /\ zlp \in Seq(Truths')
          /\ <<[t |-> "mem"], [t |-> "mem"]>> \in Seq(Truths')
      BY <3>2, <3>3
    <3>5. <<[t |-> "mem"], [t |-> "mem"]>> \o zlp \in Seq(Truths')
      BY <3>4, ConcatProperties
    <3> QED
      BY <1>3, <3>1, <3>4, <3>5, ConcatProperties
  <2>2. CASE Head(toDev).t = "RESET"
    <3>1. reset' /\ Say([t |-> "RESET_RESP"])
      BY <2>2 DEF DevTake
    <3>2. [t |-> "RESET_RESP"] \in Truths'
      BY <3>1 DEF Truths, Spoken, Tells
    <3> QED
      BY <1>3, <3>1, <3>2, Says
  <2> QED
    BY <2>1, <2>2 DEF DevTake
<1>5. toDev' \in Seq(Gifts)
  BY <1>1, <1>3, HeadTail
<1>6. KindInv'
  BY <1>1 DEF Basic, KindInv
<1>7. reset => reset'
  BY DEF DevTake
<1>8. reset' \in BOOLEAN
  BY DEF DevTake, Basic, DeviceTypes
<1> QED
  BY <1>1, <1>4, <1>5, <1>6, <1>7, <1>8, DeviceMoves DEF Basic, Counted, DeviceTypes

LEMMA TakeBasic == Basic /\ DevTake => Basic'
BY TakeHello, TakeData, TakeDone, TakeDebug DEF DevTake

LEMMA InitBasic == Init => Basic
<1> SUFFICES ASSUME Init PROVE Basic
  OBVIOUS
<1>1. session \in Sessions /\ want \in session.requests /\ kind \in Kinds /\ transport \in Transports
  BY DEF Init
<1>2. RequestsOK(want)
  BY <1>1, SaharaAssumption
<1>3. want \in Seq(Requests) /\ want # <<>>
  BY <1>2 DEF RequestsOK, Requests
<1>4. want[1] \in Requests /\ Len(want) \in Nat
  BY <1>3, HeadTail
<1>5. kind \in {"edl", "crashed", "firehose", "dead"}
  BY <1>1, SaharaAssumption
<1>6. dpc = (IF kind \in {"edl", "crashed"} THEN "start" ELSE kind) /\ doff = 0
      /\ booted = (kind = "firehose")
  BY DEF Init
<1>7. coy \in BOOLEAN /\ (coy => Len(want) = 1)
  BY DEF Init
<1>8. WantInv
  <2>1. doff < want[1].len
    BY <1>4, <1>6 DEF Requests
  <2>2. /\ dpc \in {"start", "hello", "load", "data", "eoi"} => ~booted
        /\ dpc # "eoi" /\ (dpc = "firehose" => booted)
    BY <1>5, <1>6
  <2>3. coy => Len(want) <= 1
    <3>1. Len(want) = 1 => Len(want) <= 1
      OBVIOUS
    <3> QED
      BY <1>7, <3>1, Zenon
  <2>4. \A i, j \in DOMAIN want : want[i].image = EHOSTDL /\ want[j].image = EHOSTDL => i = j
    BY <1>2 DEF RequestsOK
  <2> QED
    BY <1>3, <2>1, <2>2, <2>3, <2>4 DEF WantInv
<1>9. KindInv
  BY <1>5, <1>6 DEF KindInv
<1>10. LinkInv
  BY EmptySeq DEF Init, LinkInv
<1>11. HostTypes /\ Counted
  BY <1>1 DEF Init, HostTypes, Counted
<1>12. DeviceTypes
  <2>1. dpc \in {"start", "firehose", "dead"}
    BY <1>5, <1>6
  <2>2. booted \in BOOLEAN /\ reset \in BOOLEAN /\ stray \in BOOLEAN
    BY <1>6 DEF Init
  <2> QED
    BY <1>3, <1>6, <1>7, <2>1, <2>2 DEF DeviceTypes
<1> QED
  BY <1>8, <1>9, <1>10, <1>11, <1>12 DEF Basic

LEMMA StutterBasic == Basic /\ UNCHANGED vars => Basic'
<1> SUFFICES ASSUME Basic, UNCHANGED vars PROVE Basic'
  OBVIOUS
<1>1. UNCHANGED <<session, transport, kind, hostVars, dpc, want, doff, coy, booted, reset, stray,
                  toDev, toHost, late, bad, gone>>
  BY DEF vars, devVars, counters
<1>2. toHost \in Seq(Truths') /\ toDev \in Seq(Gifts)
  BY <1>1, OldTruths
<1>3. KindInv'
  BY <1>1 DEF Basic, KindInv
<1> QED
  BY <1>1, <1>2, <1>3, DeviceMoves DEF Basic, Counted, DeviceTypes

LEMMA StepBasic == Basic /\ [Next]_vars => Basic'
BY HostBasic, HelloBasic, RequestBasic, AnnounceBasic, TakeBasic, RejectBasic, LossBasic,
   StutterBasic DEF Next, Device, Done

\* The types of every variable and message.
THEOREM TypeCorrect == Spec => []TypeOK
BY InitBasic, StepBasic, BasicType, PTL DEF Spec

-----------------------------------------------------------------------------
(* Dumps.                                                                  *)

LEMMA RegionsType ==
  /\ Len(Regions) \in Nat /\ DOMAIN Regions = 1 .. Len(Regions)
  /\ \A i \in 1 .. Len(Regions) : Regions[i] \in Nat \ {0}
BY SaharaAssumption, LenProperties, ElementOfSeq

LEMMA TailDebug ==
  ASSUME NEW S, NEW s \in Seq(S), s # <<>>
  PROVE  /\ Once(s) => Once(Tail(s))
         /\ None(s) => None(Tail(s))
         /\ Once(s) /\ IsDebug(Head(s)) => None(Tail(s))
         /\ IsDebug(Head(s)) => ~None(s)
<1>1. /\ Len(s) \in Nat /\ Len(s) >= 1 /\ Head(s) = s[1] /\ Len(Tail(s)) = Len(s) - 1
      /\ \A i \in 1 .. Len(Tail(s)) : Tail(s)[i] = s[i + 1]
  BY HeadTailProperties, EmptySeq, LenProperties
<1> HIDE DEF IsDebug
<1>2. Once(s) => Once(Tail(s))
  BY <1>1 DEF Once
<1>3. None(s) => None(Tail(s))
  BY <1>1 DEF None
<1>4. Once(s) /\ IsDebug(Head(s)) => None(Tail(s))
  BY <1>1 DEF Once, None
<1>5. IsDebug(Head(s)) => ~None(s)
  BY <1>1 DEF None
<1> QED
  BY <1>2, <1>3, <1>4, <1>5

LEMMA AppendDebug ==
  ASSUME NEW S, NEW s \in Seq(S), NEW m \in S
  PROVE  /\ ~IsDebug(m) /\ Once(s) => Once(Append(s, m))
         /\ ~IsDebug(m) /\ None(s) => None(Append(s, m))
         /\ None(s) => Once(Append(s, m))
<1>1. /\ Len(s) \in Nat /\ Len(Append(s, m)) = Len(s) + 1
      /\ \A i \in 1 .. Len(s) : Append(s, m)[i] = s[i]
      /\ Append(s, m)[Len(s) + 1] = m
  BY AppendProperties, LenProperties
<1>2. ~IsDebug(m) /\ Once(s) => Once(Append(s, m))
  BY <1>1 DEF Once
<1>3. ~IsDebug(m) /\ None(s) => None(Append(s, m))
  BY <1>1 DEF None
<1>4. None(s) => Once(Append(s, m))
  BY <1>1 DEF Once, None
<1> QED
  BY <1>2, <1>3, <1>4

LEMMA ConcatDebug ==
  ASSUME NEW S, NEW s \in Seq(S), NEW x \in Seq(S), None(x)
  PROVE  /\ Once(s) => Once(s \o x)
         /\ None(s) => None(s \o x)
<1>1. /\ Len(s) \in Nat /\ Len(x) \in Nat /\ Len(s \o x) = Len(s) + Len(x)
      /\ \A i \in 1 .. Len(s) + Len(x) : (s \o x)[i] = IF i <= Len(s) THEN s[i] ELSE x[i - Len(s)]
  BY ConcatProperties, LenProperties
<1>2. \A i \in 1 .. Len(s \o x) : IsDebug((s \o x)[i]) => i \in 1 .. Len(s) /\ IsDebug(s[i])
  <2> SUFFICES ASSUME NEW i \in 1 .. Len(s) + Len(x), IsDebug((s \o x)[i]), ~(i <= Len(s))
               PROVE  FALSE
    BY <1>1
  <2>1. (s \o x)[i] = x[i - Len(s)] /\ i - Len(s) \in 1 .. Len(x)
    BY <1>1
  <2> QED
    BY <2>1 DEF None
<1>3. Once(s) => Once(s \o x)
  BY <1>2 DEF Once
<1>4. None(s) => None(s \o x)
  BY <1>2 DEF None
<1> QED
  BY <1>3, <1>4

\* Steps of the host and the device that do not dump.
LEMMA QuietDump ==
  ASSUME DumpInv, UNCHANGED <<region, chunk, dumped, kind>>,
         Once(toHost) => Once(toHost)', None(toHost) => None(toHost)',
         hpc' = hpc \/ hpc' \in {"run", "end"},
         dpc' \in {"start", "hello", "table"} => dpc \in {"start", "hello", "table"} \/ kind # "crashed"
  PROVE  DumpInv'
<1>1. FileInv'
  BY DEF DumpInv, FileInv
<1>2. Once(toHost)'
  BY DEF DumpInv, DumpOnce
<1>3. ~None(toHost)' => region' = 0 /\ hpc' \in {"run", "end"}
  BY DEF DumpInv, DumpOnce
<1>4. dpc' \in {"start", "hello", "table"} \/ kind' # "crashed" =>
        None(toHost)' /\ region' = 0 /\ hpc' \in {"run", "end"}
  BY DEF DumpInv, DumpOnce
<1>5. hpc' = "table" => region' = 0
  BY DEF DumpInv, DumpOnce
<1> QED
  BY <1>1, <1>2, <1>3, <1>4, <1>5 DEF DumpInv, DumpOnce

LEMMA HostReads ==
  ASSUME Basic, toHost' = toHost \/ (toHost # <<>> /\ toHost' = Tail(toHost))
  PROVE  (Once(toHost) => Once(toHost)') /\ (None(toHost) => None(toHost)')
<1>1. toHost \in Seq(Truths)
  BY DEF Basic, LinkInv
<1> QED
  BY <1>1, TailDebug

LEMMA DumpQuietHost ==
  Basic /\ DumpInv /\ (RunTimesOut \/ RunFails \/ HandleXml \/ HandleHello \/ HandleRead
    \/ HandleEndOfImage \/ HandleDoneResp \/ HandleResetResp \/ HandleEmpty) => DumpInv'
<1> SUFFICES ASSUME Basic, DumpInv, RunTimesOut \/ RunFails \/ HandleXml \/ HandleHello \/ HandleRead
               \/ HandleEndOfImage \/ HandleDoneResp \/ HandleResetResp \/ HandleEmpty
             PROVE  DumpInv'
  OBVIOUS
<1>1. UNCHANGED <<region, chunk, dumped, kind, dpc>>
  BY DEF RunTimesOut, RunFails, HandleXml, HandleHello, HandleRead, HandleEndOfImage,
     HandleDoneResp, HandleResetResp, HandleEmpty, runRest, devVars
<1>2. toHost' = toHost \/ (toHost # <<>> /\ toHost' = Tail(toHost))
  BY DEF RunTimesOut, RunFails, HandleXml, HandleHello, HandleRead, HandleEndOfImage,
     HandleDoneResp, HandleResetResp, HandleEmpty, Packet
<1>3. hpc' = hpc \/ hpc' \in {"run", "end"}
  BY DEF RunTimesOut, RunFails, HandleXml, HandleHello, HandleRead, HandleEndOfImage,
     HandleDoneResp, HandleResetResp, HandleEmpty, Return, Carry
<1> QED
  BY <1>1, <1>2, <1>3, HostReads, QuietDump

LEMMA DumpDebug == Basic /\ DumpInv /\ HandleDebug => DumpInv'
<1> SUFFICES ASSUME Basic, DumpInv, HandleDebug PROVE DumpInv'
  OBVIOUS
<1>1. UNCHANGED <<region, chunk, dumped, kind, dpc>> /\ hpc = "run" /\ hpc' \in {"run", "table"}
  BY DEF HandleDebug, runRest, devVars, Carry
<1>2. toHost # <<>> /\ toHost' = Tail(toHost) /\ IsDebug(Head(toHost)) /\ toHost \in Seq(Truths)
  BY DEF HandleDebug, Packet, IsDebug, Basic, LinkInv
<1>3. ~None(toHost) /\ None(toHost)' /\ Once(toHost)'
  BY <1>2, TailDebug DEF DumpInv, DumpOnce
<1>4. region' = 0
  BY <1>1, <1>3 DEF DumpInv, DumpOnce
<1>5. ~(dpc' \in {"start", "hello", "table"} \/ kind' # "crashed")
  BY <1>1, <1>3 DEF DumpInv, DumpOnce
<1>6. FileInv'
  BY <1>1 DEF DumpInv, FileInv
<1> QED
  BY <1>3, <1>4, <1>5, <1>6 DEF DumpInv, DumpOnce

\* While it dumps, the device has announced its table, once.
LEMMA DumpUnderway ==
  ASSUME DumpInv, hpc \notin {"run", "end"}
  PROVE  /\ ~(dpc \in {"start", "hello", "table"} \/ kind # "crashed")
         /\ None(toHost) /\ Once(toHost)
BY DEF DumpInv, DumpOnce

LEMMA DumpStep ==
  ASSUME Basic, DumpInv, hpc \notin {"run", "end"}, hpc' # "table", UNCHANGED <<dpc, kind>>,
         toHost' = toHost \/ (toHost # <<>> /\ toHost' = Tail(toHost)), FileInv'
  PROVE  DumpInv'
BY DumpUnderway, HostReads DEF DumpInv, DumpOnce

LEMMA DumpTable == Basic /\ DumpInv /\ ReadTable => DumpInv'
<1> SUFFICES ASSUME Basic, DumpInv, ReadTable PROVE DumpInv'
  OBVIOUS
<1>1. hpc = "table" /\ region = 0 /\ UNCHANGED <<dumped, dpc, kind>>
  BY DEF ReadTable, DumpInv, DumpOnce, dumpRest, devVars
<1>2. toHost' = toHost \/ (toHost # <<>> /\ toHost' = Tail(toHost))
  BY DEF ReadTable, Packet
<1>3. (hpc' = "region" /\ region' = 1 /\ chunk' = 0) \/ (hpc' = "run" /\ region' = region)
  BY DEF ReadTable
<1>4. \A i \in DOMAIN Regions : i > 0 /\ dumped[i] = -1 /\ Regions[i] >= 0
  BY <1>1, RegionsType DEF DumpInv, FileInv
<1>5. FileInv'
  BY <1>1, <1>3, <1>4, RegionsType DEF FileInv
<1> QED
  BY <1>1, <1>2, <1>3, <1>5, DumpStep

LEMMA DumpRequestBlock == Basic /\ DumpInv /\ RequestBlock => DumpInv'
<1> SUFFICES ASSUME Basic, DumpInv, RequestBlock PROVE DumpInv'
  OBVIOUS
<1>1. hpc = "region" /\ UNCHANGED <<dpc, kind, toHost>>
  BY DEF RequestBlock, dumpRest, devVars
<1>2. /\ region \in Nat /\ region >= 1 /\ chunk \in Nat /\ dumped \in [1 .. Len(Regions) -> Int]
      /\ \A i \in 1 .. Len(Regions) : /\ i < region => dumped[i] = 2 * Regions[i]
                                      /\ i > region => dumped[i] = -1
      /\ region <= Len(Regions) =>
           chunk <= Regions[region] /\ dumped[region] = IF chunk = 0 THEN -1 ELSE 2 * chunk
  BY <1>1, RegionsType DEF Basic, HostTypes, DumpInv, FileInv
<1>3. /\ Len(Regions) \in Nat /\ DOMAIN Regions = 1 .. Len(Regions)
      /\ \A i \in 1 .. Len(Regions) : Regions[i] \in Nat \ {0}
  BY RegionsType
<1>4. CASE /\ region <= Len(Regions) /\ MoreBlocks /\ hpc' \in {"run", "block"}
           /\ dumped' = IF chunk = 0 THEN [dumped EXCEPT ![region] = 0] ELSE dumped
           /\ UNCHANGED <<region, chunk>>
  <2>1. region \in 1 .. Len(Regions) /\ chunk < Regions[region]
    BY <1>2, <1>3, <1>4 DEF MoreBlocks
  <2>2. dumped'[region] = 2 * chunk /\ \A i \in 1 .. Len(Regions) : i # region => dumped'[i] = dumped[i]
    BY <1>2, <1>4, <2>1
  <2>3. FileInv'
    BY <1>2, <1>3, <1>4, <2>1, <2>2 DEF FileInv
  <2> QED
    BY <1>1, <1>4, <2>3, DumpStep
<1>5. CASE /\ region <= Len(Regions) /\ ~MoreBlocks /\ hpc' = hpc
           /\ region' = region + 1 /\ chunk' = 0 /\ dumped' = dumped
  <2>1. region \in 1 .. Len(Regions) /\ chunk = Regions[region] /\ dumped[region] = 2 * Regions[region]
    <3>1. region \in 1 .. Len(Regions) /\ Regions[region] \in Nat \ {0}
      BY <1>2, <1>3, <1>5
    <3>2. chunk = Regions[region]
      BY <1>2, <1>5, <3>1 DEF MoreBlocks
    <3>3. dumped[region] = 2 * chunk
      BY <1>2, <1>5, <3>1, <3>2
    <3> QED
      BY <3>1, <3>2, <3>3
  <2>2. FileInv'
    BY <1>1, <1>2, <1>3, <1>5, <2>1 DEF FileInv
  <2> QED
    BY <1>1, <1>5, <2>2, DumpStep
<1>6. CASE hpc' = "run" /\ UNCHANGED <<region, chunk, dumped>>
  <2>1. FileInv'
    BY <1>2, <1>3, <1>6 DEF FileInv
  <2> QED
    BY <1>1, <1>6, <2>1, DumpStep
<1> QED
  BY <1>4, <1>5, <1>6 DEF RequestBlock, StopDump

LEMMA DumpReadPiece == Basic /\ DumpInv /\ ReadPiece => DumpInv'
<1> SUFFICES ASSUME Basic, DumpInv, ReadPiece PROVE DumpInv'
  OBVIOUS
<1>1. hpc = "block" /\ UNCHANGED <<dpc, kind, region, chunk>>
  BY DEF ReadPiece, dumpRest, devVars
<1>2. toHost' = toHost \/ (toHost # <<>> /\ toHost' = Tail(toHost))
  BY DEF ReadPiece, Packet
<1>3. /\ region \in Nat /\ region >= 1 /\ chunk \in Nat /\ dumped \in [1 .. Len(Regions) -> Int]
      /\ \A i \in 1 .. Len(Regions) : /\ i < region => dumped[i] = 2 * Regions[i]
                                      /\ i > region => dumped[i] = -1
      /\ region <= Len(Regions) /\ chunk < Regions[region]
      /\ dumped[region] \in {2 * chunk, 2 * chunk + 1}
  BY <1>1, RegionsType DEF Basic, HostTypes, DumpInv, FileInv
<1>4. /\ Len(Regions) \in Nat /\ DOMAIN Regions = 1 .. Len(Regions)
      /\ \A i \in 1 .. Len(Regions) : Regions[i] \in Nat \ {0}
  BY RegionsType
<1>5. CASE /\ dumped' = [dumped EXCEPT ![region] = @ + 1]
           /\ IF BlockRead THEN hpc' = "settle" ELSE UNCHANGED hpc
  <2>1. region \in 1 .. Len(Regions)
    BY <1>3, <1>4
  <2>2. /\ dumped'[region] = dumped[region] + 1
        /\ \A i \in 1 .. Len(Regions) : i # region => dumped'[i] = dumped[i]
    BY <1>3, <1>5, <2>1
  <2>3. BlockRead <=> dumped[region] = 2 * chunk + 1
    BY <1>3 DEF BlockRead
  <2>4. \/ hpc' = "settle" /\ dumped'[region] = 2 * (chunk + 1)
        \/ hpc' = "block" /\ dumped'[region] = 2 * chunk + 1
    BY <1>1, <1>3, <1>5, <2>2, <2>3
  <2>5. FileInv'
    BY <1>1, <1>3, <1>4, <2>1, <2>2, <2>4 DEF FileInv
  <2> QED
    BY <1>1, <1>2, <2>4, <2>5, DumpStep
<1>6. CASE hpc' \in {"run", "block"} /\ dumped' = dumped
  <2>1. FileInv'
    BY <1>1, <1>3, <1>4, <1>6 DEF FileInv
  <2> QED
    BY <1>1, <1>2, <1>6, <2>1, DumpStep
<1> QED
  BY <1>1, <1>5, <1>6 DEF ReadPiece, StopDump

LEMMA DumpSettle == Basic /\ DumpInv /\ Settle => DumpInv'
<1> SUFFICES ASSUME Basic, DumpInv, Settle PROVE DumpInv'
  OBVIOUS
<1>1. hpc = "settle" /\ hpc' = "region" /\ chunk' = chunk + 1 /\ UNCHANGED <<dpc, kind, region, dumped>>
  BY DEF Settle, dumpRest, devVars
<1>2. toHost' = toHost \/ (toHost # <<>> /\ toHost' = Tail(toHost))
  BY DEF Settle
<1>3. /\ region \in Nat /\ region >= 1 /\ chunk \in Nat
      /\ \A i \in 1 .. Len(Regions) : /\ i < region => dumped[i] = 2 * Regions[i]
                                      /\ i > region => dumped[i] = -1
      /\ region <= Len(Regions) /\ chunk < Regions[region]
      /\ dumped[region] = 2 * (chunk + 1)
  BY <1>1, RegionsType DEF Basic, HostTypes, DumpInv, FileInv
<1>4. /\ Len(Regions) \in Nat /\ DOMAIN Regions = 1 .. Len(Regions)
      /\ \A i \in 1 .. Len(Regions) : Regions[i] \in Nat \ {0}
  BY RegionsType
<1>5. FileInv'
  BY <1>1, <1>3, <1>4 DEF FileInv
<1> QED
  BY <1>1, <1>2, <1>5, DumpStep

\* The device's steps.
LEMMA DeviceSays ==
  ASSUME NEW S, toHost \in Seq(S), NEW m \in S, ~IsDebug(m), Say(m)
  PROVE  (Once(toHost) => Once(toHost)') /\ (None(toHost) => None(toHost)')
BY AppendDebug DEF Say

LEMMA TakeSays ==
  ASSUME Basic, DevTake
  PROVE  (Once(toHost) => Once(toHost)') /\ (None(toHost) => None(toHost)')
<1>1. toHost \in Seq(Spoken)
  BY BasicType DEF TypeOK
<1>2. CASE toHost' = toHost
  BY <1>2
<1>3. CASE \E ok \in BOOLEAN : Say([t |-> "END_OF_IMAGE", ok |-> ok])
  <2>1. PICK ok \in BOOLEAN : Say([t |-> "END_OF_IMAGE", ok |-> ok])
    BY <1>3
  <2>2. [t |-> "END_OF_IMAGE", ok |-> ok] \in Spoken /\ ~IsDebug([t |-> "END_OF_IMAGE", ok |-> ok])
    BY DEF Spoken, IsDebug
  <2> QED
    BY <1>1, <2>1, <2>2, DeviceSays
<1>4. CASE Say([t |-> "DONE_RESP", complete |-> Len(want) = 1 /\ ~coy])
  <2> DEFINE m == [t |-> "DONE_RESP", complete |-> Len(want) = 1 /\ ~coy]
  <2>1. m \in Spoken /\ ~IsDebug(m)
    BY DEF Spoken, IsDebug
  <2> QED
    BY <1>1, <1>4, <2>1, DeviceSays
<1>5. CASE Say([t |-> "RESET_RESP"])
  <2>1. [t |-> "RESET_RESP"] \in Spoken /\ ~IsDebug([t |-> "RESET_RESP"])
    BY DEF Spoken, IsDebug
  <2> QED
    BY <1>1, <1>5, <2>1, DeviceSays
<1>6. CASE \E x \in Seq({Piece, Empty}) : toHost' = toHost \o x
  <2>1. PICK x \in Seq({Piece, Empty}) : toHost' = toHost \o x
    BY <1>6
  <2>2. {Piece, Empty} \subseteq Spoken /\ ~IsDebug(Piece) /\ ~IsDebug(Empty)
    BY DEF Piece, Empty, Spoken, IsDebug
  <2>3. x \in Seq(Spoken)
    BY <2>2, SeqGrows
  <2>4. None(x)
    BY <2>2, ElementOfSeq DEF None
  <2> QED
    BY <1>1, <2>1, <2>3, <2>4, ConcatDebug
<1>7. dpc = "debug" /\ Head(toDev).t = "MEM_READ" => \E x \in Seq({Piece, Empty}) : toHost' = toHost \o x
  <2> SUFFICES ASSUME dpc = "debug", Head(toDev).t = "MEM_READ"
               PROVE  \E x \in Seq({Piece, Empty}) : toHost' = toHost \o x
    OBVIOUS
  <2>1. PICK zlp \in {<<>>, <<Empty>>} :
            toHost' = toHost \o (IF Head(toDev).n = 0 THEN <<Piece>> ELSE <<Piece, Piece>> \o zlp)
    BY DEF DevTake, Piece, Empty
  <2>2. \A S, a, b : a \in S /\ b \in S =>
          <<>> \in Seq(S) /\ <<a>> \in Seq(S) /\ <<b>> \in Seq(S) /\ <<a, a>> \in Seq(S)
    OBVIOUS
  <2>3. <<Piece>> \in Seq({Piece, Empty}) /\ <<Piece, Piece>> \in Seq({Piece, Empty})
        /\ zlp \in Seq({Piece, Empty})
    BY <2>2
  <2>4. <<Piece, Piece>> \o zlp \in Seq({Piece, Empty})
    BY <2>3, ConcatProperties
  <2> QED
    BY <2>1, <2>3, <2>4
<1> QED
  BY <1>2, <1>3, <1>4, <1>5, <1>6, <1>7 DEF DevTake

LEMMA DumpDevice == Basic /\ DumpInv /\ (Device \/ DevGone \/ DevHang) => DumpInv'
<1> SUFFICES ASSUME Basic, DumpInv, Device \/ DevGone \/ DevHang PROVE DumpInv'
  OBVIOUS
<1>1. UNCHANGED <<region, chunk, dumped, kind, hpc>>
  BY DEF Device, DevHello, DevRequest, DevAnnounce, DevTake, DevReject, DevGone, DevHang, devRest,
     hostVars
<1>2. toHost \in Seq(Spoken)
  BY BasicType DEF TypeOK
<1>3. CASE DevHello
  <2>1. [t |-> "HELLO"] \in Spoken /\ ~IsDebug([t |-> "HELLO"])
    BY DEF Spoken, IsDebug
  <2>2. (Once(toHost) => Once(toHost)') /\ (None(toHost) => None(toHost)')
    BY <1>2, <1>3, <2>1, DeviceSays DEF DevHello
  <2> QED
    BY <1>1, <1>3, <2>2, QuietDump DEF DevHello
<1>4. CASE DevRequest
  <2>1. dpc = "load" /\ dpc' = "data" /\ Say(Request)
    BY <1>4 DEF DevRequest, Request
  <2>2. want # <<>> /\ want \in Seq(Requests) /\ doff \in Nat
    BY <2>1 DEF Basic, WantInv, DeviceTypes
  <2>3. Head(want) \in Requests
    BY <2>2, HeadTail
  <2>4. Request \in Spoken /\ ~IsDebug(Request)
    BY <2>2, <2>3 DEF Request, Requests, Spoken, IsDebug
  <2>5. (Once(toHost) => Once(toHost)') /\ (None(toHost) => None(toHost)')
    BY <1>2, <2>1, <2>4, DeviceSays
  <2> QED
    BY <1>1, <2>1, <2>5, QuietDump
<1>5. CASE DevAnnounce
  <2>1. dpc = "table" /\ dpc' = "debug" /\ toHost' = Append(toHost, Announce)
    BY <1>5 DEF DevAnnounce, Say, Announce
  <2>2. kind = "crashed"
    BY <2>1, SaharaAssumption DEF Basic, KindInv, HostTypes
  <2>3. None(toHost) /\ region = 0 /\ hpc \in {"run", "end"}
    BY <2>1 DEF DumpInv, DumpOnce
  <2>4. Announce \in Spoken
    BY DEF Announce, Spoken
  <2>5. Once(toHost)'
    BY <1>2, <2>1, <2>3, <2>4, AppendDebug
  <2>6. FileInv'
    BY <1>1 DEF DumpInv, FileInv
  <2> QED
    BY <1>1, <2>1, <2>2, <2>3, <2>5, <2>6 DEF DumpInv, DumpOnce
<1>6. CASE DevTake
  <2>1. dpc' \in {"start", "hello", "table"} => dpc \in {"start", "hello", "table"} \/ kind # "crashed"
    <3>1. dpc \in {"hello", "data", "eoi", "debug"}
      BY <1>6 DEF DevTake
    <3>2. dpc \in {"data", "eoi"} => kind # "crashed"
      BY DEF Basic, KindInv
    <3>3. dpc = "debug" => dpc' \in {"debug", "gone"}
      BY <1>6 DEF DevTake
    <3> QED
      BY <3>1, <3>2, <3>3
  <2> QED
    BY <1>1, <1>6, <2>1, TakeSays, QuietDump
<1>7. CASE DevReject
  <2>1. dpc' = dpc /\ (toHost' = toHost \/ Say([t |-> "xml"]))
    BY <1>7 DEF DevReject
  <2>2. [t |-> "xml"] \in Spoken /\ ~IsDebug([t |-> "xml"])
    BY DEF Spoken, IsDebug
  <2>3. (Once(toHost) => Once(toHost)') /\ (None(toHost) => None(toHost)')
    BY <1>2, <2>1, <2>2, DeviceSays
  <2> QED
    BY <1>1, <2>1, <2>3, QuietDump
<1>8. CASE DevGone \/ DevHang
  <2>1. dpc' \in {"gone", "dead"} /\ toHost' \in {toHost, <<>>}
    BY <1>8 DEF DevGone, DevHang
  <2>2. Once(<<>>) /\ None(<<>>)
    BY DEF Once, None
  <2> QED
    BY <1>1, <2>1, <2>2, QuietDump
<1> QED
  BY <1>3, <1>4, <1>5, <1>6, <1>7, <1>8 DEF Device

LEMMA DumpNext == Basic /\ DumpInv /\ [Next]_vars => DumpInv'
<1> SUFFICES ASSUME Basic, DumpInv, [Next]_vars PROVE DumpInv'
  OBVIOUS
<1>1. CASE Host
  BY <1>1, DumpQuietHost, DumpDebug, DumpTable, DumpRequestBlock, DumpReadPiece, DumpSettle DEF Host
<1>2. CASE Device \/ DevGone \/ DevHang
  BY <1>2, DumpDevice
<1>3. CASE UNCHANGED vars
  BY <1>3, QuietDump DEF vars, hostVars, devVars
<1> QED
  BY <1>1, <1>2, <1>3 DEF Next, Done

LEMMA DumpInit == Init => DumpInv
<1> SUFFICES ASSUME Init PROVE DumpInv
  OBVIOUS
<1>1. toHost = <<>> /\ region = 0 /\ hpc = "run" /\ dumped = [i \in DOMAIN Regions |-> -1]
  BY DEF Init
<1>2. Once(toHost) /\ None(toHost)
  BY <1>1 DEF Once, None
<1>3. FileInv
  BY <1>1, RegionsType DEF FileInv
<1> QED
  BY <1>1, <1>2, <1>3 DEF DumpInv, DumpOnce

-----------------------------------------------------------------------------
(* The conversation.                                                       *)

LEMMA One ==
  \A a : /\ <<a>> # <<>> /\ Head(<<a>>) = a /\ Tail(<<a>>) = <<>> /\ Len(<<a>>) = 1
         /\ Append(<<>>, a) = <<a>> /\ <<a>>[1] = a
OBVIOUS

LEMMA Two ==
  \A a, b : <<a, b>> # <<>> /\ Head(<<a, b>>) = a /\ Tail(<<a, b>>) = <<b>>
<1> SUFFICES ASSUME NEW a, NEW b
             PROVE  <<a, b>> # <<>> /\ Head(<<a, b>>) = a /\ Tail(<<a, b>>) = <<b>>
  OBVIOUS
<1>1. <<a, b>> \in Seq({a, b}) /\ <<b>> \in Seq({a, b})
  OBVIOUS
<1>2. Tail(<<a, b>>) = <<b>>
  BY <1>1
<1> QED
  BY <1>2

LEMMA Three ==
  \A a, b, c : /\ <<a, b, c>> # <<>> /\ Head(<<a, b, c>>) = a /\ Tail(<<a, b, c>>) = <<b, c>>
               /\ <<a, b>> \o <<c>> = <<a, b, c>>
<1> SUFFICES ASSUME NEW a, NEW b, NEW c
             PROVE  /\ <<a, b, c>> # <<>> /\ Head(<<a, b, c>>) = a /\ Tail(<<a, b, c>>) = <<b, c>>
                    /\ <<a, b>> \o <<c>> = <<a, b, c>>
  OBVIOUS
<1> DEFINE S == {a, b, c}
<1>1. <<a, b, c>> \in Seq(S) /\ <<b, c>> \in Seq(S) /\ <<a, b>> \in Seq(S) /\ <<c>> \in Seq(S)
  OBVIOUS
<1>2. /\ Len(<<a, b, c>>) = 3 /\ <<a, b, c>>[1] = a /\ <<a, b, c>>[2] = b /\ <<a, b, c>>[3] = c
      /\ Len(<<b, c>>) = 2 /\ <<b, c>>[1] = b /\ <<b, c>>[2] = c
      /\ Len(<<a, b>>) = 2 /\ <<a, b>>[1] = a /\ <<a, b>>[2] = b
      /\ Len(<<c>>) = 1 /\ <<c>>[1] = c
  OBVIOUS
<1>3. Tail(<<a, b, c>>) = <<b, c>>
  <2>1. /\ Tail(<<a, b, c>>) \in Seq(S) /\ Len(Tail(<<a, b, c>>)) = 2
        /\ Tail(<<a, b, c>>)[1] = b /\ Tail(<<a, b, c>>)[2] = c
    BY <1>1, <1>2
  <2>2. \A i \in 1 .. 2 : Tail(<<a, b, c>>)[i] = <<b, c>>[i]
    BY <1>2, <2>1
  <2> QED
    BY <1>1, <1>2, <2>1, <2>2, SeqEqual
<1>4. <<a, b>> \o <<c>> = <<a, b, c>>
  <2>1. /\ <<a, b>> \o <<c>> \in Seq(S) /\ Len(<<a, b>> \o <<c>>) = 3
        /\ \A i \in 1 .. 3 : (<<a, b>> \o <<c>>)[i] = IF i <= 2 THEN <<a, b>>[i] ELSE <<c>>[i - 2]
    BY <1>1, <1>2, ConcatProperties
  <2>2. \A i \in 1 .. 3 : (<<a, b>> \o <<c>>)[i] = <<a, b, c>>[i]
    BY <1>2, <2>1
  <2> QED
    BY <1>1, <1>2, <2>1, <2>2, SeqEqual
<1> QED
  BY <1>3, <1>4

LEMMA LateGrows ==
  ASSUME Basic, [Next]_vars, late' = 0
  PROVE  late = 0
<1>1. late \in Nat
  BY DEF Basic, Counted
<1>2. late' = late \/ late' = late + 1
  BY DEF Next, Host, RunTimesOut, StopsWaiting, RunFails, HandleXml, HandleHello, HandleRead,
     HandleEndOfImage, HandleDoneResp, HandleResetResp, HandleDebug, HandleEmpty, ReadTable,
     RequestBlock, ReadPiece, Settle, runRest, Device, DevHello, DevRequest, DevAnnounce, DevTake,
     DevReject, DevGone, DevHang, devRest, Done, counters, vars
<1> QED
  BY <1>1, <1>2

\* When nothing is late, the host stops waiting for a device that waits for it.
LEMMA PromptWait ==
  ASSUME Basic, StopsWaiting, late' = 0
  PROVE  toHost = <<>> /\ DeviceWaits
BY DEF StopsWaiting, Basic, Counted

LEMMA Ended ==
  ASSUME ~stray', hpc' = "end", toDev' \in {<<>>, <<Reset>>}
  PROVE  Protocol'
BY DEF Protocol, Reset

LEMMA TalksOn ==
  ASSUME ~stray', hpc' = "run", Talking'
  PROVE  Protocol'
BY DEF Protocol

LEMMA DumpsOn ==
  ASSUME ~stray', hpc' \notin {"run", "end"}, dpc' = "debug", Dumping'
  PROVE  Protocol'
BY DEF Protocol

\* What the host hears, from whom, and what is left.
Heard(t) ==
  \/ t = "HELLO" /\ dpc = "hello" /\ toDev = <<>> /\ toHost = <<HELLO>> /\ toHost' = <<>>
  \/ t = "READ_DATA" /\ dpc = "data" /\ toDev = <<>> /\ toHost = <<Request>> /\ toHost' = <<>>
  \/ /\ t = "END_OF_IMAGE" /\ toDev = <<>> /\ toHost' = <<>>
     /\ \/ dpc = "eoi" /\ toHost = <<Eoi(TRUE)>>
        \/ dpc = "failed" /\ toHost = <<Eoi(FALSE)>>
  \/ /\ t = "DONE_RESP" /\ toDev = <<>> /\ ~first_read
     /\ \/ dpc \in {"start", "load"} /\ toHost' = <<>>
        \/ dpc = "hello" /\ toHost' = <<HELLO>>
        \/ dpc = "data" /\ toHost' = <<Request>>
  \/ t = "MEM_DEBUG64" /\ dpc = "debug" /\ toDev = <<>> /\ toHost = <<Announce>> /\ toHost' = <<>>
  \/ t \in {"mem", "zlp"} /\ dpc = "debug" /\ toDev = <<Reset>> /\ toHost' \in Seq({Piece, Empty})

LEMMA HeardTalking ==
  ASSUME Basic, Talking, Up, NEW t, Packet(t)
  PROVE  Heard(t)
<1>1. toHost # <<>> /\ Head(toHost).t = t /\ toHost' = Tail(toHost)
  BY DEF Packet
<1>2. \A m : toHost = <<m>> => m.t = t /\ toHost' = <<>>
  BY <1>1, One
<1>3. \A s : Reply(s) => ~first_read /\ t = "DONE_RESP" /\ toHost' = s
  BY <1>1 DEF Reply
<1>4. \A m : Waiting(m) =>
        /\ toDev = <<>>
        /\ \/ m.t = t /\ toHost = <<m>> /\ toHost' = <<>>
           \/ ~first_read /\ t = "DONE_RESP" /\ toHost' = <<m>>
  BY <1>2, <1>3 DEF Waiting
<1>5. \A m : ~Answer(m)
  BY <1>1 DEF Answer
<1>6. CASE dpc \in {"start", "load"}
  <2>1. toDev = <<>> /\ Reply(<<>>)
    BY <1>1, <1>6 DEF Talking
  <2> QED
    BY <1>3, <1>6, <2>1 DEF Heard
<1>7. CASE dpc = "hello"
  <2>1. Waiting(HELLO)
    BY <1>1, <1>5, <1>7 DEF Talking
  <2> QED
    BY <1>4, <1>7, <2>1 DEF Heard, HELLO
<1>8. CASE dpc = "data"
  <2>1. Waiting(Request)
    BY <1>5, <1>8 DEF Talking
  <2> QED
    BY <1>4, <1>8, <2>1 DEF Heard, Request
<1>9. CASE dpc = "eoi"
  <2>1. toDev = <<>> /\ toHost = <<Eoi(TRUE)>>
    BY <1>5, <1>9 DEF Talking
  <2> QED
    BY <1>2, <1>9, <2>1 DEF Heard, Eoi
<1>10. CASE dpc = "failed"
  <2>1. toDev = <<>> /\ toHost = <<Eoi(FALSE)>>
    BY <1>10 DEF Talking
  <2> QED
    BY <1>2, <1>10, <2>1 DEF Heard, Eoi
<1>11. CASE dpc = "table"
  BY <1>1, <1>11 DEF Talking
<1>12. CASE dpc = "debug"
  <2>1. CASE toDev = <<>> /\ toHost = <<Announce>>
    BY <1>2, <1>12, <2>1 DEF Heard, Announce
  <2>2. CASE toDev = <<Reset>> /\ toHost \in Seq({Piece, Empty})
    <3>1. Head(toHost) \in {Piece, Empty} /\ toHost' \in Seq({Piece, Empty})
      BY <1>1, <2>2, HeadTail
    <3>2. t \in {"mem", "zlp"}
      BY <1>1, <3>1 DEF Piece, Empty
    <3> QED
      BY <1>12, <2>2, <3>1, <3>2 DEF Heard
  <2> QED
    BY <1>12, <2>1, <2>2 DEF Talking
<1> QED
  BY <1>6, <1>7, <1>8, <1>9, <1>10, <1>11, <1>12 DEF Basic, DeviceTypes, Up

\* A step of the host while it talks to a device that is up.
LEMMA Handling ==
  ASSUME Basic, Protocol, Up, hpc = "run", Host
  PROVE  /\ Talking /\ ~stray' /\ Up'
         /\ UNCHANGED <<dpc, want, doff, transport>>
         /\ dpc # "gone" /\ Request' = Request /\ Block' = Block
<1>1. HostKeeps
  BY HostKept
<1>2. UNCHANGED <<dpc, want, doff, transport, stray>>
  BY <1>1 DEF HostKeeps
<1> QED
  BY <1>2 DEF Protocol, Up, Request, Block

\* The only device that says nothing for long is one whose HELLO was eaten.
LEMMA SilentHello ==
  ASSUME Basic, Protocol, Up, RunTimesOut, late' = 0
  PROVE  /\ dpc = "hello" /\ first_read /\ transport = "qud"
         /\ toHost = <<>> /\ toDev = <<>> /\ ~stray' /\ UNCHANGED dpc
<1>1. Talking /\ ~stray' /\ UNCHANGED dpc
  BY Handling DEF Host, RunTimesOut
<1>2. toHost = <<>> /\ toDev = <<>> /\ dpc \notin {"start", "load", "table"}
  BY PromptWait DEF RunTimesOut, DeviceWaits
<1>3. /\ \A m : toHost # <<m>> /\ toDev # <<m>>
      /\ \A s : ~Reply(s)
  BY <1>2, One DEF Reply
<1>4. dpc = "hello" /\ first_read /\ transport = "qud"
  BY <1>1, <1>2, <1>3 DEF Talking, Waiting, Answer, Basic, DeviceTypes, Up
<1> QED
  BY <1>1, <1>2, <1>4

LEMMA TalkTimesOut ==
  Basic /\ Protocol /\ Up /\ RunTimesOut /\ late' = 0 => Protocol'
<1> SUFFICES ASSUME Basic, Protocol, Up, RunTimesOut, late' = 0 PROVE Protocol'
  OBVIOUS
<1>1. /\ dpc = "hello" /\ first_read /\ transport = "qud"
      /\ toHost = <<>> /\ toDev = <<>> /\ ~stray' /\ UNCHANGED dpc
  BY SilentHello
<1>2. UNCHANGED <<transport, first_read, toHost>>
  BY DEF RunTimesOut
<1>3. CASE MaybeFirehose
  <2>1. hpc' = "run" /\ toDev' = <<HelloResp>>
    BY <1>1, <1>3, One DEF RunTimesOut, Carry, Send
  <2>2. Talking'
    BY <1>1, <1>2, <2>1 DEF Talking, Answer, HelloResp
  <2> QED
    BY <1>1, <2>1, <2>2, TalksOn
<1>4. CASE ~MaybeFirehose
  <2>1. hpc' = "end" /\ toDev' = <<>>
    BY <1>1, <1>4 DEF RunTimesOut, Return
  <2> QED
    BY <1>1, <2>1, Ended
<1> QED
  BY <1>3, <1>4

LEMMA TalkHello == Basic /\ Protocol /\ Up /\ HandleHello => Protocol'
<1> SUFFICES ASSUME Basic, Protocol, Up, HandleHello PROVE Protocol'
  OBVIOUS
<1>1. Talking /\ ~stray' /\ UNCHANGED dpc /\ dpc # "gone"
  BY Handling DEF Host, HandleHello
<1>2. dpc = "hello" /\ toDev = <<>> /\ toHost' = <<>>
  <2>1. Heard("HELLO")
    BY <1>1, HeardTalking DEF HandleHello
  <2> QED
    BY <2>1 DEF Heard
<1>3. hpc' = "run" /\ toDev' = <<HelloResp>>
  BY <1>1, <1>2, One DEF HandleHello, Carry, Send
<1>4. Talking'
  BY <1>1, <1>2, <1>3 DEF Talking, Answer, HelloResp
<1> QED
  BY <1>1, <1>3, <1>4, TalksOn

LEMMA TalkRead == Basic /\ Protocol /\ Up /\ HandleRead => Protocol'
<1> SUFFICES ASSUME Basic, Protocol, Up, HandleRead PROVE Protocol'
  OBVIOUS
<1>1. Talking /\ ~stray' /\ UNCHANGED dpc /\ dpc # "gone" /\ Block' = Block
  BY Handling DEF Host, HandleRead
<1>2. dpc = "data" /\ toDev = <<>> /\ toHost = <<Request>> /\ toHost' = <<>>
  <2>1. Heard("READ_DATA")
    BY <1>1, HeardTalking DEF HandleRead
  <2> QED
    BY <2>1 DEF Heard
<1>3. Head(toHost) = Request
  BY <1>2, One
<1>4. \/ hpc' = "end" /\ toDev' \in {<<>>, <<Reset>>}
      \/ hpc' = "run" /\ toDev' = <<Block>>
  BY <1>1, <1>2, <1>3, One DEF HandleRead, Return, Carry, Send, Request, Block
<1>5. CASE hpc' = "end" /\ toDev' \in {<<>>, <<Reset>>}
  BY <1>1, <1>5, Ended
<1>6. CASE hpc' = "run" /\ toDev' = <<Block>>
  <2>1. Talking'
    BY <1>1, <1>2, <1>6 DEF Talking, Answer
  <2> QED
    BY <1>1, <1>6, <2>1, TalksOn
<1> QED
  BY <1>4, <1>5, <1>6

LEMMA TalkEndOfImage == Basic /\ Protocol /\ Up /\ HandleEndOfImage => Protocol'
<1> SUFFICES ASSUME Basic, Protocol, Up, HandleEndOfImage PROVE Protocol'
  OBVIOUS
<1>1. Talking /\ ~stray' /\ UNCHANGED dpc /\ dpc # "gone"
  BY Handling DEF Host, HandleEndOfImage
<1>2. /\ toDev = <<>> /\ toHost' = <<>>
      /\ \/ dpc = "eoi" /\ toHost = <<Eoi(TRUE)>>
         \/ dpc = "failed" /\ toHost = <<Eoi(FALSE)>>
  <2>1. Heard("END_OF_IMAGE")
    BY <1>1, HeardTalking DEF HandleEndOfImage
  <2> QED
    BY <2>1 DEF Heard
<1>3. CASE dpc = "eoi" /\ toHost = <<Eoi(TRUE)>>
  <2>1. Head(toHost).ok
    BY <1>3, One DEF Eoi
  <2>2. hpc' = "run" /\ toDev' = <<DONE>> /\ ~first_read'
    BY <1>1, <1>2, <2>1, One DEF HandleEndOfImage, Carry, Send, DONE
  <2>3. Talking'
    BY <1>1, <1>2, <1>3, <2>2 DEF Talking, Answer, DONE
  <2> QED
    BY <1>1, <2>2, <2>3, TalksOn
<1>4. CASE dpc = "failed" /\ toHost = <<Eoi(FALSE)>>
  <2>1. ~Head(toHost).ok
    BY <1>4, One DEF Eoi
  <2>2. hpc' = "end" /\ toDev' = <<>>
    BY <1>2, <2>1 DEF HandleEndOfImage, Return
  <2> QED
    BY <1>1, <2>2, Ended
<1> QED
  BY <1>2, <1>3, <1>4

LEMMA TalkDoneResp == Basic /\ Protocol /\ Up /\ HandleDoneResp => Protocol'
<1> SUFFICES ASSUME Basic, Protocol, Up, HandleDoneResp PROVE Protocol'
  OBVIOUS
<1>1. Talking /\ ~stray' /\ UNCHANGED dpc /\ dpc # "gone" /\ Request' = Request
  BY Handling DEF Host, HandleDoneResp
<1>2. /\ toDev = <<>>
      /\ \/ dpc \in {"start", "load"} /\ toHost' = <<>>
         \/ dpc = "hello" /\ toHost' = <<HELLO>>
         \/ dpc = "data" /\ toHost' = <<Request>>
  <2>1. Heard("DONE_RESP")
    BY <1>1, HeardTalking DEF HandleDoneResp
  <2> QED
    BY <2>1 DEF Heard
<1>3. toDev' = <<>> /\ hpc' \in {"run", "end"}
  BY <1>2 DEF HandleDoneResp, Return, Carry
<1>4. Talking'
  BY <1>1, <1>2, <1>3 DEF Talking, Waiting, HELLO
<1> QED
  BY <1>1, <1>3, <1>4, Ended, TalksOn

LEMMA TalkDebug == Basic /\ Protocol /\ Up /\ HandleDebug => Protocol'
<1> SUFFICES ASSUME Basic, Protocol, Up, HandleDebug PROVE Protocol'
  OBVIOUS
<1>1. Talking /\ ~stray' /\ UNCHANGED dpc /\ dpc # "gone"
  BY Handling DEF Host, HandleDebug
<1>2. dpc = "debug" /\ toDev = <<>> /\ toHost' = <<>>
  <2>1. Heard("MEM_DEBUG64")
    BY <1>1, HeardTalking DEF HandleDebug
  <2> QED
    BY <2>1 DEF Heard
<1>3. hpc' = "table" /\ toDev' = <<AskTable>>
  BY <1>1, <1>2, One DEF HandleDebug, Send, AskTable
<1>4. Dumping'
  BY <1>2, <1>3 DEF Dumping, Answer, AskTable
<1> QED
  BY <1>1, <1>2, <1>3, <1>4, DumpsOn

LEMMA TalkOther ==
  Basic /\ Protocol /\ Up /\ (HandleXml \/ HandleResetResp \/ HandleEmpty \/ RunFails) => Protocol'
<1> SUFFICES ASSUME Basic, Protocol, Up, HandleXml \/ HandleResetResp \/ HandleEmpty \/ RunFails
             PROVE  Protocol'
  OBVIOUS
<1>1. Talking /\ ~stray' /\ UNCHANGED dpc /\ dpc # "gone"
  BY Handling DEF Host, HandleXml, HandleResetResp, HandleEmpty, RunFails
<1>2. HandleEmpty
  <2>1. ~HandleXml /\ ~HandleResetResp
    <3>1. HandleXml => Heard("xml")
      BY <1>1, HeardTalking DEF HandleXml
    <3>2. HandleResetResp => Heard("RESET_RESP")
      BY <1>1, HeardTalking DEF HandleResetResp
    <3> QED
      BY <3>1, <3>2 DEF Heard
  <2> QED
    BY <1>1, <2>1 DEF RunFails
<1>3. toDev = <<Reset>>
  BY <1>1, <1>2, HeardTalking DEF Heard, HandleEmpty
<1>4. hpc' = "end" /\ toDev' = <<Reset>>
  BY <1>2, <1>3 DEF HandleEmpty, Return
<1> QED
  BY <1>1, <1>4, Ended

\* A step of the host while it dumps the memory of a device that is up.
LEMMA DumpingNow ==
  ASSUME Basic, Protocol, Up, hpc \notin {"run", "end"}, Host
  PROVE  /\ Dumping /\ ~stray' /\ dpc = "debug" /\ dpc' = "debug"
<1>1. HostKeeps
  BY HostKept
<1>2. UNCHANGED <<dpc, stray>>
  BY <1>1 DEF HostKeeps
<1> QED
  BY <1>2 DEF Protocol, Up

\* A dump that is given up is ended by a reset.
LEMMA DumpEnds ==
  ASSUME Basic, Protocol, Up, hpc \notin {"run", "end"}, Host,
         StopDump, toDev = <<>>, toHost' \in Seq({Piece, Empty})
  PROVE  Protocol'
<1>1. ~stray' /\ dpc = "debug" /\ dpc' = "debug"
  BY DumpingNow
<1>2. hpc' = "run" /\ toDev' = <<Reset>>
  BY <1>1, One DEF StopDump, Send
<1>3. Talking'
  BY <1>1, <1>2 DEF Talking, Reset, Piece, Empty
<1> QED
  BY <1>1, <1>2, <1>3, TalksOn

LEMMA MemorySeqs ==
  /\ <<>> \in Seq({Piece, Empty}) /\ <<Piece>> \in Seq({Piece, Empty})
  /\ <<Piece, Empty>> \in Seq({Piece, Empty}) /\ <<Empty>> \in Seq({Piece, Empty})
  /\ <<Piece, Piece>> \in Seq({Piece, Empty}) /\ <<Piece, Piece, Empty>> \in Seq({Piece, Empty})
<1>1. \A a, b : /\ <<>> \in Seq({a, b}) /\ <<a>> \in Seq({a, b}) /\ <<a, b>> \in Seq({a, b})
                /\ <<b>> \in Seq({a, b}) /\ <<a, a>> \in Seq({a, b}) /\ <<a, a, b>> \in Seq({a, b})
  OBVIOUS
<1> QED
  BY <1>1

\* The table of regions is there, or about to come.
LEMMA TableThere ==
  ASSUME Basic, Protocol, Up, ReadTable, late' = 0
  PROVE  hpc' = "region" /\ toHost' = <<>> /\ toDev' = <<>>
<1>1. Dumping /\ ~stray' /\ dpc = "debug" /\ dpc' = "debug" /\ hpc = "table"
  BY DumpingNow DEF Host, ReadTable
<1>2. Answer(AskTable) \/ (toDev = <<>> /\ toHost = <<Piece>>)
  BY <1>1 DEF Dumping
<1>3. toHost # <<>>
  <2>1. StopsWaiting => toHost = <<>> /\ toDev = <<>>
    BY PromptWait DEF DeviceWaits
  <2>2. toHost = <<>> => StopsWaiting
    BY <1>1 DEF ReadTable, Packet
  <2>3. ~(toHost = <<>> /\ toDev = <<>>)
    BY <1>2, One DEF Answer
  <2> QED
    BY <2>1, <2>2, <2>3
<1>4. toDev = <<>> /\ toHost = <<Piece>>
  BY <1>2, <1>3 DEF Answer
<1>5. ~StopsWaiting
  BY <1>3 DEF StopsWaiting
<1>6. hpc' = "region" /\ toHost' = <<>> /\ toDev' = <<>>
  BY <1>3, <1>4, <1>5, One DEF ReadTable, Packet
<1> QED
  BY <1>6

LEMMA TalkReadTable == Basic /\ Protocol /\ Up /\ ReadTable /\ late' = 0 => Protocol'
<1> SUFFICES ASSUME Basic, Protocol, Up, ReadTable, late' = 0 PROVE Protocol'
  OBVIOUS
<1>1. ~stray' /\ dpc' = "debug"
  BY DumpingNow DEF Host, ReadTable
<1>2. hpc' = "region" /\ toHost' = <<>> /\ toDev' = <<>>
  BY TableThere
<1>3. Dumping'
  BY <1>2 DEF Dumping
<1> QED
  BY <1>1, <1>2, <1>3, DumpsOn

LEMMA TalkRequestBlock == Basic /\ DumpInv /\ Protocol /\ Up /\ RequestBlock => Protocol'
<1> SUFFICES ASSUME Basic, DumpInv, Protocol, Up, RequestBlock PROVE Protocol'
  OBVIOUS
<1>1. Dumping /\ ~stray' /\ dpc = "debug" /\ dpc' = "debug" /\ hpc = "region"
  BY DumpingNow DEF Host, RequestBlock
<1>2. toDev = <<>> /\ toHost = <<>> /\ toHost' = <<>>
  BY <1>1 DEF Dumping, RequestBlock
<1>3. CASE StopDump
  BY <1>1, <1>2, <1>3, DumpEnds, MemorySeqs DEF Host
<1>4. CASE hpc' = "region" /\ toDev' = toDev
  <2>1. Dumping'
    BY <1>2, <1>4 DEF Dumping
  <2> QED
    BY <1>1, <1>4, <2>1, DumpsOn
<1>5. CASE /\ region <= Len(Regions) /\ hpc' = "block" /\ Send([t |-> "MEM_READ", n |-> 2])
           /\ dumped' = IF chunk = 0 THEN [dumped EXCEPT ![region] = 0] ELSE dumped
           /\ UNCHANGED <<region, chunk>>
  <2>1. toDev' = <<AskBlock>>
    BY <1>1, <1>2, <1>5, One DEF Send, AskBlock
  <2>2. /\ region \in 1 .. Len(Regions) /\ dumped \in [1 .. Len(Regions) -> Int]
        /\ dumped[region] = IF chunk = 0 THEN -1 ELSE 2 * chunk
    BY <1>1, <1>5, RegionsType DEF DumpInv, FileInv, Basic, HostTypes
  <2>3. dumped'[region] = 2 * chunk
    BY <1>5, <2>2
  <2>4. Dumping'
    BY <1>2, <1>5, <2>1, <2>3 DEF Dumping, Answer, AskBlock
  <2> QED
    BY <1>1, <1>5, <2>4, DumpsOn
<1>6. \/ StopDump
      \/ hpc' = "region" /\ toDev' = toDev
      \/ /\ region <= Len(Regions) /\ hpc' = "block" /\ Send([t |-> "MEM_READ", n |-> 2])
         /\ dumped' = IF chunk = 0 THEN [dumped EXCEPT ![region] = 0] ELSE dumped
         /\ UNCHANGED <<region, chunk>>
  BY <1>1 DEF RequestBlock
<1> QED
  BY <1>3, <1>4, <1>5, <1>6

\* The block that is read is there, or about to come.
LEMMA PieceThere ==
  ASSUME Basic, Protocol, Up, ReadPiece, late' = 0
  PROVE  /\ toDev = <<>> /\ Head(toHost) = Piece /\ toHost # <<>>
         /\ \/ dumped[region] = 2 * chunk /\ toHost \in {<<Piece, Piece>>, <<Piece, Piece, Empty>>}
            \/ dumped[region] = 2 * chunk + 1 /\ toHost \in {<<Piece>>, <<Piece, Empty>>}
         /\ ~StopsWaiting /\ ~Packet("zlp")
<1>1. Dumping /\ ~stray' /\ dpc = "debug" /\ dpc' = "debug" /\ hpc = "block"
  BY DumpingNow DEF Host, ReadPiece
<1>2. \/ dumped[region] = 2 * chunk /\ Answer(AskBlock)
      \/ /\ dumped[region] = 2 * chunk /\ toDev = <<>>
         /\ toHost \in {<<Piece, Piece>>, <<Piece, Piece, Empty>>}
      \/ dumped[region] = 2 * chunk + 1 /\ toDev = <<>> /\ toHost \in {<<Piece>>, <<Piece, Empty>>}
  BY <1>1 DEF Dumping
<1>3. toHost # <<>>
  <2>1. StopsWaiting => toHost = <<>> /\ toDev = <<>>
    BY PromptWait DEF DeviceWaits
  <2>2. toHost = <<>> => StopsWaiting
    BY <1>1 DEF ReadPiece, Packet
  <2>3. ~(toHost = <<>> /\ toDev = <<>>)
    BY <1>2, One, Two, Three DEF Answer
  <2> QED
    BY <2>1, <2>2, <2>3
<1>4. \/ /\ dumped[region] = 2 * chunk /\ toDev = <<>>
         /\ toHost \in {<<Piece, Piece>>, <<Piece, Piece, Empty>>}
      \/ dumped[region] = 2 * chunk + 1 /\ toDev = <<>> /\ toHost \in {<<Piece>>, <<Piece, Empty>>}
  BY <1>2, <1>3 DEF Answer
<1>5. Head(toHost) = Piece
  BY <1>4, One, Two, Three
<1>6. ~StopsWaiting /\ ~Packet("zlp")
  BY <1>3, <1>5 DEF StopsWaiting, Packet, Piece
<1> QED
  BY <1>3, <1>4, <1>5, <1>6

LEMMA TalkReadPiece == Basic /\ DumpInv /\ Protocol /\ Up /\ ReadPiece /\ late' = 0 => Protocol'
<1> SUFFICES ASSUME Basic, DumpInv, Protocol, Up, ReadPiece, late' = 0 PROVE Protocol'
  OBVIOUS
<1>1. Dumping /\ ~stray' /\ dpc = "debug" /\ dpc' = "debug" /\ hpc = "block"
  BY DumpingNow DEF Host, ReadPiece
<1>2. /\ toDev = <<>> /\ toHost # <<>>
      /\ \/ dumped[region] = 2 * chunk /\ toHost \in {<<Piece, Piece>>, <<Piece, Piece, Empty>>}
         \/ dumped[region] = 2 * chunk + 1 /\ toHost \in {<<Piece>>, <<Piece, Empty>>}
  BY PieceThere
<1>3. ~StopsWaiting /\ ~Packet("zlp") /\ toHost # <<>>
  BY PieceThere
<1>4. toHost' = Tail(toHost) /\ UNCHANGED <<region, chunk>>
  BY <1>3 DEF ReadPiece, Packet
<1>5. \/ dumped[region] = 2 * chunk /\ toHost' \in {<<Piece>>, <<Piece, Empty>>}
      \/ dumped[region] = 2 * chunk + 1 /\ toHost' \in {<<>>, <<Empty>>}
  <2>1. /\ Tail(<<Piece>>) = <<>> /\ Tail(<<Piece, Empty>>) = <<Empty>>
        /\ Tail(<<Piece, Piece>>) = <<Piece>> /\ Tail(<<Piece, Piece, Empty>>) = <<Piece, Empty>>
    BY One, Two, Three
  <2>2. toHost \in {<<Piece, Piece>>, <<Piece, Piece, Empty>>} => toHost' \in {<<Piece>>, <<Piece, Empty>>}
    BY <1>4, <2>1, Zenon
  <2>3. toHost \in {<<Piece>>, <<Piece, Empty>>} => toHost' \in {<<>>, <<Empty>>}
    BY <1>4, <2>1, Zenon
  <2> QED
    BY <1>2, <2>2, <2>3, Zenon
<1>6. CASE StopDump
  <2>1. toHost' \in Seq({Piece, Empty})
    BY <1>5, MemorySeqs
  <2> QED
    BY <1>1, <1>2, <1>6, <2>1, DumpEnds DEF Host
<1>7. CASE /\ dumped' = [dumped EXCEPT ![region] = @ + 1]
           /\ IF BlockRead THEN hpc' = "settle" ELSE UNCHANGED hpc
           /\ UNCHANGED toDev
  <2>1. /\ region \in 1 .. Len(Regions) /\ dumped \in [1 .. Len(Regions) -> Int] /\ chunk \in Nat
    BY <1>1, RegionsType DEF DumpInv, FileInv, Basic, HostTypes
  <2>2. dumped'[region] = dumped[region] + 1
    BY <1>7, <2>1
  <2>3. toDev' = <<>>
    BY <1>2, <1>7
  <2>4. CASE dumped[region] = 2 * chunk /\ toHost' \in {<<Piece>>, <<Piece, Empty>>}
    <3>1. ~BlockRead
      BY <2>1, <2>4 DEF BlockRead
    <3>2. hpc' = "block" /\ dumped'[region] = 2 * chunk + 1
      BY <1>1, <1>7, <2>2, <2>4, <3>1
    <3>3. Dumping'
      BY <1>4, <2>3, <2>4, <3>2 DEF Dumping, Piece, Empty
    <3> QED
      BY <1>1, <3>2, <3>3, DumpsOn
  <2>5. CASE dumped[region] = 2 * chunk + 1 /\ toHost' \in {<<>>, <<Empty>>}
    <3>1. BlockRead
      BY <2>1, <2>5 DEF BlockRead
    <3>2. hpc' = "settle"
      BY <1>7, <3>1
    <3>3. Dumping'
      BY <2>3, <2>5, <3>2 DEF Dumping, Empty
    <3> QED
      BY <1>1, <3>2, <3>3, DumpsOn
  <2> QED
    BY <1>5, <2>4, <2>5
<1>8. \/ StopDump
       \/ /\ dumped' = [dumped EXCEPT ![region] = @ + 1]
          /\ IF BlockRead THEN hpc' = "settle" ELSE UNCHANGED hpc
          /\ UNCHANGED toDev
  BY <1>1, <1>3 DEF ReadPiece
<1> QED
  BY <1>6, <1>7, <1>8

LEMMA TalkSettle == Basic /\ Protocol /\ Up /\ Settle /\ late' = 0 => Protocol'
<1> SUFFICES ASSUME Basic, Protocol, Up, Settle, late' = 0 PROVE Protocol'
  OBVIOUS
<1>1. Dumping /\ ~stray' /\ dpc = "debug" /\ dpc' = "debug" /\ hpc = "settle" /\ hpc' = "region"
  BY DumpingNow DEF Host, Settle
<1>2. toDev = <<>> /\ toDev' = <<>> /\ toHost \in {<<>>, <<Empty>>}
  BY <1>1 DEF Dumping, Settle
<1>3. late' # late + 1
  BY DEF Basic, Counted
<1>4. toHost' = <<>>
  BY <1>2, <1>3, One DEF Settle
<1>5. Dumping'
  BY <1>1, <1>2, <1>4 DEF Dumping
<1> QED
  BY <1>1, <1>5, DumpsOn

LEMMA TalkHost == Basic /\ DumpInv /\ Protocol /\ Host /\ late' = 0 => Protocol'
<1> SUFFICES ASSUME Basic, DumpInv, Protocol, Host, late' = 0 PROVE Protocol'
  OBVIOUS
<1>1. CASE Up
  BY <1>1, TalkTimesOut, TalkHello, TalkRead, TalkEndOfImage, TalkDoneResp, TalkDebug, TalkOther,
     TalkReadTable, TalkRequestBlock, TalkReadPiece, TalkSettle DEF Host
<1>2. CASE ~Up
  <2>1. HostKeeps
    BY HostKept
  <2>2. UNCHANGED <<dpc, stray>>
    BY <2>1 DEF HostKeeps
  <2> QED
    BY <1>2, <2>2 DEF Protocol, Up
<1> QED
  BY <1>1, <1>2

-----------------------------------------------------------------------------
(* The device's part of the conversation.                                  *)

\* A device that is up, to a host that may be done.
LEMMA DeviceSpeaks ==
  ASSUME Protocol, UNCHANGED <<hpc, stray>>,
         hpc = "end" /\ Up' => Up /\ toDev' \in {toDev, Tail(toDev)},
         hpc # "end" /\ Up' => Up /\ (IF hpc = "run" THEN Talking' ELSE dpc' = "debug" /\ Dumping')
  PROVE  Protocol'
<1>1. CASE ~Up'
  BY <1>1 DEF Protocol, Up
<1>2. CASE Up' /\ hpc = "end"
  <2>1. toDev \in {<<>>, <<Reset>>} /\ toDev' \in {toDev, Tail(toDev)}
    BY <1>2 DEF Protocol
  <2>2. Tail(<<>>) = <<>> /\ Tail(<<Reset>>) = <<>>
    BY One
  <2>3. toDev' \in {<<>>, <<Reset>>}
    BY <2>1, <2>2
  <2> QED
    BY <1>2, <2>3, Ended DEF Protocol
<1>3. CASE Up' /\ hpc # "end"
  BY <1>3, DumpsOn, TalksOn DEF Protocol
<1> QED
  BY <1>1, <1>2, <1>3

\* A message behind what has been said.
LEMMA BehindReply ==
  ASSUME Basic, NEW m, Say(m), toHost = <<>> \/ Reply(<<>>), first_read' = first_read
  PROVE  toHost' = <<m>> \/ Reply(<<m>>)'
<1>1. toHost \in Seq(Truths)
  BY DEF Basic, LinkInv
<1>2. CASE toHost = <<>>
  BY <1>2, One DEF Say
<1>3. CASE Reply(<<>>)
  <2>1. toHost # <<>> /\ Head(toHost).t = "DONE_RESP" /\ Tail(toHost) = <<>> /\ ~first_read
    BY <1>3 DEF Reply
  <2>2. Head(toHost') = Head(toHost) /\ Tail(toHost') = Append(<<>>, m)
    BY <1>1, <2>1, HeadTailAppend DEF Say
  <2>3. toHost' # <<>>
    BY <1>1, AppendProperties, EmptySeq DEF Say
  <2> QED
    BY <2>1, <2>2, <2>3, One DEF Reply
<1> QED
  BY <1>2, <1>3

LEMMA SpeakHello == Basic /\ Protocol /\ DevHello => Protocol'
<1> SUFFICES ASSUME Basic, Protocol, DevHello PROVE Protocol'
  OBVIOUS
<1>1. UNCHANGED <<hpc, stray, toDev, first_read, transport>> /\ dpc = "start" /\ dpc' = "hello" /\ Up
  BY DEF DevHello, devRest, hostVars, Up
<1>2. hpc # "end" => hpc = "run" /\ toDev = <<>> /\ (toHost = <<>> \/ Reply(<<>>))
  BY <1>1 DEF Protocol, Talking
<1>3. hpc # "end" => Talking'
  <2> SUFFICES ASSUME hpc # "end" PROVE Talking'
    OBVIOUS
  <2>1. CASE Say(HELLO)
    <3>1. toHost' = <<HELLO>> \/ Reply(<<HELLO>>)'
      BY <1>1, <1>2, <2>1, BehindReply
    <3> QED
      BY <1>1, <1>2, <3>1 DEF Talking, Waiting, HELLO
  <2>2. CASE transport = "qud" /\ first_read /\ UNCHANGED toHost
    <3>1. toHost = <<>>
      BY <1>2, <2>2 DEF Reply
    <3> QED
      BY <1>1, <1>2, <2>2, <3>1 DEF Talking
  <2> QED
    BY <2>1, <2>2 DEF DevHello, HELLO
<1> QED
  BY <1>1, <1>2, <1>3, DeviceSpeaks

LEMMA SpeakRequest == Basic /\ Protocol /\ DevRequest => Protocol'
<1> SUFFICES ASSUME Basic, Protocol, DevRequest PROVE Protocol'
  OBVIOUS
<1>1. UNCHANGED <<hpc, stray, toDev, first_read, want, doff>> /\ dpc = "load" /\ dpc' = "data" /\ Up
  BY DEF DevRequest, devRest, hostVars, Up
<1>2. hpc # "end" => hpc = "run" /\ toDev = <<>> /\ (toHost = <<>> \/ Reply(<<>>))
  BY <1>1 DEF Protocol, Talking
<1>3. hpc # "end" => Talking'
  <2> SUFFICES ASSUME hpc # "end" PROVE Talking'
    OBVIOUS
  <2>1. Say(Request) /\ Request' = Request
    BY <1>1 DEF DevRequest, Request
  <2>2. toHost' = <<Request>> \/ Reply(<<Request>>)'
    BY <1>1, <1>2, <2>1, BehindReply
  <2> QED
    BY <1>1, <1>2, <2>1, <2>2 DEF Talking, Waiting
<1> QED
  BY <1>1, <1>2, <1>3, DeviceSpeaks

LEMMA SpeakAnnounce == Basic /\ Protocol /\ DevAnnounce => Protocol'
<1> SUFFICES ASSUME Basic, Protocol, DevAnnounce PROVE Protocol'
  OBVIOUS
<1>1. UNCHANGED <<hpc, stray, toDev>> /\ dpc = "table" /\ dpc' = "debug" /\ Up /\ Say(Announce)
  BY DEF DevAnnounce, devRest, hostVars, Up, Announce
<1>2. hpc # "end" => hpc = "run" /\ toDev = <<>> /\ toHost = <<>>
  BY <1>1 DEF Protocol, Talking
<1>3. hpc # "end" => Talking'
  BY <1>1, <1>2, One DEF Talking, Say, Announce
<1> QED
  BY <1>1, <1>2, <1>3, DeviceSpeaks

\* What the device takes when it is up.
LEMMA Taking ==
  ASSUME Basic, Protocol, DevTake, hpc # "end"
  PROVE  /\ toDev # <<>> /\ toDev' = Tail(toDev) /\ Up /\ UNCHANGED <<hpc, stray, first_read>>
         /\ dpc \in {"hello", "data", "eoi"} =>
              hpc = "run" /\ toHost = <<>> /\ toDev' = <<>> /\ (dpc = "eoi" => ~first_read)
<1>1. /\ toDev # <<>> /\ toDev' = Tail(toDev) /\ UNCHANGED <<hpc, stray, first_read>>
      /\ dpc \in {"hello", "data", "eoi", "debug"}
  BY DEF DevTake, devRest, hostVars
<1>2. Up
  BY <1>1 DEF Up
<1>3. \A m : Answer(m) => toHost = <<>> /\ toDev' = <<>>
  BY <1>1, One DEF Answer
<1>4. \A m : ~Waiting(m)
  BY <1>1 DEF Waiting
<1>5. dpc \in {"hello", "data", "eoi"} => hpc = "run" /\ Talking
  BY <1>2 DEF Protocol
<1>6. dpc \in {"hello", "data", "eoi"} => toHost = <<>> /\ toDev' = <<>> /\ (dpc = "eoi" => ~first_read)
  BY <1>1, <1>3, <1>4, <1>5 DEF Talking
<1> QED
  BY <1>1, <1>2, <1>5, <1>6

LEMMA SpeakTake == Basic /\ Protocol /\ DevTake => Protocol'
<1> SUFFICES ASSUME Basic, Protocol, DevTake PROVE Protocol'
  OBVIOUS
<1>1. UNCHANGED <<hpc, stray, region, chunk, dumped, first_read>> /\ toDev' = Tail(toDev) /\ Up
  BY DEF DevTake, devRest, hostVars, Up
<1>2. hpc # "end" /\ Up' => IF hpc = "run" THEN Talking' ELSE dpc' = "debug" /\ Dumping'
  <2> SUFFICES ASSUME hpc # "end", Up' PROVE IF hpc = "run" THEN Talking' ELSE dpc' = "debug" /\ Dumping'
    OBVIOUS
  <2>1. CASE dpc = "hello"
    <3>1. hpc = "run" /\ toHost = <<>> /\ toDev' = <<>> /\ dpc' \in {"table", "load"} /\ toHost' = toHost
      BY <2>1, Taking DEF DevTake
    <3> QED
      BY <3>1 DEF Talking
  <2>2. CASE dpc = "data"
    <3>1. hpc = "run" /\ toHost = <<>> /\ toDev' = <<>>
      BY <2>2, Taking
    <3>2. \/ dpc' = "load" /\ toHost' = toHost
          \/ dpc' = "eoi" /\ Say(Eoi(TRUE))
          \/ dpc' = "failed" /\ Say(Eoi(FALSE))
      BY <2>2 DEF DevTake, Eoi
    <3>3. \/ dpc' = "load" /\ toHost' = <<>>
          \/ dpc' = "eoi" /\ toHost' = <<Eoi(TRUE)>>
          \/ dpc' = "failed" /\ toHost' = <<Eoi(FALSE)>>
      BY <3>1, <3>2, One DEF Say
    <3> QED
      BY <3>1, <3>3 DEF Talking, Eoi
  <2>3. CASE dpc = "eoi"
    <3>1. hpc = "run" /\ toHost = <<>> /\ toDev' = <<>> /\ ~first_read
      BY <2>3, Taking
    <3> DEFINE m == [t |-> "DONE_RESP", complete |-> Len(want) = 1 /\ ~coy]
    <3>2. Say(m) /\ dpc' \in {"firehose", "start", "load"}
      BY <2>3 DEF DevTake
    <3>3. dpc' \in {"start", "load"}
      BY <3>2 DEF Up
    <3>4. toHost' = <<m>>
      BY <3>1, <3>2, One DEF Say
    <3>5. Reply(<<>>)'
      <4>1. m.t = "DONE_RESP"
        OBVIOUS
      <4> HIDE DEF m
      <4> QED
        BY <1>1, <3>1, <3>4, <4>1, One DEF Reply
    <3> QED
      BY <3>1, <3>3, <3>5 DEF Talking
  <2>4. CASE dpc = "debug"
    <3>1. toDev # <<>>
      BY Taking
    <3>2. Head(toDev).t = "MEM_READ" /\ dpc' = "debug"
      BY <2>4 DEF DevTake, Up
    <3>3. hpc # "run"
      <4>1. Tail(<<Reset>>) = <<>> /\ Head(<<Reset>>) = Reset
        BY One
      <4> QED
        BY <1>1, <2>4, <3>1, <3>2, <4>1 DEF Protocol, Talking, Reset
    <3>4. Dumping /\ Protocol
      BY <1>1, <3>3 DEF Protocol
    <3>5. \A m : Answer(m) => toHost = <<>> /\ toDev' = <<>> /\ Head(toDev) = m
      BY <1>1, One DEF Answer
    <3>6. PICK zlp \in {<<>>, <<Empty>>} :
            toHost' = toHost \o (IF Head(toDev).n = 0 THEN <<Piece>> ELSE <<Piece, Piece>> \o zlp)
      BY <2>4, <3>2 DEF DevTake, Piece, Empty
    <3>7. /\ <<>> \o <<Piece>> = <<Piece>>
          /\ <<Piece, Piece>> \o <<>> = <<Piece, Piece>> /\ <<>> \o <<Piece, Piece>> = <<Piece, Piece>>
          /\ <<Piece, Piece>> \o <<Empty>> = <<Piece, Piece, Empty>>
          /\ <<>> \o <<Piece, Piece, Empty>> = <<Piece, Piece, Empty>>
      BY MemorySeqs, ConcatEmptySeq, Three
    <3>8. CASE hpc = "table" /\ Answer(AskTable)
      <4>1. toHost' = <<Piece>> /\ toDev' = <<>>
        <5>1. toHost = <<>> /\ toDev' = <<>> /\ Head(toDev) = AskTable
          BY <3>5, <3>8
        <5>2. Head(toDev).n = 0
          BY <5>1 DEF AskTable
        <5> QED
          BY <3>6, <3>7, <5>1, <5>2, Zenon
      <4> QED
        BY <1>1, <3>2, <3>3, <3>8, <4>1 DEF Dumping, Piece
    <3>9. CASE hpc = "block" /\ dumped[region] = 2 * chunk /\ Answer(AskBlock)
      <4>1. toHost = <<>> /\ toDev' = <<>> /\ Head(toDev).n # 0
        BY <3>5, <3>9 DEF AskBlock
      <4>2. <<Piece, Piece>> \o zlp \in {<<Piece, Piece>>, <<Piece, Piece, Empty>>}
        BY <3>7
      <4>3. toHost' \in {<<Piece, Piece>>, <<Piece, Piece, Empty>>}
        BY <3>6, <3>7, <4>1, <4>2, Zenon
      <4> QED
        BY <1>1, <3>2, <3>3, <3>9, <4>1, <4>3 DEF Dumping, Piece, Empty
    <3>10. \/ hpc = "table" /\ Answer(AskTable)
           \/ hpc = "block" /\ dumped[region] = 2 * chunk /\ Answer(AskBlock)
      <4>1. hpc \in {"table", "region", "block", "settle"}
        BY <3>3 DEF Basic, HostTypes
      <4> QED
        BY <3>1, <3>4, <4>1 DEF Dumping
    <3> QED
      BY <3>8, <3>9, <3>10
  <2> QED
    BY <2>1, <2>2, <2>3, <2>4 DEF DevTake
<1> QED
  BY <1>1, <1>2, DeviceSpeaks

\* A device that is up turns down nothing but a reset, and that only when the host is done.
LEMMA NoReject ==
  ASSUME Basic, Protocol, DevReject, Up, hpc # "end"
  PROVE  FALSE
<1>0. toDev # <<>> /\ dpc \notin {"start", "load", "table", "gone"} /\ ~Expected(Head(toDev))
  BY DEF DevReject
<1>1. \A m : Answer(m) => Head(toDev) = m
  BY One DEF Answer
<1>2. \A m : ~Waiting(m)
  BY <1>0 DEF Waiting
<1>3. CASE hpc = "run"
  <2>1. Talking
    BY <1>3 DEF Protocol
  <2>2. dpc \in {"hello", "data", "eoi", "failed", "debug"}
    BY <1>0 DEF Basic, DeviceTypes, Up
  <2>3. CASE dpc = "hello"
    <3>1. Head(toDev) = HelloResp
      BY <1>0, <1>1, <1>2, <2>1, <2>3 DEF Talking
    <3> QED
      BY <1>0, <2>3, <3>1 DEF Expected, HelloResp
  <2>4. CASE dpc = "data"
    <3>1. Head(toDev) = Block
      BY <1>1, <1>2, <2>1, <2>4 DEF Talking
    <3> QED
      BY <1>0, <2>4, <3>1 DEF Expected, Block
  <2>5. CASE dpc = "eoi"
    <3>1. Head(toDev) = DONE
      BY <1>0, <1>1, <2>1, <2>5 DEF Talking
    <3> QED
      BY <1>0, <2>5, <3>1 DEF Expected, DONE
  <2>6. CASE dpc = "debug"
    <3>1. Head(toDev) = Reset
      BY <1>0, <2>1, <2>6, One DEF Talking
    <3> QED
      BY <1>0, <2>6, <3>1 DEF Expected, Reset
  <2>7. CASE dpc = "failed"
    BY <1>0, <2>1, <2>7 DEF Talking
  <2> QED
    BY <2>2, <2>3, <2>4, <2>5, <2>6, <2>7
<1>4. CASE hpc # "run"
  <2>1. dpc = "debug" /\ Dumping
    BY <1>4 DEF Protocol
  <2>2. hpc \in {"table", "region", "block", "settle"}
    BY <1>4 DEF Basic, HostTypes
  <2>3. Head(toDev) \in {AskTable, AskBlock}
    BY <1>0, <1>1, <2>1, <2>2 DEF Dumping
  <2> QED
    BY <1>0, <2>1, <2>3 DEF Expected, AskTable, AskBlock
<1> QED
  BY <1>3, <1>4

LEMMA SpeakReject == Basic /\ Protocol /\ DevReject => Protocol'
<1> SUFFICES ASSUME Basic, Protocol, DevReject PROVE Protocol'
  OBVIOUS
<1>1. /\ UNCHANGED <<hpc, dpc>> /\ toDev # <<>> /\ toDev' = Tail(toDev)
      /\ dpc \notin {"start", "load", "table", "gone"} /\ ~Expected(Head(toDev))
      /\ stray' = (stray \/ (dpc \notin {"firehose", "dead"} /\ Head(toDev).t # "RESET"))
  BY DEF DevReject, devRest, hostVars
<1>2. CASE ~Up
  <2>1. ~stray'
    BY <1>1, <1>2 DEF Up, Protocol
  <2> QED
    BY <1>1, <1>2, <2>1 DEF Protocol, Up
<1>3. CASE Up /\ hpc = "end"
  <2>1. toDev = <<Reset>>
    BY <1>1, <1>3 DEF Protocol
  <2>2. Head(toDev).t = "RESET" /\ toDev' = <<>>
    BY <1>1, <2>1, One DEF Reset
  <2>3. ~stray'
    BY <1>1, <2>2 DEF Protocol
  <2> QED
    BY <1>1, <1>3, <2>2, <2>3, Ended
<1>4. ~(Up /\ hpc # "end")
  BY NoReject
<1> QED
  BY <1>2, <1>3, <1>4

LEMMA PromptStep == Basic /\ DumpInv /\ Prompt /\ [Next]_vars => Prompt'
<1> SUFFICES ASSUME Basic, DumpInv, Prompt, [Next]_vars, late' = 0 PROVE Protocol'
  BY DEF Prompt
<1>1. Protocol
  BY LateGrows DEF Prompt
<1>2. CASE Host
  BY <1>1, <1>2, TalkHost
<1>3. CASE Device
  BY <1>1, <1>3, SpeakHello, SpeakRequest, SpeakAnnounce, SpeakTake, SpeakReject DEF Device
<1>4. CASE DevGone \/ DevHang
  <2>1. ~Up' /\ stray' = stray
    BY <1>4 DEF DevGone, DevHang, Up
  <2> QED
    BY <1>1, <2>1 DEF Protocol, Up
<1>5. CASE UNCHANGED vars
  <2>1. UNCHANGED <<hpc, first_read, region, chunk, dumped, transport, dpc, want, doff, stray, toDev,
                    toHost>>
    BY <1>5 DEF vars, hostVars, devVars
  <2>2. /\ UNCHANGED <<Request, Block>> /\ (Up' <=> Up)
        /\ \A s : Reply(s)' <=> Reply(s)
    BY <2>1 DEF Request, Block, Reply, Up
  <2>3. \A m : (Waiting(m)' <=> Waiting(m)) /\ (Answer(m)' <=> Answer(m))
    BY <2>1, <2>2 DEF Waiting, Answer
  <2>4. (Talking' <=> Talking) /\ (Dumping' <=> Dumping)
    BY <2>1, <2>2, <2>3 DEF Talking, Dumping, HELLO, HelloResp, Eoi, DONE, Announce, Reset, Piece,
       Empty, AskTable, AskBlock
  <2> QED
    BY <1>1, <2>1, <2>2, <2>4 DEF Protocol, Reset
<1> QED
  BY <1>2, <1>3, <1>4, <1>5 DEF Next, Done

LEMMA PromptInit == Init => Prompt
<1> SUFFICES ASSUME Init PROVE Protocol
  BY DEF Prompt
<1>1. /\ ~stray /\ hpc = "run" /\ toDev = <<>> /\ toHost = <<>>
      /\ dpc \in {"start", "firehose", "dead"}
  BY SaharaAssumption DEF Init
<1> QED
  BY <1>1 DEF Protocol, Talking, Up

LEMMA PromptInvariant == Spec => [](Basic /\ DumpInv /\ Prompt)
BY InitBasic, StepBasic, DumpInit, DumpNext, PromptInit, PromptStep, PTL DEF Spec

\* While no answer is late, the device gets nothing that it has not asked for:
\* no image, block or answer, and no prod after its HELLO.
THEOREM NothingIsStray == Spec => []NothingStray
<1>1. Prompt => NothingStray
  BY DEF Prompt, Protocol, NothingStray
<1> QED
  BY <1>1, PromptInvariant, PTL

-----------------------------------------------------------------------------
(* An upload that nothing disturbs.                                        *)

LEMMA CalmGrows ==
  ASSUME Basic, [Next]_vars, Calm'
  PROVE  Calm /\ bad' = bad /\ ~DevGone /\ ~DevHang
<1>1. late \in Nat /\ bad \in Nat /\ gone \in Nat
  BY DEF Basic, Counted
<1>2. late' = 0 /\ bad' = 0 /\ gone' = 0
  BY DEF Calm
<1>3. late = 0
  BY <1>2, LateGrows
<1>4. (bad' = bad \/ bad' = bad + 1) /\ (gone' = gone \/ gone' = gone + 1)
  BY DEF Next, Host, RunTimesOut, RunFails, HandleXml, HandleHello, HandleRead,
     HandleEndOfImage, HandleDoneResp, HandleResetResp, HandleDebug, HandleEmpty, ReadTable,
     RequestBlock, ReadPiece, Settle, runRest, Device, DevHello, DevRequest, DevAnnounce, DevTake,
     DevReject, DevGone, DevHang, devRest, Done, counters, vars
<1>5. ~DevGone /\ ~DevHang
  BY <1>1, <1>2 DEF DevGone, DevHang
<1> QED
  BY <1>1, <1>2, <1>3, <1>4, <1>5 DEF Calm

LEMMA SessionStays ==
  ASSUME Basic, [Next]_vars
  PROVE  UNCHANGED <<session, kind, transport, coy, Provided, Ramdump, Single>>
<1>1. Host => UNCHANGED <<session, kind, transport, coy>>
  BY HostKept DEF HostKeeps
<1>2. UNCHANGED <<session, kind, transport, coy>>
  BY <1>1 DEF Next, Device, DevHello, DevRequest, DevAnnounce, DevTake, DevReject, DevGone, DevHang,
     devRest, devVars, Done, vars
<1> QED
  BY <1>2 DEF Provided, Ramdump, Single

\* What is asked for next.
LEMMA FirstWanted ==
  ASSUME Basic, ~booted
  PROVE  /\ 1 \in DOMAIN want /\ Head(want) = want[1]
         /\ want[1].image \in Nat /\ want[1].len \in Nat /\ doff < want[1].len /\ doff \in Nat
<1>1. want \in Seq(Requests) /\ want # <<>> /\ doff < want[1].len /\ doff \in Nat
  BY DEF Basic, DeviceTypes, WantInv
<1>2. 1 \in DOMAIN want /\ Head(want) = want[1] /\ want[1] \in Requests
  BY <1>1, EmptySeq
<1> QED
  BY <1>1, <1>2 DEF Requests

\* A block that is asked for is sent if it can be.
LEMMA BlockGiven ==
  ASSUME Basic, Protocol, Up, HandleRead, ~Ramdump, Servable
  PROVE  Carry
<1>1. Talking /\ dpc # "gone"
  BY Handling DEF Host, HandleRead
<1>2. dpc = "data" /\ toHost = <<Request>>
  <2>1. Heard("READ_DATA")
    BY <1>1, HeardTalking DEF HandleRead
  <2> QED
    BY <2>1 DEF Heard
<1>3. ~booted
  BY <1>2 DEF Basic, WantInv
<1>4. /\ 1 \in DOMAIN want /\ Head(want) = want[1]
      /\ want[1].image \in Nat /\ want[1].len \in Nat /\ doff < want[1].len /\ doff \in Nat
  BY <1>3, FirstWanted
<1>5. want[1].image \in DOMAIN Provided /\ want[1].len <= Provided[want[1].image]
  BY <1>4 DEF Servable
<1>6. Provided[want[1].image] \in Nat
  BY <1>5, SaharaAssumption DEF Basic, HostTypes, Provided
<1>7. Head(toHost).image = want[1].image /\ Head(toHost).off = doff
  BY <1>2, <1>4, One DEF Request
<1>8. images = Provided
  BY DEF images
<1>9. ~(doff + 1 > images[want[1].image])
  BY <1>4, <1>5, <1>6, <1>8
<1> QED
  BY <1>1, <1>5, <1>7, <1>8, <1>9 DEF HandleRead

\* What the host takes for the end of an upload is one.
LEMMA DoneMeant ==
  ASSUME Basic, HandleDoneResp, hpc' = "end"
  PROVE  result' = "ok" /\ (booted \/ ~Servable)
<1>1. Head(toHost) \in Truths /\ Head(toHost).t = "DONE_RESP"
  BY Took DEF HandleDoneResp, Basic
<1>2. hpc = "run" /\ (Head(toHost).complete \/ DonePendingQuirk) /\ result' = "ok"
  BY DEF HandleDoneResp, Return, Carry
<1>3. Head(toHost).complete => booted
  BY <1>1 DEF Truths, Tells
<1>4. DonePendingQuirk /\ ~booted => ~Servable
  <2> SUFFICES ASSUME DonePendingQuirk, ~booted PROVE ~Servable
    OBVIOUS
  <2>1. DOMAIN Provided = {EHOSTDL} /\ NoProgrammer(want)
    BY <1>1 DEF Truths, Tells, DonePendingQuirk, Single
  <2>2. 1 \in DOMAIN want
    BY FirstWanted
  <2> QED
    BY <2>1, <2>2 DEF NoProgrammer, Servable
<1> QED
  BY <1>2, <1>3, <1>4

LEMMA UpHost ==
  ASSUME Basic, Protocol, Up, hpc = "run", Host, late' = 0,
         ~Ramdump, kind = "edl", dpc # "failed"
  PROVE  hpc' = "run" \/ (hpc' = "end" /\ ((result' = "ok" /\ booted) \/ ~Servable))
<1>1. Talking /\ dpc # "gone" /\ dpc # "debug"
  BY Handling DEF Basic, KindInv
<1>2. CASE RunTimesOut
  <2>1. MaybeFirehose /\ transport = "qud"
    BY <1>2, SilentHello DEF MaybeFirehose, detect_firehose
  <2> QED
    BY <1>2, <2>1 DEF RunTimesOut, Carry
<1>3. CASE HandleXml
  <2>1. Heard("xml")
    BY <1>1, <1>3, HeardTalking DEF HandleXml
  <2> QED
    BY <2>1 DEF Heard
<1>4. CASE HandleHello
  BY <1>4 DEF HandleHello, Carry
<1>5. CASE HandleRead
  BY <1>5, BlockGiven DEF HandleRead, Carry, Return
<1>6. CASE HandleEndOfImage
  <2>1. toHost = <<Eoi(TRUE)>>
    <3>1. Heard("END_OF_IMAGE")
      BY <1>1, <1>6, HeardTalking DEF HandleEndOfImage
    <3> QED
      BY <3>1 DEF Heard
  <2>2. Head(toHost).ok
    BY <2>1, One DEF Eoi
  <2> QED
    BY <1>6, <2>2 DEF HandleEndOfImage, Carry
<1>7. CASE HandleDoneResp
  <2>1. hpc' \in {"run", "end"}
    BY <1>7 DEF HandleDoneResp, Return, Carry
  <2> QED
    BY <1>7, <2>1, DoneMeant
<1>8. CASE HandleResetResp
  BY <1>8 DEF HandleResetResp, Carry
<1>9. CASE HandleDebug
  <2>1. Heard("MEM_DEBUG64")
    BY <1>1, <1>9, HeardTalking DEF HandleDebug
  <2> QED
    BY <1>1, <2>1 DEF Heard
<1>10. CASE HandleEmpty
  <2>1. Heard("zlp") \/ Heard("mem")
    BY <1>1, <1>10, HeardTalking DEF HandleEmpty
  <2> QED
    BY <1>1, <2>1 DEF Heard
<1> QED
  BY <1>1, <1>2, <1>3, <1>4, <1>5, <1>6, <1>7, <1>8, <1>9, <1>10
     DEF Host, RunFails, ReadTable, RequestBlock, ReadPiece, Settle

\* The answer of a device that has all its images.
LEMMA UpBooted ==
  ASSUME Basic, dpc = "firehose", hpc = "run", Host,
         Reply(<<>>), Head(toHost).complete \/ Single, ~Ramdump
  PROVE  hpc' = "end" /\ result' = "ok" /\ booted
<1>1. toHost # <<>> /\ Head(toHost).t = "DONE_RESP"
  BY DEF Reply
<1>2. HandleDoneResp
  BY <1>1 DEF Host, RunTimesOut, StopsWaiting, RunFails, HandleXml, HandleHello, HandleRead,
     HandleEndOfImage, HandleResetResp, HandleDebug, HandleEmpty, ReadTable, RequestBlock,
     ReadPiece, Settle, Packet
<1>3. Head(toHost).complete \/ DonePendingQuirk
  BY DEF DonePendingQuirk, Single
<1> QED
  BY <1>2, <1>3 DEF HandleDoneResp, Return, Basic, WantInv

\* A step of a device that asks for images.
LEMMA UpDevice ==
  ASSUME Basic, Protocol, Device, kind = "edl", coy => Single, bad' = bad,
         dpc \notin {"gone", "dead", "failed"}, hpc \in {"run", "end"},
         dpc = "firehose" /\ hpc = "run" => toDev = <<>>
  PROVE  /\ dpc' \notin {"gone", "dead", "failed"}
         /\ hpc = "end" => UNCHANGED <<want, booted>>
         /\ hpc = "run" => dpc # "firehose"
         /\ dpc' = "firehose" /\ hpc = "run" =>
              toDev' = <<>> /\ Reply(<<>>)' /\ (Head(toHost').complete \/ Single)
<1>1. dpc \notin {"table", "debug"}
  BY DEF Basic, KindInv
<1>2. CASE DevHello \/ DevRequest
  BY <1>2 DEF DevHello, DevRequest
<1>3. CASE DevAnnounce
  BY <1>1, <1>3 DEF DevAnnounce
<1>4. CASE DevReject
  <2>1. UNCHANGED <<dpc, want, booted>> /\ toDev # <<>>
    BY <1>4 DEF DevReject
  <2>2. ~(Up /\ hpc # "end")
    BY <1>4, NoReject
  <2>3. hpc = "end"
    BY <2>1, <2>2 DEF Up
  <2> QED
    BY <2>1, <2>3
<1>5. CASE DevTake
  <2>1. dpc \in {"hello", "data", "eoi"} /\ toDev # <<>> /\ Expected(Head(toDev))
    BY <1>1, <1>5 DEF DevTake
  <2>2. hpc # "end"
    <3> SUFFICES ASSUME hpc = "end" PROVE FALSE
      OBVIOUS
    <3>1. toDev = <<Reset>>
      BY <2>1 DEF Protocol, Up
    <3>2. Head(toDev) = Reset
      BY <3>1, One
    <3> QED
      BY <2>1, <3>2 DEF Expected, Reset
  <2>3. hpc = "run" /\ toHost = <<>> /\ toDev' = <<>> /\ (dpc = "eoi" => ~first_read)
        /\ UNCHANGED first_read
    BY <1>5, <2>1, <2>2, Taking
  <2>4. CASE dpc \in {"hello", "data"}
    <3>1. bad \in Nat
      BY DEF Basic, Counted
    <3>2. dpc' \in {"load", "eoi"}
      BY <1>5, <2>4, <3>1 DEF DevTake
    <3> QED
      BY <2>3, <2>4, <3>2
  <2>5. CASE dpc = "eoi"
    <3> DEFINE m == [t |-> "DONE_RESP", complete |-> Len(want) = 1 /\ ~coy]
    <3>1. Say(m) /\ dpc' \in {"firehose", "start", "load"} /\ (dpc' = "firehose" => Len(want) = 1)
      BY <1>5, <2>5 DEF DevTake
    <3>2. m.t = "DONE_RESP" /\ (dpc' = "firehose" => m.complete \/ Single)
      BY <3>1
    <3> HIDE DEF m
    <3>3. toHost' = <<m>>
      BY <2>3, <3>1, One DEF Say
    <3>4. Reply(<<>>)'
      BY <2>3, <2>5, <3>2, <3>3, One DEF Reply
    <3>5. dpc' = "firehose" => Head(toHost').complete \/ Single
      BY <3>2, <3>3, One
    <3> QED
      BY <2>3, <2>5, <3>1, <3>4, <3>5
  <2> QED
    BY <2>1, <2>4, <2>5
<1> QED
  BY <1>2, <1>3, <1>4, <1>5 DEF Device

LEMMA UpStep == Basic /\ Prompt /\ UpInv /\ [Next]_vars => UpInv'
<1> SUFFICES ASSUME Basic, Prompt, UpInv, [Next]_vars,
                    ~Ramdump', kind' = "edl", coy' => Single', Calm'
             PROVE  /\ dpc' \notin {"gone", "dead", "failed"} /\ hpc' \in {"run", "end"}
                    /\ hpc' = "end" => (result' = "ok" /\ booted') \/ ~Servable'
                    /\ dpc' = "firehose" /\ hpc' = "run" =>
                         toDev' = <<>> /\ Reply(<<>>)' /\ (Head(toHost').complete \/ Single')
  BY DEF UpInv
<1>1. ~Ramdump /\ kind = "edl" /\ (coy => Single) /\ UNCHANGED <<Provided, Single>>
  BY SessionStays
<1>2. Calm /\ bad' = bad /\ ~DevGone /\ ~DevHang
  BY CalmGrows
<1>3. Protocol /\ late' = 0
  BY <1>2 DEF Prompt, Calm
<1>4. /\ dpc \notin {"gone", "dead", "failed"} /\ hpc \in {"run", "end"}
      /\ hpc = "end" => (result = "ok" /\ booted) \/ ~Servable
      /\ dpc = "firehose" /\ hpc = "run" =>
           toDev = <<>> /\ Reply(<<>>) /\ (Head(toHost).complete \/ Single)
  BY <1>1, <1>2 DEF UpInv
<1>5. UNCHANGED want => (Servable' <=> Servable)
  BY <1>1 DEF Servable
<1>6. CASE Host
  <2>1. UNCHANGED <<dpc, want, booted>>
    BY <1>6, HostKept DEF HostKeeps
  <2>2. hpc = "run"
    BY <1>4, <1>6 DEF Host, RunTimesOut, RunFails, HandleXml, HandleHello, HandleRead,
       HandleEndOfImage, HandleDoneResp, HandleResetResp, HandleDebug, HandleEmpty, ReadTable,
       RequestBlock, ReadPiece, Settle
  <2>3. CASE dpc = "firehose"
    BY <1>1, <1>4, <1>6, <2>1, <2>2, <2>3, UpBooted
  <2>4. CASE dpc # "firehose"
    <3>1. hpc' = "run" \/ (hpc' = "end" /\ ((result' = "ok" /\ booted) \/ ~Servable))
      BY <1>1, <1>3, <1>4, <1>6, <2>2, <2>4, UpHost DEF Up
    <3> QED
      BY <1>4, <1>5, <2>1, <2>4, <3>1
  <2> QED
    BY <2>3, <2>4
<1>7. CASE Device
  <2>1. UNCHANGED <<hpc, result>>
    BY <1>7 DEF Device, DevHello, DevRequest, DevAnnounce, DevTake, DevReject, devRest, hostVars
  <2> QED
    BY <1>1, <1>2, <1>3, <1>4, <1>5, <1>7, <2>1, UpDevice
<1>8. CASE UNCHANGED vars
  <2>1. UNCHANGED <<hpc, result, first_read, dpc, want, booted, toDev, toHost>>
    BY <1>8 DEF vars, hostVars, devVars
  <2> QED
    BY <1>1, <1>4, <1>5, <2>1 DEF Reply
<1> QED
  BY <1>2, <1>6, <1>7, <1>8 DEF Next, Done

LEMMA UpInit == Init => UpInv
BY DEF Init, UpInv

LEMMA UpInvariant == Spec => []UpInv
BY PromptInvariant, UpInit, UpStep, PTL DEF Spec

\* An upload of images that are all given, which nothing disturbs, succeeds: also to a
\* device whose HELLO was eaten, and to one that reports PENDING behind the only image.
THEOREM UploadsSucceed == Spec => []UploadSucceeds
<1>1. UpInv => UploadSucceeds
  BY DEF UpInv, Calm, Single, UploadSucceeds
<1> QED
  BY <1>1, UpInvariant, PTL

-----------------------------------------------------------------------------
(* A dump that nothing disturbs.                                           *)

\* Whom a host that is given a ramdump path listens to.
LEMMA DownRun ==
  ASSUME Basic, Protocol, Up, hpc = "run", Host, late' = 0,
         Ramdump, kind = "crashed", transport = "usb",
         dpc = "debug" /\ toDev = <<Reset>> => toHost = <<>>
  PROVE  hpc' # "end" /\ (dpc = "debug" /\ hpc' = "run" => toDev' # <<Reset>>)
<1>1. Talking /\ dpc \in {"start", "hello", "table", "debug"}
  BY Handling DEF Basic, KindInv, Up
<1>2. ~RunTimesOut /\ ~RunFails
  BY <1>1, SilentHello DEF RunFails
<1>3. ~HandleXml /\ ~HandleResetResp
  <2>1. HandleXml => Heard("xml")
    BY <1>1, HeardTalking DEF HandleXml
  <2>2. HandleResetResp => Heard("RESET_RESP")
    BY <1>1, HeardTalking DEF HandleResetResp
  <2> QED
    BY <2>1, <2>2 DEF Heard
<1>4. ~HandleRead /\ ~HandleEndOfImage
  <2>1. HandleRead => Heard("READ_DATA")
    BY <1>1, HeardTalking DEF HandleRead
  <2>2. HandleEndOfImage => Heard("END_OF_IMAGE")
    BY <1>1, HeardTalking DEF HandleEndOfImage
  <2> QED
    BY <1>1, <2>1, <2>2 DEF Heard
<1>5. ~HandleDoneResp
  <2>1. HandleDoneResp => Head(toHost) \in Truths /\ Head(toHost).t = "DONE_RESP"
    BY Took DEF HandleDoneResp, Basic
  <2> QED
    BY <2>1 DEF Truths, Tells
<1>6. ~HandleEmpty
  <2> SUFFICES ASSUME HandleEmpty PROVE FALSE
    OBVIOUS
  <2>1. Heard("zlp") \/ Heard("mem")
    BY <1>1, HeardTalking DEF HandleEmpty
  <2>2. dpc = "debug" /\ toDev = <<Reset>>
    BY <2>1 DEF Heard
  <2> QED
    BY <2>2 DEF HandleEmpty, Packet
<1>7. CASE HandleHello
  <2>1. Heard("HELLO")
    BY <1>1, <1>7, HeardTalking DEF HandleHello
  <2> QED
    BY <1>7, <2>1 DEF HandleHello, Carry, Heard
<1>8. CASE HandleDebug
  BY <1>1, <1>8 DEF HandleDebug
<1> QED
  BY <1>2, <1>3, <1>4, <1>5, <1>6, <1>7, <1>8
     DEF Host, ReadTable, RequestBlock, ReadPiece, Settle

\* The dump goes on to its last region.
LEMMA DownDump ==
  ASSUME Basic, Protocol, Up, hpc \notin {"run", "end"}, Host, late' = 0, bad' = bad, Ramdump
  PROVE  hpc' # "end" /\ (hpc' = "run" => toHost' = <<>> /\ AllDumped')
<1>1. Dumping /\ dpc = "debug" /\ bad \in Nat
  BY DumpingNow DEF Basic, Counted
<1>2. CASE ReadTable
  BY <1>2, TableThere
<1>3. CASE RequestBlock
  <2>1. toHost' = <<>>
    BY <1>1, <1>3 DEF Dumping, RequestBlock
  <2>2. \/ hpc' \in {"block", "region"}
        \/ StopDump /\ AllDumped /\ UNCHANGED region
    BY <1>1, <1>3 DEF RequestBlock, AllDumped
  <2> QED
    BY <2>1, <2>2 DEF StopDump, AllDumped
<1>4. CASE ReadPiece
  <2>1. ~StopsWaiting /\ toHost # <<>>
    BY <1>4, PieceThere
  <2>2. hpc' \in {"block", "settle"}
    BY <1>1, <1>4, <2>1 DEF ReadPiece
  <2> QED
    BY <2>2
<1>5. CASE Settle
  BY <1>5 DEF Settle
<1> QED
  BY <1>2, <1>3, <1>4, <1>5 DEF Host, RunTimesOut, RunFails, HandleXml, HandleHello, HandleRead,
     HandleEndOfImage, HandleDoneResp, HandleResetResp, HandleDebug, HandleEmpty

\* The end of a dump is acknowledged.
LEMMA DownReset ==
  ASSUME Host, Ramdump, dpc = "gone", hpc = "run", toHost = <<[t |-> "RESET_RESP"]>>
  PROVE  hpc' = "end" /\ result' = "ok" /\ UNCHANGED region
<1>1. toHost # <<>> /\ Head(toHost).t = "RESET_RESP"
  BY One
<1>2. HandleResetResp
  BY <1>1 DEF Host, RunTimesOut, StopsWaiting, RunFails, HandleXml, HandleHello, HandleRead,
     HandleEndOfImage, HandleDoneResp, HandleDebug, HandleEmpty, ReadTable, RequestBlock,
     ReadPiece, Settle, Packet
<1> QED
  BY <1>2 DEF HandleResetResp, Return, runRest

\* A step of a crashed device.
LEMMA DownDevice ==
  ASSUME Basic, Protocol, Device, kind = "crashed", hpc # "end", dpc # "dead", dpc # "gone",
         dpc = "debug" /\ hpc = "run" /\ toDev = <<Reset>> => toHost = <<>> /\ AllDumped
  PROVE  /\ dpc' # "dead"
         /\ dpc' = "gone" =>
              reset' /\ AllDumped /\ hpc = "run" /\ toHost' = <<[t |-> "RESET_RESP"]>>
         /\ dpc' = "debug" /\ hpc = "run" => toDev' # <<Reset>>
<1>1. Up /\ dpc \in {"start", "hello", "table", "debug"}
  BY DEF Basic, KindInv, Up
<1>2. CASE DevHello \/ DevRequest
  BY <1>1, <1>2 DEF DevHello, DevRequest
<1>3. CASE DevAnnounce
  <2>1. dpc = "table" /\ dpc' = "debug" /\ toDev' = toDev
    BY <1>3 DEF DevAnnounce
  <2>2. hpc = "run" => toDev = <<>>
    BY <1>1, <2>1 DEF Protocol, Talking
  <2> QED
    BY <2>1, <2>2
<1>4. CASE DevReject
  BY <1>1, <1>4, NoReject
<1>5. CASE DevTake
  <2>1. toDev # <<>> /\ toDev' = Tail(toDev) /\ dpc \in {"hello", "debug"}
    BY <1>1, <1>5 DEF DevTake
  <2>2. CASE dpc = "hello"
    BY <1>5, <2>2 DEF DevTake
  <2>3. CASE dpc = "debug"
    <3>1. CASE hpc = "run"
      <4>1. toDev = <<Reset>>
        BY <1>1, <2>1, <2>3, <3>1 DEF Protocol, Talking
      <4>2. toHost = <<>> /\ AllDumped /\ Head(toDev).t = "RESET"
        BY <2>3, <3>1, <4>1, One DEF Reset
      <4>3. Say([t |-> "RESET_RESP"]) /\ dpc' = "gone" /\ reset'
        BY <1>5, <2>3, <4>2 DEF DevTake
      <4> QED
        BY <3>1, <4>2, <4>3, One DEF Say
    <3>2. CASE hpc # "run"
      <4>1. Dumping /\ hpc \in {"table", "region", "block", "settle"}
        BY <1>1, <3>2 DEF Protocol, Basic, HostTypes
      <4>2. \A m : Answer(m) => Head(toDev) = m
        BY One DEF Answer
      <4>3. Head(toDev) \in {AskTable, AskBlock}
        BY <2>1, <4>1, <4>2 DEF Dumping
      <4>4. Head(toDev).t = "MEM_READ"
        BY <4>3 DEF AskTable, AskBlock
      <4>5. dpc' = "debug"
        BY <1>5, <2>3, <4>4 DEF DevTake
      <4> QED
        BY <3>2, <4>5
    <3> QED
      BY <3>1, <3>2
  <2> QED
    BY <2>1, <2>2, <2>3
<1> QED
  BY <1>2, <1>3, <1>4, <1>5 DEF Device

LEMMA DownStep == Basic /\ Prompt /\ DownInv /\ [Next]_vars => DownInv'
<1> SUFFICES ASSUME Basic, Prompt, DownInv, [Next]_vars,
                    Ramdump', kind' = "crashed", transport' = "usb", Calm'
             PROVE  /\ dpc' # "dead"
                    /\ dpc' = "gone" =>
                         /\ reset' /\ AllDumped'
                         /\ \/ hpc' = "run" /\ toHost' = <<[t |-> "RESET_RESP"]>>
                            \/ hpc' = "end" /\ result' = "ok"
                    /\ dpc' # "gone" => hpc' # "end"
                    /\ dpc' = "debug" /\ hpc' = "run" /\ toDev' = <<Reset>> =>
                         toHost' = <<>> /\ AllDumped'
  BY DEF DownInv, Reset
<1>1. Ramdump /\ kind = "crashed" /\ transport = "usb"
  BY SessionStays
<1>2. Calm /\ bad' = bad /\ ~DevGone /\ ~DevHang
  BY CalmGrows
<1>3. Protocol /\ late' = 0
  BY <1>2 DEF Prompt, Calm
<1>4. /\ dpc # "dead"
      /\ dpc = "gone" =>
           /\ reset /\ AllDumped
           /\ \/ hpc = "run" /\ toHost = <<[t |-> "RESET_RESP"]>>
              \/ hpc = "end" /\ result = "ok"
      /\ dpc # "gone" => hpc # "end"
      /\ dpc = "debug" /\ hpc = "run" /\ toDev = <<Reset>> => toHost = <<>> /\ AllDumped
  BY <1>1, <1>2 DEF DownInv
<1>5. UNCHANGED region => (AllDumped' <=> AllDumped)
  BY DEF AllDumped
<1>6. CASE Host
  <2>1. UNCHANGED <<dpc, reset>>
    BY <1>6, HostKept DEF HostKeeps
  <2>2. hpc # "end"
    BY <1>6 DEF Host, RunTimesOut, RunFails, HandleXml, HandleHello, HandleRead,
       HandleEndOfImage, HandleDoneResp, HandleResetResp, HandleDebug, HandleEmpty, ReadTable,
       RequestBlock, ReadPiece, Settle
  <2>3. CASE dpc = "gone"
    BY <1>1, <1>4, <1>5, <1>6, <2>1, <2>2, <2>3, DownReset
  <2>4. CASE dpc # "gone"
    <3>1. Up
      <4>1. dpc # "firehose"
        BY <1>1 DEF Basic, KindInv
      <4> QED
        BY <1>4, <2>4, <4>1 DEF Up
    <3>2. CASE hpc = "run"
      BY <1>1, <1>3, <1>4, <1>6, <2>1, <2>4, <3>1, <3>2, DownRun
    <3>3. CASE hpc # "run"
      <4>1. hpc' # "end" /\ (hpc' = "run" => toHost' = <<>> /\ AllDumped')
        BY <1>1, <1>2, <1>3, <1>6, <2>2, <3>1, <3>3, DownDump
      <4> QED
        BY <1>4, <2>1, <2>4, <4>1
    <3> QED
      BY <3>2, <3>3
  <2> QED
    BY <2>3, <2>4
<1>7. CASE Device
  <2>1. UNCHANGED <<hpc, result, region>>
    BY <1>7 DEF Device, DevHello, DevRequest, DevAnnounce, DevTake, DevReject, devRest, hostVars
  <2>2. dpc # "gone"
    BY <1>7 DEF Device, DevHello, DevRequest, DevAnnounce, DevTake, DevReject
  <2> QED
    BY <1>1, <1>3, <1>4, <1>5, <1>7, <2>1, <2>2, DownDevice
<1>8. CASE UNCHANGED vars
  <2>1. UNCHANGED <<hpc, result, region, dpc, reset, toDev, toHost>>
    BY <1>8 DEF vars, hostVars, devVars
  <2> QED
    BY <1>4, <1>5, <2>1
<1> QED
  BY <1>2, <1>6, <1>7, <1>8 DEF Next, Done

LEMMA DownInit == Init => DownInv
BY One DEF Init, DownInv

THEOREM Invariance == Spec => []Inv
BY InitBasic, StepBasic, DumpInit, DumpNext, PromptInit, PromptStep, UpInit, UpStep, DownInit,
   DownStep, PTL DEF Spec, Inv

-----------------------------------------------------------------------------
(* What sahara_run() reports.                                              *)

\* A dump is reported as a success only when the device was reset, with no gap in the
\* files, and one that nothing disturbs is complete and a success.
THEOREM DumpsAreSound == Spec => []DumpSound
<1>1. Inv => DumpSound
  <2> SUFFICES ASSUME Inv, Ramdump PROVE DumpSound
    BY DEF DumpSound
  <2>1. result = "ok" => reset
    BY DEF Inv, Basic, LinkInv
  <2>2. DOMAIN Regions \subseteq Nat /\ region \in Nat /\ Len(Regions) \in Nat
        /\ DOMAIN Regions = 1 .. Len(Regions)
    BY RegionsType DEF Inv, Basic, HostTypes
  <2>3. \A i \in DOMAIN Regions : /\ i < region => dumped[i] = 2 * Regions[i]
                                  /\ i > region => dumped[i] = -1
    BY DEF Inv, DumpInv, FileInv
  <2>4. \A i \in DOMAIN Regions : dumped[i] # 2 * Regions[i] =>
          \A j \in DOMAIN Regions : j > i => dumped[j] = -1
    BY <2>2, <2>3
  <2>5. ASSUME kind = "crashed", hpc = "end", transport = "usb", gone = 0, bad = 0, late = 0
        PROVE  result = "ok" /\ \A i \in DOMAIN Regions : dumped[i] = 2 * Regions[i]
    <3>1. result = "ok" /\ AllDumped
      BY <2>5 DEF Inv, DownInv, Calm
    <3> QED
      BY <2>2, <2>3, <3>1 DEF AllDumped
  <2> QED
    BY <2>1, <2>4, <2>5 DEF DumpSound
<1> QED
  BY <1>1, Invariance, PTL

\* Silence is not taken for a programmer unless there is one.
LEMMA SilenceMeant ==
  ASSUME Basic, Prompt, RunTimesOut, late' = 0 \/ transport = "qud",
         result' = "assumed", result # "assumed", dpc # "dead", [Next]_vars
  PROVE  booted
<1>1. dpc # "gone" /\ transport # "qud"
  BY DEF RunTimesOut, Return, Carry
<1>2. late' = 0 /\ Protocol
  BY <1>1, LateGrows DEF Prompt
<1>3. ~Up
  BY <1>1, <1>2, SilentHello
<1> QED
  BY <1>1, <1>3 DEF Up, Basic, WantInv

LEMMA HandOver ==
  ASSUME Basic, Prompt, [Next]_vars, ~Ramdump, late' = 0 \/ transport = "qud",
         result' # result, result' \in {"ok", "assumed"}, dpc # "dead", Servable
  PROVE  booted
<1>1. Host
  BY DEF Next, Device, DevHello, DevRequest, DevAnnounce, DevTake, DevReject, DevGone, DevHang,
     devRest, hostVars, Done, vars
<1>2. CASE RunTimesOut
  BY <1>2, SilenceMeant DEF RunTimesOut, Return, Carry
<1>3. CASE HandleXml
  <2>1. Head(toHost) \in Truths /\ Head(toHost).t = "xml"
    BY <1>3, Took DEF HandleXml, Basic
  <2> QED
    BY <2>1 DEF Truths, Tells
<1>4. CASE HandleDoneResp
  BY <1>4, DoneMeant DEF HandleDoneResp, Return, Carry
<1>5. ~HandleResetResp /\ ~HandleEmpty /\ ~HandleEndOfImage /\ ~HandleRead /\ ~RunFails
  BY DEF HandleResetResp, HandleEmpty, HandleEndOfImage, HandleRead, RunFails, Return, Carry
<1>6. ~HandleHello /\ ~HandleDebug /\ ~ReadTable /\ ~RequestBlock /\ ~ReadPiece /\ ~Settle
  BY DEF HandleHello, HandleDebug, Carry, ReadTable, RequestBlock, ReadPiece, Settle, dumpRest
<1> QED
  BY <1>1, <1>2, <1>3, <1>4, <1>5, <1>6 DEF Host

\* sahara_run() hands over to Firehose only when a programmer is running.
THEOREM HandsOver == Spec => HandsOverToProgrammer
<1>1. Basic /\ Prompt /\ [Next]_vars =>
        [~Ramdump /\ (late' = 0 \/ transport = "qud") /\ result' # result /\ result' \in {"ok", "assumed"}
           /\ dpc # "dead" /\ Servable => booted]_vars
  BY HandOver
<1> QED
  BY <1>1, PromptInvariant, PTL DEF Spec, HandsOverToProgrammer
=============================================================================
