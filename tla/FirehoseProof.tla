---------------------------- MODULE FirehoseProof ----------------------------
(***************************************************************************)
(* Proofs about Firehose: with prompt answers a response is never mistaken *)
(* for that of another exchange, host and programmer never get out of      *)
(* step, and a run implements FlashRun; and a VIP session is the one that  *)
(* was prepared; for all runs, payload sizes, amounts of logs, refusals    *)
(* and a programmer that may drop off the bus.                             *)
(***************************************************************************)
EXTENDS Firehose, SequenceTheorems, TLAPS

AllSteps  == Steps \cup {"none"}
Exchanges == [op : Nat, step : AllSteps, off : Nat]
\* What the host sends, for which exchange.
Sendable  == Steps \ {"startup", "resetting", "refused"}
Commands  == [cmd : Sendable \cup {"data"}, re : Exchanges, n : Nat]
Msgs      == [t : {"log", "marker", "data", "resp"}, re : Exchanges, v : {"none", "ACK", "NAK"},
              raw : BOOLEAN, size : Nat, digest : {"none", "same", "diff"}]

\* Packets of the dry run.
Places    == [op : Nat, begun : BOOLEAN, at : Nat]

HostTypes ==
  /\ run \in Runs /\ opi \in Nat \ {0} /\ off \in Nat /\ step \in AllSteps
  /\ hpc \in {"op", "write", "drain", "read", "after", "stream", "recv", "final", "done", "end"}
  /\ resp \in {"none", "ACK", "NAK", "TIMEDOUT", "EIO"}
  /\ answer \in Exchanges /\ digest \in {"none", "same", "diff"}
  /\ rsize \in Nat /\ left \in Nat /\ payload \in Nat \ {0}
  /\ sector_size \in BOOLEAN /\ requires \in BOOLEAN /\ single \in BOOLEAN
  /\ vip \in {"DISABLED", "INIT", "SEND_DATA"}
  /\ tries \in Nat /\ result \in {"none", "ok", "failed"}

DeviceTypes ==
  /\ dpc \in {"boot", "xml", "in", "gone"} /\ dcmd \in Commands \cup {NoCommand} /\ dleft \in Nat
  /\ dmax \in Nat \ {0} /\ daccepted \in Nat /\ dnext \in Places
  /\ dvip \in BOOLEAN /\ dtable \in BOOLEAN /\ dwrong \in BOOLEAN /\ desync \in BOOLEAN
  /\ late \in Nat /\ fails \in Nat /\ gone \in Nat

LinkTypes == toDev \in Seq(Commands) /\ toHost \in Seq(Msgs)

TypeOK == HostTypes /\ DeviceTypes /\ LinkTypes

\* It takes data for a command.
Given == dpc = "in" => dcmd \in Commands

-----------------------------------------------------------------------------
(* Where the host may be.                                                  *)

Configuring == {"startup", "table", "configure", "reconfigure"}
RawSteps    == {"program", "read"} \cup Probes
OneCommand  == {"program", "read", "erase", "patch", "bootable", "reset"}

\* The exchange in progress is one of the operation in progress.
Purpose ==
  /\ opi \in DOMAIN ops /\ step # "none"
  /\ step \in Configuring \cup Probes => Op.type = "configure"
  /\ step = "digest" => SkipblockEnabled
  /\ step \in OneCommand => Op.type = step
  /\ step \in {"resetting", "refused"} => Op.type = "reset"

\* A region other than the first one is being programmed.
Further == SkipblockEnabled /\ off < Op.n /\ hpc # "op" /\ step \in {"digest", "program"}

StepInv ==
  /\ hpc \notin {"op", "end"} => Purpose
  /\ hpc = "stream" => step = "program" /\ left >= 1
  /\ hpc = "recv" => step \in RawSteps \ {"program"} /\ left >= 1
  /\ hpc \in {"final", "done"} => step \in RawSteps \cup {"resetting", "refused"}
  /\ hpc \in {"write", "drain", "read", "after"} => step \notin {"resetting", "refused"}
  /\ hpc \in {"write", "drain"} => step # "startup"
  /\ hpc # "end" => off = 0 \/ Further
  /\ hpc \notin {"op", "end"} /\ step = "reconfigure" => rsize > 0
  /\ hpc \in {"read", "after"} /\ step = "configure" /\ resp = "ACK" => rsize > 0
  /\ hpc # "end" <=> result = "none"
  /\ late <= run.late

-----------------------------------------------------------------------------
(* What is on its way to the host, and in what order.                      *)

IsLog(m) == m.t \notin {"resp", "data"}
IsRaw(m) == m.t = "resp" /\ m.raw
IsEnd(m) == m.t = "resp" /\ ~m.raw

\* Nothing that is read for.
Quiet(s) == \A j \in 1 .. Len(s) : IsLog(s[j])

\* A response behind l messages, ...
Answered(s, l) ==
  /\ l < Len(s) /\ IsEnd(s[l + 1])
  /\ \A j \in 1 .. Len(s) : j # l + 1 => IsLog(s[j])

\* ... one that asks for data, ...
Ready(s, l) ==
  /\ Len(s) = l + 1 /\ IsRaw(s[l + 1])
  /\ \A j \in 1 .. l : IsLog(s[j])

\* ... data, with a response behind them, ...
DataFrom(s, n) ==
  /\ n < Len(s) /\ IsEnd(s[n + 1])
  /\ \A j \in 1 .. n : s[j].t = "data"
  /\ \A j \in n + 2 .. Len(s) : IsLog(s[j])

\* ... and one that announces them.
Announced(s, l, n) ==
  /\ l + n + 1 < Len(s) /\ IsRaw(s[l + 1]) /\ IsEnd(s[l + n + 2])
  /\ \A j \in 1 .. l : IsLog(s[j])
  /\ \A j \in l + 2 .. l + n + 1 : s[j].t = "data"
  /\ \A j \in l + n + 3 .. Len(s) : IsLog(s[j])

\* Sectors in packets that are on their way to the programmer.
InFlight(s) ==
  CASE Len(s) = 0 -> 0 [] Len(s) = 1 -> s[1].n [] OTHER -> s[1].n + s[2].n

-----------------------------------------------------------------------------
(* The exchange in progress.                                               *)

\* The command of it.
Command ==
  [cmd |-> step, re |-> Exchange(step),
   n |-> CASE step = "configure" -> payload
           [] step = "reconfigure" -> rsize
           [] step \in {"digest", "program", "read"} -> RegionSectors
           [] OTHER -> 1]

\* Sectors that are read by it.
Expected == IF step \in Probes THEN 1 ELSE RegionSectors

Idle == toDev = <<>> /\ Quiet(toHost) /\ dpc # "in"

\* The programmer has n sectors to come, on their way or not sent.
Taking(n) ==
  \/ dpc = "gone" /\ toDev = <<>>
  \/ /\ dpc = "in" /\ dcmd.re = Exchange("program") /\ dcmd.n = RegionSectors
     /\ dleft >= 1 /\ dleft = InFlight(toDev) + n
     /\ Len(toDev) <= 2
     /\ \A j \in 1 .. Len(toDev) : toDev[j].cmd = "data" /\ toDev[j].n \in 1 .. daccepted

\* What the programmer had to say is there, or has been read.
Settled ==
  /\ toDev = <<>> /\ dpc # "in"
  /\ Quiet(toHost) \/ (resp = "none" /\ \E l \in Nat : Answered(toHost, l))

Receiving(n) ==
  /\ toDev = <<>> /\ dpc \in {"xml", "gone"}
  /\ DataFrom(toHost, n) \/ (dpc = "gone" /\ toHost = <<>>)

Waiting ==
  \/ toDev = <<Command>> /\ Quiet(toHost) /\ dpc \in {"boot", "xml"} /\ resp = "none"
  \/ /\ Settled
     /\ step \in RawSteps =>
          resp # "ACK" /\ \A j \in 1 .. Len(toHost) : IsEnd(toHost[j]) => toHost[j].v # "ACK"
  \/ /\ step = "program" /\ resp = "none" /\ toDev = <<>> /\ Taking(RegionSectors)
     /\ \E l \in Nat : Ready(toHost, l)
  \/ /\ step \in RawSteps \ {"program"} /\ resp = "none" /\ toDev = <<>>
     /\ dpc \in {"xml", "gone"}
     /\ \E l \in Nat : Announced(toHost, l, Expected)

Returned ==
  IF step \in RawSteps /\ resp = "ACK"
    THEN IF step = "program" THEN toHost = <<>> /\ toDev = <<>> /\ Taking(RegionSectors)
                             ELSE Receiving(Expected)
    ELSE Idle

Finishing ==
  CASE step = "program" -> Settled \/ (resp = "none" /\ toHost = <<>> /\ Taking(0))
    [] step \in RawSteps \ {"program"} -> Settled
    [] OTHER -> Idle

Flow ==
  /\ hpc \in {"op", "write", "drain", "done", "end"} => Idle
  /\ hpc = "read" => IF step = "startup" THEN Idle ELSE Waiting
  /\ hpc = "after" => Returned
  /\ hpc = "stream" => toHost = <<>> /\ Taking(left)
  /\ hpc = "recv" => Receiving(left)
  /\ hpc = "final" => Finishing

-----------------------------------------------------------------------------
(* What responses mean.                                                    *)

\* Sectors of an operation, from one up to but not including another.
Span(i, a, b) == {i} \X (a .. b - 1)

\* The region of the exchange is on the device.
Region  == Span(opi, off, off + RegionSectors)
Covered == Region \subseteq flash

\* The payload size proposed last, if it fits, is agreed to.
Agreed ==
  LET n == IF step = "configure" THEN payload ELSE rsize
  IN n <= dmax => daccepted = n

Replies == \A j \in 1 .. Len(toHost) : LET m == toHost[j] IN m.t = "resp" =>
  /\ m.re = Exchange(step) /\ m.v \in {"ACK", "NAK"}
  /\ step \in {"configure", "reconfigure"} => m.size = dmax /\ ~m.raw /\ Agreed
  /\ m.raw => m.v = "ACK"
  /\ m.v = "ACK" /\ ~m.raw /\ step \in {"program", "erase", "patch"} => Covered

Response ==
  hpc \in {"read", "final", "after", "done"} /\ resp \in {"ACK", "NAK"} =>
    /\ step \notin {"startup", "resetting", "refused"}
    /\ answer = Exchange(step)
    /\ step \in {"configure", "reconfigure"} => rsize = dmax /\ Agreed
    /\ resp = "ACK" /\ (step \in {"erase", "patch"} \/ (step = "program" /\ hpc \in {"final", "done"}))
         => Covered

\* The payload size is the one agreed to.
SizeInv ==
  /\ hpc = "op" /\ opi > 1 => payload = daccepted
  /\ hpc \notin {"op", "end"} /\ step \notin Configuring => payload = daccepted
  /\ hpc \notin {"op", "end"} /\ step = "reconfigure" => rsize = dmax

\* A digest that matched tells that the region is on the device.
Claim(re) == Span(re.op, re.off, re.off + Lesser(ChunkMax, ops[re.op].n - re.off))
DigestsTrue ==
  \A j \in 1 .. Len(toHost) :
    toHost[j].digest = "same" =>
      toHost[j].re.op \in DOMAIN ops /\ Claim(toHost[j].re) \subseteq flash
DigestInv ==
  /\ DigestsTrue
  /\ step = "digest" /\ digest = "same" /\ (hpc = "read" \/ (hpc = "after" /\ resp = "ACK"))
       => Covered

\* The regions before it are on the device.
Before == hpc \notin {"op", "end"} => Span(opi, 0, off) \subseteq flash

PromptInv == Flow /\ Replies /\ Response /\ SizeInv /\ DigestInv /\ Before /\ ~desync

Inv == TypeOK /\ Given /\ StepInv /\ (late = 0 => PromptInv)

-----------------------------------------------------------------------------
(* Messages that are read, one at a time.                                  *)

LEMMA HeadIsFirst ==
  ASSUME NEW S, NEW s \in Seq(S), s # <<>>
  PROVE  /\ Len(s) \in Nat \ {0} /\ Head(s) = s[1] /\ Head(s) \in S
         /\ Tail(s) \in Seq(S) /\ Len(Tail(s)) = Len(s) - 1
         /\ \A j \in 1 .. Len(Tail(s)) : Tail(s)[j] = s[j + 1]
BY EmptySeq, HeadTailProperties, LenProperties

LEMMA QuietTail ==
  ASSUME NEW s \in Seq(Msgs), s # <<>>, Quiet(s)
  PROVE  IsLog(Head(s)) /\ Quiet(Tail(s))
BY HeadIsFirst DEF Quiet

LEMMA AnsweredTail ==
  ASSUME NEW s \in Seq(Msgs), NEW l \in Nat, Answered(s, l)
  PROVE  /\ s # <<>>
         /\ IF l = 0 THEN IsEnd(Head(s)) /\ Quiet(Tail(s))
                     ELSE IsLog(Head(s)) /\ l - 1 \in Nat /\ Answered(Tail(s), l - 1)
<1>1. s # <<>>
  BY EmptySeq DEF Answered
<1>2. CASE l = 0
  BY <1>1, <1>2, HeadIsFirst DEF Answered, Quiet
<1>3. CASE l # 0
  BY <1>1, <1>3, HeadIsFirst DEF Answered
<1> QED
  BY <1>1, <1>2, <1>3

LEMMA ReadyTail ==
  ASSUME NEW s \in Seq(Msgs), NEW l \in Nat, Ready(s, l)
  PROVE  /\ s # <<>>
         /\ IF l = 0 THEN IsRaw(Head(s)) /\ Tail(s) = <<>>
                     ELSE IsLog(Head(s)) /\ l - 1 \in Nat /\ Ready(Tail(s), l - 1)
<1>1. s # <<>>
  BY EmptySeq DEF Ready
<1>2. CASE l = 0
  <2>1. Tail(s) \in Seq(Msgs) /\ Len(Tail(s)) = 0 /\ Head(s) = s[1]
    BY <1>1, <1>2, HeadIsFirst DEF Ready
  <2>2. Tail(s) = <<>>
    BY <2>1, EmptySeq
  <2>3. IsRaw(s[1])
    BY <1>2 DEF Ready
  <2> QED
    BY <1>1, <1>2, <2>1, <2>2, <2>3
<1>3. CASE l # 0
  BY <1>1, <1>3, HeadIsFirst DEF Ready
<1> QED
  BY <1>1, <1>2, <1>3

LEMMA DataTail ==
  ASSUME NEW s \in Seq(Msgs), NEW n \in Nat, DataFrom(s, n)
  PROVE  /\ s # <<>>
         /\ n = 0 => Answered(s, 0)
         /\ n # 0 => Head(s).t = "data" /\ DataFrom(Tail(s), n - 1)
<1>1. s # <<>>
  BY EmptySeq DEF DataFrom
<1>2. CASE n = 0
  BY <1>1, <1>2, HeadIsFirst DEF DataFrom, Answered
<1>3. CASE n # 0
  BY <1>1, <1>3, HeadIsFirst DEF DataFrom
<1> QED
  BY <1>1, <1>2, <1>3

LEMMA AnnouncedTail ==
  ASSUME NEW s \in Seq(Msgs), NEW l \in Nat, NEW n \in Nat, Announced(s, l, n)
  PROVE  /\ s # <<>>
         /\ IF l = 0 THEN IsRaw(Head(s)) /\ DataFrom(Tail(s), n)
                     ELSE IsLog(Head(s)) /\ l - 1 \in Nat /\ Announced(Tail(s), l - 1, n)
<1>1. s # <<>>
  BY EmptySeq DEF Announced
<1>2. CASE l = 0
  BY <1>1, <1>2, HeadIsFirst DEF Announced, DataFrom
<1>3. CASE l # 0
  <2> DEFINE u == Tail(s)
             k == l - 1
  <2>1. /\ u \in Seq(Msgs) /\ Len(u) = Len(s) - 1 /\ Len(s) \in Nat \ {0} /\ k \in Nat
        /\ l = k + 1 /\ Head(s) = s[1]
        /\ \A j \in 1 .. Len(u) : u[j] = s[j + 1]
    BY <1>1, <1>3, HeadIsFirst
  <2> HIDE DEF u, k
  <2>2. k + n + 1 < Len(u) /\ u[k + 1] = s[l + 1] /\ u[k + n + 2] = s[l + n + 2]
    BY <2>1 DEF Announced
  <2>6. /\ IsRaw(u[k + 1]) /\ IsEnd(u[k + n + 2])
    BY <2>2 DEF Announced
  <2>7. \A j \in 1 .. k : IsLog(u[j])
    <3> SUFFICES ASSUME NEW j \in 1 .. k  PROVE  IsLog(u[j])
      OBVIOUS
    <3>1. j \in 1 .. Len(u) /\ j + 1 \in 1 .. l
      BY <2>1, <2>2
    <3>2. u[j] = s[j + 1] /\ IsLog(s[j + 1])
      BY <2>1, <3>1 DEF Announced
    <3> QED
      BY <3>2
  <2>3. \A j \in k + 2 .. k + n + 1 : u[j].t = "data"
    BY <2>1 DEF Announced
  <2>4. \A j \in k + n + 3 .. Len(u) : IsLog(u[j])
    BY <2>1 DEF Announced
  <2>5. IsLog(Head(s)) /\ k \in Nat /\ Announced(u, k, n)
    BY <1>3, <2>1, <2>2, <2>6, <2>7, <2>3, <2>4 DEF Announced
  <2> QED
    BY <1>1, <1>3, <2>5 DEF u, k
<1> QED
  BY <1>1, <1>2, <1>3

LEMMA NothingIsQuiet == Quiet(<<>>)
BY DEF Quiet

-----------------------------------------------------------------------------
(* Messages that are sent.                                                 *)

Logs(n, re)           == [k \in 1 .. n |-> Log("log", re)]
Told(s, b, ms, re)    == s \o Logs(b, re) \o ms
Said(s, b, ms, a, re) == s \o Logs(b, re) \o ms \o Logs(a, re)

\* The sequence u is s, then ms with b logs before and a logs behind.
Extends(u, s, b, ms, a, re) ==
  LET k == Len(s) + b
  IN /\ u \in Seq(Msgs) /\ Len(u) = k + Len(ms) + a
     /\ \A j \in 1 .. Len(s) : u[j] = s[j]
     /\ \A j \in Len(s) + 1 .. k : u[j] = Log("log", re)
     /\ \A j \in k + 1 .. k + Len(ms) : u[j] = ms[j - k]
     /\ \A j \in k + Len(ms) + 1 .. Len(u) : u[j] = Log("log", re)

LEMMA IsSequence ==
  ASSUME NEW S, NEW n \in Nat, NEW s \in [1 .. n -> S]
  PROVE  s \in Seq(S) /\ Len(s) = n
<1>1. s \in Seq(S)
  BY SeqDef
<1>2. DOMAIN s = 1 .. n /\ DOMAIN s = 1 .. Len(s) /\ Len(s) \in Nat
  BY <1>1, LenProperties
<1> QED
  BY <1>1, <1>2

\* What the messages of the programmer are.
LEMMA MessageFields ==
  ASSUME NEW t \in {"log", "marker", "data", "resp"}, NEW re \in Exchanges,
         NEW v \in {"ACK", "NAK"}, NEW same \in BOOLEAN, dmax \in Nat
  PROVE  /\ Log(t, re) \in Msgs /\ Log(t, re).t = t /\ Log(t, re).digest = "none"
         /\ LET m == Reply(re, v)
            IN m \in Msgs /\ m.t = "resp" /\ m.re = re /\ m.v = v /\ ~m.raw /\ m.digest = "none"
         /\ LET m == RawReply(re)
            IN m \in Msgs /\ m.t = "resp" /\ m.re = re /\ m.v = "ACK" /\ m.raw /\ m.digest = "none"
         /\ LET m == SizedReply(re, v)
            IN /\ m \in Msgs /\ m.t = "resp" /\ m.re = re /\ m.v = v /\ ~m.raw
               /\ m.size = dmax /\ m.digest = "none"
         /\ LET m == DigestLog(re, same)
            IN m \in Msgs /\ m.t = "log" /\ m.re = re /\ (m.digest = "same" <=> same)
<1>1. /\ Log(t, re) \in Msgs /\ Log(t, re).t = t /\ Log(t, re).digest = "none"
      /\ Log("resp", re) \in Msgs /\ Log("log", re) \in Msgs
  BY DEF Log, Msgs
<1>2. LET m == Reply(re, v)
      IN m \in Msgs /\ m.t = "resp" /\ m.re = re /\ m.v = v /\ ~m.raw /\ m.digest = "none"
  BY DEF Reply, Log, Msgs
<1>3. LET m == RawReply(re)
      IN m \in Msgs /\ m.t = "resp" /\ m.re = re /\ m.v = "ACK" /\ m.raw /\ m.digest = "none"
  BY DEF RawReply, Reply, Log, Msgs
<1>4. LET m == SizedReply(re, v)
      IN /\ m \in Msgs /\ m.t = "resp" /\ m.re = re /\ m.v = v /\ ~m.raw
         /\ m.size = dmax /\ m.digest = "none"
  BY DEF SizedReply, Reply, Log, Msgs
<1>5. LET m == DigestLog(re, same)
      IN m \in Msgs /\ m.t = "log" /\ m.re = re /\ (m.digest = "same" <=> same)
  BY DEF DigestLog, Log, Msgs
<1> QED
  BY <1>1, <1>2, <1>3, <1>4, <1>5

LEMMA LogsAreLogs ==
  ASSUME NEW n \in Nat, NEW re \in Exchanges, NEW t \in {"log", "marker", "data", "resp"}
  PROVE  LET s == [k \in 1 .. n |-> Log(t, re)]
         IN s \in Seq(Msgs) /\ Len(s) = n /\ \A j \in 1 .. n : s[j] = Log(t, re)
<1> DEFINE s == [k \in 1 .. n |-> Log(t, re)]
<1>1. Log(t, re) \in Msgs
  BY DEF Log, Msgs
<1>2. s \in [1 .. n -> Msgs] /\ \A j \in 1 .. n : s[j] = Log(t, re)
  BY <1>1
<1> QED
  BY <1>2, IsSequence

LEMMA ToldShape ==
  ASSUME NEW s \in Seq(Msgs), NEW b \in Nat, NEW ms \in Seq(Msgs), NEW re \in Exchanges
  PROVE  Extends(Told(s, b, ms, re), s, b, ms, 0, re)
<1> DEFINE g == Logs(b, re)
           h == s \o g
<1>1. g \in Seq(Msgs) /\ Len(g) = b /\ \A j \in 1 .. b : g[j] = Log("log", re)
  BY LogsAreLogs DEF Logs
<1>2. Len(s) \in Nat /\ Len(ms) \in Nat
  BY LenProperties
<1> HIDE DEF g
<1>3. /\ h \in Seq(Msgs) /\ Len(h) = Len(s) + b
      /\ \A j \in 1 .. Len(s) + b : h[j] = IF j <= Len(s) THEN s[j] ELSE g[j - Len(s)]
  BY <1>1, ConcatProperties
<1> HIDE DEF h
<1>4. /\ h \o ms \in Seq(Msgs) /\ Len(h \o ms) = Len(h) + Len(ms)
      /\ \A j \in 1 .. Len(h) + Len(ms) :
           (h \o ms)[j] = IF j <= Len(h) THEN h[j] ELSE ms[j - Len(h)]
  BY <1>3, ConcatProperties
<1> DEFINE u == h \o ms
<1> HIDE DEF u
<1>5. /\ u \in Seq(Msgs) /\ Len(u) = Len(s) + b + Len(ms)
      /\ \A j \in 1 .. Len(u) : u[j] = IF j <= Len(s) + b THEN h[j] ELSE ms[j - (Len(s) + b)]
  BY <1>3, <1>4 DEF u
<1>6. \A j \in 1 .. Len(s) : u[j] = s[j]
  BY <1>2, <1>3, <1>5
<1>7. \A j \in Len(s) + 1 .. Len(s) + b : u[j] = Log("log", re)
  BY <1>1, <1>2, <1>3, <1>5
<1>8. \A j \in Len(s) + b + 1 .. Len(s) + b + Len(ms) : u[j] = ms[j - (Len(s) + b)]
  BY <1>2, <1>5
<1>9. Extends(u, s, b, ms, 0, re)
  BY <1>2, <1>5, <1>6, <1>7, <1>8 DEF Extends
<1> QED
  BY <1>9 DEF u, h, g, Told

LEMMA SaidShape ==
  ASSUME NEW s \in Seq(Msgs), NEW b \in Nat, NEW a \in Nat, NEW ms \in Seq(Msgs),
         NEW re \in Exchanges
  PROVE  Extends(Said(s, b, ms, a, re), s, b, ms, a, re)
<1> DEFINE g == Logs(a, re)
           h == Told(s, b, ms, re)
           u == Said(s, b, ms, a, re)
           k == Len(s) + b
<1>1. g \in Seq(Msgs) /\ Len(g) = a /\ \A j \in 1 .. a : g[j] = Log("log", re)
  BY LogsAreLogs DEF Logs
<1>2. /\ h \in Seq(Msgs) /\ Len(h) = k + Len(ms) /\ k \in Nat /\ Len(ms) \in Nat
      /\ \A j \in 1 .. Len(s) : h[j] = s[j]
      /\ \A j \in Len(s) + 1 .. k : h[j] = Log("log", re)
      /\ \A j \in k + 1 .. k + Len(ms) : h[j] = ms[j - k]
  <2>1. Extends(h, s, b, ms, 0, re) /\ Len(s) \in Nat /\ Len(ms) \in Nat
    BY ToldShape, LenProperties
  <2> HIDE DEF h
  <2> QED
    BY <2>1 DEF Extends
<1>3. u = h \o g /\ Len(s) \in Nat
  BY LenProperties DEF Said, Told
<1> HIDE DEF g, h, u
<1>4. /\ u \in Seq(Msgs) /\ Len(u) = Len(h) + a
      /\ \A j \in 1 .. Len(u) : u[j] = IF j <= Len(h) THEN h[j] ELSE g[j - Len(h)]
  <2>1. /\ h \o g \in Seq(Msgs) /\ Len(h \o g) = Len(h) + Len(g)
        /\ \A j \in 1 .. Len(h) + Len(g) :
             (h \o g)[j] = IF j <= Len(h) THEN h[j] ELSE g[j - Len(h)]
    BY <1>1, <1>2, ConcatProperties
  <2> QED
    BY <1>1, <1>3, <2>1
<1>5. /\ \A j \in 1 .. Len(s) : u[j] = s[j]
      /\ \A j \in Len(s) + 1 .. k : u[j] = Log("log", re)
      /\ \A j \in k + 1 .. k + Len(ms) : u[j] = ms[j - k]
  BY <1>2, <1>3, <1>4
<1>6. \A j \in k + Len(ms) + 1 .. Len(u) : u[j] = Log("log", re)
  <2> SUFFICES ASSUME NEW j \in k + Len(ms) + 1 .. Len(u)  PROVE  u[j] = Log("log", re)
    OBVIOUS
  <2>1. j \in 1 .. Len(u) /\ ~(j <= Len(h)) /\ j - Len(h) \in 1 .. a
    BY <1>2, <1>4
  <2> QED
    BY <1>1, <1>4, <2>1
<1> QED
  BY <1>2, <1>4, <1>5, <1>6 DEF u, Extends

LEMMA ExtendsFacts ==
  ASSUME NEW s \in Seq(Msgs), NEW b \in Nat, NEW a \in Nat, NEW ms \in Seq(Msgs),
         NEW re, NEW u, Extends(u, s, b, ms, a, re)
  PROVE  /\ u \in Seq(Msgs) /\ Len(u) = Len(s) + b + Len(ms) + a
         /\ Len(s) \in Nat /\ Len(ms) \in Nat
BY LenProperties DEF Extends

\* Every message is one that was there, one of ms or a log.
LEMMA Members ==
  ASSUME NEW s \in Seq(Msgs), NEW b \in Nat, NEW a \in Nat, NEW ms \in Seq(Msgs),
         NEW re, NEW u, Extends(u, s, b, ms, a, re)
  PROVE  \A j \in 1 .. Len(u) : \/ \E i \in 1 .. Len(s) : u[j] = s[i]
                                \/ \E i \in 1 .. Len(ms) : u[j] = ms[i]
                                \/ u[j] = Log("log", re)
<1> DEFINE k == Len(s) + b
<1>1. /\ Len(u) = k + Len(ms) + a /\ k \in Nat /\ Len(ms) \in Nat /\ Len(s) \in Nat
      /\ \A j \in 1 .. Len(s) : u[j] = s[j]
      /\ \A j \in Len(s) + 1 .. k : u[j] = Log("log", re)
      /\ \A j \in k + 1 .. k + Len(ms) : u[j] = ms[j - k]
      /\ \A j \in k + Len(ms) + 1 .. Len(u) : u[j] = Log("log", re)
  BY ExtendsFacts DEF Extends
<1> HIDE DEF k
<1>2. SUFFICES ASSUME NEW j \in 1 .. Len(u)
               PROVE  \/ \E i \in 1 .. Len(s) : u[j] = s[i]
                      \/ \E i \in 1 .. Len(ms) : u[j] = ms[i]
                      \/ u[j] = Log("log", re)
  OBVIOUS
<1>3. CASE j <= Len(s)
  BY <1>1, <1>2, <1>3
<1>4. CASE j > k /\ j <= k + Len(ms)
  <2>1. j - k \in 1 .. Len(ms) /\ u[j] = ms[j - k]
    BY <1>1, <1>2, <1>4
  <2> QED
    BY <2>1
<1>5. CASE (j > Len(s) /\ j <= k) \/ j > k + Len(ms)
  BY <1>1, <1>2, <1>5
<1> QED
  BY <1>1, <1>2, <1>3, <1>4, <1>5

LEMMA LogIsLog ==
  ASSUME NEW re \in Exchanges, NEW t \in {"log", "marker"}
  PROVE  IsLog(Log(t, re)) /\ ~IsEnd(Log(t, re)) /\ Log(t, re).digest = "none"
BY DEF IsLog, IsEnd, Log

LEMMA StaysQuiet ==
  ASSUME NEW s \in Seq(Msgs), NEW b \in Nat, NEW a \in Nat, NEW ms \in Seq(Msgs),
         NEW re \in Exchanges, NEW u, Extends(u, s, b, ms, a, re), Quiet(s), Quiet(ms)
  PROVE  Quiet(u)
<1> SUFFICES ASSUME NEW j \in 1 .. Len(u)  PROVE  IsLog(u[j])
  BY DEF Quiet
<1>1. \/ \E i \in 1 .. Len(s) : u[j] = s[i]
      \/ \E i \in 1 .. Len(ms) : u[j] = ms[i]
      \/ u[j] = Log("log", re)
  BY Members
<1> QED
  BY <1>1, LogIsLog DEF Quiet

\* A response that comes last of ms is the only one.
LEMMA IsAnswered ==
  ASSUME NEW s \in Seq(Msgs), NEW b \in Nat, NEW a \in Nat, NEW ms \in Seq(Msgs),
         NEW re \in Exchanges, NEW u, Extends(u, s, b, ms, a, re), Quiet(s), NEW n \in Nat,
         Len(ms) = n + 1, IsEnd(ms[n + 1]), \A i \in 1 .. n : IsLog(ms[i])
  PROVE  \E l \in Nat : Answered(u, l)
<1> DEFINE k == Len(s) + b
<1>1. /\ Len(u) = k + n + 1 + a /\ k \in Nat /\ Len(s) \in Nat /\ Len(s) <= k
      /\ \A j \in 1 .. Len(s) : u[j] = s[j]
      /\ \A j \in Len(s) + 1 .. k : u[j] = Log("log", re)
      /\ \A j \in k + 1 .. k + n + 1 : u[j] = ms[j - k]
      /\ \A j \in k + n + 2 .. Len(u) : u[j] = Log("log", re)
  BY ExtendsFacts DEF Extends
<1> HIDE DEF k
<1>2. k + n < Len(u) /\ u[k + n + 1] = ms[n + 1]
  BY <1>1
<1>3. ASSUME NEW j \in 1 .. Len(u), j # k + n + 1  PROVE  IsLog(u[j])
  <2>1. CASE j <= Len(s)
    BY <1>1, <1>3, <2>1 DEF Quiet
  <2>2. CASE (j > Len(s) /\ j <= k) \/ j >= k + n + 2
    BY <1>1, <1>3, <2>2, LogIsLog
  <2>3. CASE j > k /\ j <= k + n
    <3>1. j - k \in 1 .. n /\ u[j] = ms[j - k]
      BY <1>1, <1>3, <2>3
    <3> QED
      BY <3>1
  <2>4. \/ j <= Len(s) \/ (j > Len(s) /\ j <= k) \/ j >= k + n + 2
        \/ (j > k /\ j <= k + n)
    BY <1>1, <1>3
  <2> QED
    BY <2>1, <2>2, <2>3, <2>4
<1>4. Answered(u, k + n) /\ k + n \in Nat
  BY <1>1, <1>2, <1>3 DEF Answered
<1> QED
  BY <1>4

LEMMA IsReady ==
  ASSUME NEW s \in Seq(Msgs), NEW b \in Nat, NEW ms \in Seq(Msgs), NEW re \in Exchanges,
         NEW u, Extends(u, s, b, ms, 0, re), Quiet(s), Len(ms) = 1, IsRaw(ms[1])
  PROVE  \E l \in Nat : Ready(u, l)
<1> DEFINE k == Len(s) + b
<1>1. /\ Len(u) = k + 1 /\ k \in Nat /\ Len(s) \in Nat
      /\ \A j \in 1 .. Len(s) : u[j] = s[j]
      /\ \A j \in Len(s) + 1 .. k : u[j] = Log("log", re)
      /\ \A j \in k + 1 .. k + 1 : u[j] = ms[j - k]
  BY ExtendsFacts DEF Extends
<1> HIDE DEF k
<1>2. u[k + 1] = ms[1]
  BY <1>1
<1>3. \A j \in 1 .. k : IsLog(u[j])
  BY <1>1, LogIsLog DEF Quiet
<1>4. Ready(u, k)
  BY <1>1, <1>2, <1>3 DEF Ready
<1> QED
  BY <1>1, <1>4

LEMMA IsAnnounced ==
  ASSUME NEW s \in Seq(Msgs), NEW b \in Nat, NEW a \in Nat, NEW ms \in Seq(Msgs),
         NEW re \in Exchanges, NEW u, Extends(u, s, b, ms, a, re), Quiet(s), NEW n \in Nat,
         Len(ms) = n + 2, IsRaw(ms[1]), IsEnd(ms[n + 2]),
         \A i \in 2 .. n + 1 : ms[i].t = "data"
  PROVE  \E l \in Nat : Announced(u, l, n)
<1> DEFINE k == Len(s) + b
<1>1. /\ Len(u) = k + n + 2 + a /\ k \in Nat /\ Len(s) \in Nat /\ Len(s) <= k
      /\ \A j \in 1 .. Len(s) : u[j] = s[j]
      /\ \A j \in Len(s) + 1 .. k : u[j] = Log("log", re)
      /\ \A j \in k + 1 .. k + n + 2 : u[j] = ms[j - k]
      /\ \A j \in k + n + 3 .. Len(u) : u[j] = Log("log", re)
  BY ExtendsFacts DEF Extends
<1> HIDE DEF k
<1>2. k + n + 1 < Len(u) /\ k + 1 \in 1 .. Len(u) /\ k + n + 2 \in k + 1 .. k + n + 2
  BY <1>1
<1>3. u[k + 1] = ms[1] /\ u[k + n + 2] = ms[n + 2]
  <2>1. u[k + 1] = ms[(k + 1) - k] /\ u[k + n + 2] = ms[(k + n + 2) - k]
    BY <1>1, <1>2
  <2>2. (k + 1) - k = 1 /\ (k + n + 2) - k = n + 2
    BY <1>1
  <2> QED
    BY <2>1, <2>2
<1>4. \A j \in 1 .. k : IsLog(u[j])
  BY <1>1, LogIsLog DEF Quiet
<1>5. ASSUME NEW j \in k + 2 .. k + n + 1  PROVE  u[j].t = "data"
  <2>1. j - k \in 2 .. n + 1 /\ u[j] = ms[j - k]
    BY <1>1, <1>5
  <2> QED
    BY <2>1
<1>6. \A j \in k + n + 3 .. Len(u) : IsLog(u[j])
  BY <1>1, LogIsLog
<1>7. Announced(u, k, n)
  BY <1>2, <1>3, <1>4, <1>5, <1>6 DEF Announced
<1> QED
  BY <1>1, <1>7

LEMMA Saying ==
  ASSUME toHost \in Seq(Msgs), NEW re \in Exchanges, NEW ms \in Seq(Msgs)
  PROVE  /\ Say(re, ms) =>
              \E b, a \in Nat : Extends(toHost', toHost, b, ms, a, re)
         /\ SayRaw(re, ms) => \E b \in Nat : Extends(toHost', toHost, b, ms, 0, re)
<1>1. \A x \in 0 .. MaxLogs : x \in Nat
  BY PayloadAssumption
<1>2. Say(re, ms) => \E b, a \in Nat : toHost' = Said(toHost, b, ms, a, re)
  BY <1>1 DEF Say, Said, Logs
<1>3. SayRaw(re, ms) => \E b \in Nat : toHost' = Told(toHost, b, ms, re)
  BY <1>1 DEF SayRaw, Told, Logs
<1> QED
  BY <1>2, <1>3, SaidShape, ToldShape

LEMMA OneMessage ==
  ASSUME NEW m \in Msgs
  PROVE  <<m>> \in Seq(Msgs) /\ Len(<<m>>) = 1 /\ <<m>>[1] = m
OBVIOUS

LEMMA TwoMessages ==
  ASSUME NEW d \in Msgs, NEW m \in Msgs
  PROVE  <<d, m>> \in Seq(Msgs) /\ Len(<<d, m>>) = 2 /\ <<d, m>>[1] = d /\ <<d, m>>[2] = m
OBVIOUS

\* A response that announces sectors, the sectors, and the response behind them.
LEMMA TransferShape ==
  ASSUME dmax \in Nat, NEW c \in Commands
  PROVE  /\ Transfer(c) \in Seq(Msgs) /\ Len(Transfer(c)) = c.n + 2 /\ c.n \in Nat
         /\ Transfer(c)[1] = RawReply(c.re) /\ Transfer(c)[c.n + 2] = Reply(c.re, "ACK")
         /\ \A i \in 2 .. c.n + 1 : Transfer(c)[i] = Log("data", c.re)
<1> DEFINE r == RawReply(c.re)
           m == Reply(c.re, "ACK")
           n == c.n
           g == [k \in 1 .. n |-> Log("data", c.re)]
           h == <<r>> \o g
           ms == h \o <<m>>
<1>1. c.re \in Exchanges /\ n \in Nat
  BY DEF Commands
<1>2. r \in Msgs /\ m \in Msgs
  BY <1>1 DEF RawReply, Reply, Log, Msgs
<1>3. g \in Seq(Msgs) /\ Len(g) = n /\ \A j \in 1 .. n : g[j] = Log("data", c.re)
  BY <1>1, LogsAreLogs
<1> HIDE DEF r, m, n, g
<1>4. /\ <<r>> \in Seq(Msgs) /\ Len(<<r>>) = 1 /\ <<r>>[1] = r
      /\ <<m>> \in Seq(Msgs) /\ Len(<<m>>) = 1 /\ <<m>>[1] = m
  BY <1>2, OneMessage
<1>5. /\ h \in Seq(Msgs) /\ Len(h) = n + 1
      /\ \A j \in 1 .. n + 1 : h[j] = IF j <= 1 THEN <<r>>[j] ELSE g[j - 1]
  BY <1>3, <1>4, ConcatProperties
<1>6. h[1] = r /\ \A j \in 2 .. n + 1 : h[j] = Log("data", c.re)
  BY <1>1, <1>3, <1>4, <1>5
<1> HIDE DEF h
<1>7. /\ ms \in Seq(Msgs) /\ Len(ms) = n + 2
      /\ \A j \in 1 .. n + 2 : ms[j] = IF j <= n + 1 THEN h[j] ELSE <<m>>[j - (n + 1)]
  <2>1. /\ ms \in Seq(Msgs) /\ Len(ms) = Len(h) + Len(<<m>>)
        /\ \A j \in 1 .. Len(h) + Len(<<m>>) :
             ms[j] = IF j <= Len(h) THEN h[j] ELSE <<m>>[j - Len(h)]
    BY <1>4, <1>5, ConcatProperties
  <2> QED
    BY <1>1, <1>4, <1>5, <2>1
<1> HIDE DEF ms
<1>8. ms[1] = r /\ \A i \in 2 .. n + 1 : ms[i] = Log("data", c.re)
  BY <1>1, <1>6, <1>7
<1>9. ms[n + 2] = m
  <2>1. ms[n + 2] = <<m>>[(n + 2) - (n + 1)] /\ (n + 2) - (n + 1) = 1
    BY <1>1, <1>7
  <2> QED
    BY <1>4, <2>1
<1>10. Transfer(c) = ms
  BY DEF Transfer, ms, h, g, r, m, n
<1> QED
  BY <1>1, <1>7, <1>8, <1>9, <1>10 DEF r, m, n

-----------------------------------------------------------------------------
(* Packets on their way.                                                   *)

LEMMA FlightIs ==
  ASSUME NEW s
  PROVE  /\ Len(s) = 0 => InFlight(s) = 0
         /\ Len(s) = 1 => InFlight(s) = s[1].n
         /\ Len(s) = 2 => InFlight(s) = s[1].n + s[2].n
BY DEF InFlight

LEMMA FlightAppend ==
  ASSUME NEW s \in Seq(Commands), Len(s) < 2, NEW c \in Commands
  PROVE  /\ Append(s, c) \in Seq(Commands) /\ Len(Append(s, c)) = Len(s) + 1
         /\ InFlight(Append(s, c)) = InFlight(s) + c.n /\ InFlight(s) \in Nat
         /\ \A j \in 1 .. Len(s) : Append(s, c)[j] = s[j]
         /\ Append(s, c)[Len(s) + 1] = c
<1> DEFINE u == Append(s, c)
<1>1. /\ u \in Seq(Commands) /\ Len(u) = Len(s) + 1 /\ Len(s) \in Nat
      /\ \A j \in 1 .. Len(s) : u[j] = s[j]
      /\ u[Len(s) + 1] = c /\ c.n \in Nat
  BY AppendProperties, LenProperties DEF Commands
<1> HIDE DEF u
<1>2. CASE Len(s) = 0
  <2>1. u[1] = c /\ Len(u) = 1
    BY <1>1, <1>2
  <2> QED
    BY <1>1, <1>2, <2>1, FlightIs DEF u
<1>3. CASE Len(s) = 1
  <2>1. s[1] \in Commands
    BY <1>3, ElementOfSeq
  <2>2. s[1].n \in Nat /\ u[1] = s[1] /\ u[2] = c /\ Len(u) = 2
    BY <1>1, <1>3, <2>1 DEF Commands
  <2> QED
    BY <1>1, <1>3, <2>2, FlightIs DEF u
<1>4. Len(s) = 0 \/ Len(s) = 1
  <2>1. Len(s) \in Nat
    BY <1>1
  <2>2. \A n \in Nat : n < 2 => n = 0 \/ n = 1
    OBVIOUS
  <2> QED
    BY <2>1, <2>2
<1> QED
  BY <1>2, <1>3, <1>4

LEMMA FlightTail ==
  ASSUME NEW s \in Seq(Commands), s # <<>>, Len(s) <= 2
  PROVE  /\ Head(s) \in Commands /\ Head(s) = s[1] /\ Tail(s) \in Seq(Commands)
         /\ Len(s) \in 1 .. 2 /\ Len(Tail(s)) = Len(s) - 1
         /\ InFlight(s) = Head(s).n + InFlight(Tail(s)) /\ InFlight(Tail(s)) \in Nat
         /\ \A j \in 1 .. Len(Tail(s)) : Tail(s)[j] = s[j + 1]
<1> DEFINE u == Tail(s)
<1>1. /\ Head(s) \in Commands /\ Head(s) = s[1] /\ u \in Seq(Commands) /\ Len(u) = Len(s) - 1
      /\ Len(s) \in Nat \ {0} /\ \A j \in 1 .. Len(u) : u[j] = s[j + 1]
  BY HeadIsFirst
<1>2. Head(s).n \in Nat
  BY <1>1 DEF Commands
<1> HIDE DEF u
<1>3. CASE Len(s) = 1
  <2>1. Len(u) = 0 /\ InFlight(s) = s[1].n /\ InFlight(u) = 0
    BY <1>1, <1>3, FlightIs
  <2> QED
    BY <1>1, <1>2, <1>3, <2>1 DEF u
<1>4. CASE Len(s) = 2
  <2>1. s[2] \in Commands
    <3>1. 2 \in 1 .. Len(s)
      BY <1>4
    <3> QED
      BY <3>1, ElementOfSeq
  <2>2. u[1] = s[2] /\ s[2].n \in Nat /\ Len(u) = 1
    BY <1>1, <1>4, <2>1 DEF Commands
  <2>3. InFlight(s) = s[1].n + s[2].n /\ InFlight(u) = s[2].n
    BY <1>4, <2>2, FlightIs
  <2> QED
    BY <1>1, <1>2, <1>4, <2>2, <2>3 DEF u
<1>5. Len(s) = 1 \/ Len(s) = 2
  BY <1>1
<1> QED
  BY <1>3, <1>4, <1>5

-----------------------------------------------------------------------------
(* Runs.                                                                   *)

LEMMA OpsFacts ==
  ASSUME run \in Runs
  PROVE  /\ Len(ops) \in Nat \ {0} /\ DOMAIN ops = 1 .. Len(ops) /\ ops[1].type = "configure"
         /\ run.skipblock \in BOOLEAN /\ run.late \in Nat /\ run.tries \in Nat
         /\ run.payload \in Nat \ {0} /\ run.vip \in {"DISABLED", "INIT"}
         /\ \A i \in DOMAIN ops :
              /\ ops[i].type \in {"configure", "program", "read", "erase", "patch", "bootable",
                                  "reset"}
              /\ ops[i].n \in Nat
              /\ ops[i].type \in {"erase", "patch"} => ops[i].n = 1
              /\ ops[i].type \in {"program", "read"} => ops[i].n > 0
<1> DEFINE T == [type : {"configure", "program", "read", "erase", "patch", "bootable", "reset"},
                 n : Nat]
<1>1. RunOK(run)
  BY PayloadAssumption
<1>2. /\ ops \in Seq(T) /\ ops # <<>> /\ ops[1].type = "configure"
      /\ \A i \in DOMAIN ops : /\ ops[i].type \in {"erase", "patch"} => ops[i].n = 1
                               /\ ops[i].type \in {"program", "read"} => ops[i].n > 0
      /\ run.skipblock \in BOOLEAN /\ run.late \in Nat /\ run.tries \in Nat
      /\ run.payload \in Nat \ {0} /\ run.vip \in {"DISABLED", "INIT"}
  BY <1>1 DEF RunOK, ops
<1> HIDE DEF T
<1>3. Len(ops) \in Nat \ {0} /\ DOMAIN ops = 1 .. Len(ops)
  BY <1>2, EmptySeq, LenProperties
<1>4. \A i \in DOMAIN ops : ops[i] \in T
  BY <1>2, <1>3, ElementOfSeq
<1> QED
  BY <1>2, <1>3, <1>4 DEF T

LEMMA LesserFacts ==
  ASSUME NEW a \in Nat, NEW b \in Nat
  PROVE  /\ Lesser(a, b) \in Nat /\ Lesser(a, b) <= a /\ Lesser(a, b) <= b
         /\ Lesser(a, b) = a \/ Lesser(a, b) = b
         /\ a > 0 /\ b > 0 => Lesser(a, b) > 0
BY DEF Lesser

\* The region an exchange is about lies in its operation.
LEMMA RegionFacts ==
  ASSUME run \in Runs, off \in Nat, opi \in DOMAIN ops, off = 0 \/ Further
  PROVE  /\ RegionSectors \in Nat /\ off + RegionSectors <= Op.n
         /\ Op.type \in {"program", "read"} => RegionSectors > 0
         /\ SkipblockEnabled => Op.type = "program" /\ off < Op.n
         /\ ~SkipblockEnabled => off = 0 /\ RegionSectors = Op.n
<1>1. Op.n \in Nat /\ (Op.type \in {"program", "read"} => Op.n > 0)
  BY OpsFacts DEF Op
<1>2. SkipblockEnabled => Op.type = "program"
  BY DEF SkipblockEnabled
<1>3. CASE SkipblockEnabled
  <2>1. off < Op.n /\ Op.n - off \in Nat /\ Op.n - off > 0
    BY <1>1, <1>2, <1>3 DEF Further
  <2>2. RegionSectors = Lesser(ChunkMax, Op.n - off)
    BY <1>3 DEF RegionSectors
  <2>3. PICK d \in Nat : d = Op.n - off /\ d > 0
    BY <2>1
  <2>4. ChunkMax \in Nat /\ ChunkMax > 0
    BY PayloadAssumption
  <2>5. Lesser(ChunkMax, d) \in Nat /\ Lesser(ChunkMax, d) <= d /\ Lesser(ChunkMax, d) > 0
    BY <2>3, <2>4, LesserFacts
  <2> QED
    BY <1>1, <1>2, <1>3, <2>1, <2>2, <2>3, <2>5
<1>4. CASE ~SkipblockEnabled
  BY <1>1, <1>2, <1>4 DEF RegionSectors, Further
<1> QED
  BY <1>3, <1>4

-----------------------------------------------------------------------------
(* Types.                                                                  *)

LEMMA InitTyped == Init => TypeOK /\ StepInv
<1> SUFFICES ASSUME Init  PROVE  TypeOK /\ StepInv
  OBVIOUS
<1>1. run \in Runs /\ HostPayload \in Nat \ {0}
  BY PayloadAssumption DEF Init
<1>2. run.payload \in Nat \ {0} /\ run.vip \in {"DISABLED", "INIT"} /\ run.late \in Nat
  BY <1>1, OpsFacts
<1>3. NoExchange \in Exchanges
  BY DEF NoExchange, Exchanges, AllSteps
<1>4. HostTypes
  <2>1. "none" \in AllSteps
    BY DEF AllSteps
  <2>2. /\ run \in Runs /\ opi \in Nat \ {0} /\ off \in Nat /\ step \in AllSteps
        /\ answer \in Exchanges /\ rsize \in Nat /\ left \in Nat /\ payload \in Nat \ {0}
        /\ tries \in Nat
    BY <1>1, <1>3, <2>1 DEF Init
  <2>3. vip \in {"DISABLED", "INIT", "SEND_DATA"}
    BY <1>2 DEF Init
  <2>4. /\ sector_size \in BOOLEAN /\ requires \in BOOLEAN /\ single \in BOOLEAN
        /\ hpc = "op" /\ resp = "none" /\ digest = "none" /\ result = "none"
    BY DEF Init
  <2> QED
    BY <2>2, <2>3, <2>4 DEF HostTypes
<1>5. DeviceTypes
  BY <1>2, <1>3 DEF Init, DeviceTypes, Position, Places
<1>6. LinkTypes
  BY DEF Init, LinkTypes
<1>7. StepInv
  BY <1>2 DEF Init, StepInv
<1> QED
  BY <1>4, <1>5, <1>6, <1>7 DEF TypeOK

\* What the exchanges of the operation in progress are called.
LEMMA ExchangeTyped ==
  ASSUME TypeOK, NEW s \in AllSteps
  PROVE  Exchange(s) \in Exchanges /\ Exchange(s) = [op |-> opi, step |-> s, off |-> off]
BY DEF TypeOK, HostTypes, Exchange, Exchanges

LEMMA RegionTyped ==
  ASSUME TypeOK, StepInv, Purpose, hpc # "end"
  PROVE  RegionSectors \in Nat
BY RegionFacts DEF TypeOK, HostTypes, StepInv, Purpose

LEMMA CommandTyped ==
  ASSUME TypeOK, StepInv, hpc \in {"write", "read"}, step # "startup"
  PROVE  Command \in Commands
<1>1. Purpose /\ step \notin {"startup", "resetting", "refused"}
  BY DEF StepInv
<1>2. step \in Sendable \cup {"data"} /\ Exchange(step) \in Exchanges
  BY <1>1, ExchangeTyped DEF TypeOK, HostTypes, Purpose, AllSteps, Sendable
<1> DEFINE n == CASE step = "configure" -> payload
                  [] step = "reconfigure" -> rsize
                  [] step \in {"digest", "program", "read"} -> RegionSectors
                  [] OTHER -> 1
<1>3. n \in Nat
  BY <1>1, RegionTyped DEF TypeOK, HostTypes
<1> HIDE DEF n
<1>4. Command = [cmd |-> step, re |-> Exchange(step), n |-> n]
  BY DEF Command, n
<1> QED
  BY <1>2, <1>3, <1>4 DEF Commands

\* What the host's steps on its own leave alone.
LEMMA HostAlone ==
  ASSUME TypeOK, HostTypes', UNCHANGED <<devVars, toDev, toHost, fails, gone>>, late' \in Nat
  PROVE  TypeOK'
BY DEF TypeOK, DeviceTypes, LinkTypes, devVars, tableVars

LEMMA StartOpTyped ==
  ASSUME TypeOK, StepInv, StartOp
  PROVE  TypeOK'
<1>1. opi <= Len(ops) => Op.type \in AllSteps /\ {"startup", "digest", "configure"} \subseteq AllSteps
  BY OpsFacts DEF TypeOK, HostTypes, Op, AllSteps, Steps
<1>2. NoExchange \in Exchanges
  BY DEF NoExchange, Exchanges, AllSteps
<1>3. HostTypes'
  BY <1>1, <1>2 DEF StartOp, TypeOK, HostTypes, Read, Write
<1> QED
  BY <1>3, HostAlone DEF StartOp, TypeOK, DeviceTypes

-----------------------------------------------------------------------------
(* What becomes of an exchange.                                            *)

ToNext     == NextOp /\ UNCHANGED <<step, result>>
ToEnd      == Fail /\ UNCHANGED <<opi, off, step, tries>>
ToWrite(s) == Write(s) /\ UNCHANGED <<opi, off, tries, result>>
ToRegion   == /\ SkipblockEnabled /\ off + ChunkMax < Op.n
              /\ off' = off + ChunkMax /\ Write("digest") /\ UNCHANGED <<opi, tries, result>>

LEMMA ConfiguredOutcome ==
  ASSUME NEW ret, Configured(ret)
  PROVE  (ret = "ACK" /\ ToNext) \/ (ret # "ACK" /\ ToWrite("configure")) \/ ToEnd
<1>1. CASE ~single /\ requires
  BY <1>1 DEF Configured, ToEnd
<1>2. CASE (single \/ ~requires) /\ ret = "ACK"
  BY <1>2 DEF Configured, ToNext
<1>3. CASE (single \/ ~requires) /\ ret # "ACK"
  BY <1>3 DEF Configured, ToEnd, ToWrite
<1> QED
  BY <1>1, <1>2, <1>3

LEMMA ProbeOutcome ==
  ASSUME Probe
  PROVE  (ToWrite("probe512") /\ vip = "DISABLED") \/ ToNext \/ ToEnd
<1>1. CASE vip = "DISABLED" /\ ~sector_size
  BY <1>1 DEF Probe, ToWrite
<1>2. CASE ~(vip = "DISABLED" /\ ~sector_size)
  BY <1>2, ConfiguredOutcome DEF Probe
<1> QED
  BY <1>1, <1>2

LEMMA NextProbeOutcome ==
  ASSUME NextProbe
  PROVE  ToWrite("probe4096") \/ ToNext \/ ToEnd
<1>1. CASE step = "probe512"
  BY <1>1 DEF NextProbe, ToWrite
<1>2. CASE step # "probe512"
  BY <1>2, ConfiguredOutcome DEF NextProbe
<1> QED
  BY <1>1, <1>2

LEMMA NextRegionOutcome ==
  ASSUME NextRegion, result' = result
  PROVE  \/ ToRegion
         \/ ToNext /\ ~(SkipblockEnabled /\ off + ChunkMax < Op.n)
<1>1. CASE SkipblockEnabled /\ off + ChunkMax < Op.n
  BY <1>1 DEF NextRegion, ToRegion
<1>2. CASE ~(SkipblockEnabled /\ off + ChunkMax < Op.n)
  BY <1>2 DEF NextRegion, ToNext
<1> QED
  BY <1>1, <1>2

\* Outcomes change nothing but where the host is.
LEMMA OutcomeTyped ==
  ASSUME TypeOK, UNCHANGED <<exchangeRest, left, requires, single>>,
         resp' \in {"none", "ACK", "NAK", "TIMEDOUT", "EIO"}, answer' \in Exchanges,
         payload' \in Nat \ {0}, sector_size' \in BOOLEAN,
         vip' \in {"DISABLED", "INIT", "SEND_DATA"},
         ToNext \/ ToEnd \/ ToRegion \/ (\E s \in AllSteps : ToWrite(s))
  PROVE  TypeOK'
<1>1. /\ opi' \in Nat \ {0} /\ off' \in Nat /\ step' \in AllSteps /\ tries' \in Nat
      /\ hpc' \in {"op", "write", "end"} /\ result' \in {"none", "ok", "failed"}
  <2>1. CASE ToNext
    BY <2>1 DEF TypeOK, HostTypes, ToNext, NextOp
  <2>2. CASE ToEnd
    BY <2>2 DEF TypeOK, HostTypes, ToEnd, Fail
  <2>3. CASE ToRegion
    <3>1. "digest" \in AllSteps /\ ChunkMax \in Nat
      BY PayloadAssumption DEF AllSteps, Steps
    <3> QED
      BY <2>3, <3>1 DEF TypeOK, HostTypes, ToRegion, Write
  <2>4. CASE \E s \in AllSteps : ToWrite(s)
    BY <2>4 DEF TypeOK, HostTypes, ToWrite, Write
  <2> QED
    BY <2>1, <2>2, <2>3, <2>4
<1>2. HostTypes'
  BY <1>1 DEF TypeOK, HostTypes, exchangeRest
<1> QED
  BY <1>2, HostAlone DEF TypeOK, DeviceTypes, exchangeRest

LEMMA WriteCommandIs ==
  ASSUME WriteCommand
  PROVE  toDev' = Append(toDev, Command)
BY DEF WriteCommand, Command

LEMMA StepNames ==
  /\ {"configure", "reconfigure", "probe512", "probe4096", "table", "digest", "program",
      "resetting", "refused", "none"} \subseteq AllSteps
  /\ NoExchange \in Exchanges
BY DEF AllSteps, Steps, Probes, NoExchange, Exchanges

\* firehose_write() and firehose_read().
LEMMA TransferTyped ==
  ASSUME TypeOK, StepInv,
         WriteCommand \/ WriteTimesOut \/ WriteFails \/ ReadMessage \/ ReadTimesOut \/ ReadFails
  PROVE  TypeOK'
<1>1. CASE WriteCommand
  <2>1. hpc = "write" /\ step # "startup"
    BY <1>1 DEF WriteCommand, StepInv
  <2>2. Command \in Commands
    BY <2>1, CommandTyped
  <2>3. toDev' \in Seq(Commands)
    BY <1>1, <2>2, WriteCommandIs, AppendProperties DEF TypeOK, LinkTypes
  <2>4. /\ tries' \in Nat /\ vip' \in {"DISABLED", "INIT", "SEND_DATA"}
        /\ digest' \in {"none", "same", "diff"}
    BY <1>1 DEF WriteCommand, TypeOK, HostTypes
  <2>5. HostTypes'
    BY <1>1, <2>4, StepNames DEF WriteCommand, Read, TypeOK, HostTypes
  <2>6. DeviceTypes' /\ toHost' = toHost
    BY <1>1 DEF WriteCommand, TypeOK, DeviceTypes, devVars, tableVars
  <2> QED
    BY <2>3, <2>5, <2>6 DEF TypeOK, LinkTypes
<1>2. CASE WriteTimesOut
  <2>1. HostTypes'
    BY <1>2, StepNames DEF WriteTimesOut, Read, TypeOK, HostTypes, configVars
  <2> QED
    BY <1>2, <2>1, HostAlone DEF WriteTimesOut, TypeOK, DeviceTypes
<1>3. CASE WriteFails
  <2>1. /\ hpc' \in {"read", "after", "op", "end"} /\ resp' \in {"none", "EIO", resp}
        /\ answer' \in {NoExchange, answer} /\ step' \in {step, "configure"}
        /\ opi' \in {opi, opi + 1} /\ off' \in {off, 0} /\ tries' \in {tries, 0}
        /\ result' \in {result, "failed"}
    <3>1. CASE step \in {"configure", "reconfigure"}
      BY <1>3, <3>1 DEF WriteFails, Read, Probes
    <3>2. CASE step = "table"
      BY <1>3, <3>2 DEF WriteFails, Read, Probes
    <3>3. CASE step \in Probes \cup {"digest"}
      BY <1>3, <3>3 DEF WriteFails, Probes
    <3>4. CASE step = "bootable"
      BY <1>3, <3>4 DEF WriteFails, NextOp, Probes
    <3>5. CASE step \notin {"configure", "reconfigure", "table", "bootable", "digest"} \cup Probes
      BY <1>3, <3>5 DEF WriteFails, Fail, Probes
    <3> QED
      BY <3>1, <3>2, <3>3, <3>4, <3>5
  <2>2. HostTypes'
    BY <1>3, <2>1, StepNames DEF WriteFails, TypeOK, HostTypes
  <2> QED
    BY <1>3, <2>2, HostAlone DEF WriteFails, TypeOK, DeviceTypes
<1>4. CASE ReadMessage
  <2> DEFINE m == Head(toHost)
  <2>1. m \in Msgs /\ Tail(toHost) \in Seq(Msgs)
    BY <1>4, HeadIsFirst DEF ReadMessage, TypeOK, LinkTypes
  <2>2. /\ m.t \in {"log", "marker", "data", "resp"} /\ m.re \in Exchanges
        /\ m.v \in {"none", "ACK", "NAK"} /\ m.raw \in BOOLEAN /\ m.size \in Nat
    BY <2>1 DEF Msgs
  <2>3. ReturnTo \in {"write", "after", "done"}
    BY <1>4 DEF ReadMessage, Reading, ReturnTo
  <2> HIDE DEF m
  <2>4. requires' \in BOOLEAN /\ digest' \in {"none", "same", "diff"}
    BY <1>4 DEF ReadMessage, ReportedDigest, TypeOK, HostTypes
  <2>5. /\ resp' \in {"none", "ACK", "NAK", "TIMEDOUT", "EIO"} /\ answer' \in Exchanges
        /\ rsize' \in Nat
        /\ hpc' \in {"drain", "read", "final", "write", "after", "done"}
    <3>1. CASE Accepts(m)
      BY <1>4, <2>2, <2>3, <3>1 DEF ReadMessage, Reading, m, TypeOK, HostTypes
    <3>2. CASE ~Accepts(m)
      BY <1>4, <3>2 DEF ReadMessage, Reading, m, TypeOK, HostTypes
    <3> QED
      BY <3>1, <3>2
  <2>6. HostTypes'
    BY <1>4, <2>4, <2>5 DEF ReadMessage, TypeOK, HostTypes, configVars
  <2>7. DeviceTypes' /\ toDev' = toDev /\ toHost' \in Seq(Msgs)
    BY <1>4, <2>1 DEF ReadMessage, TypeOK, DeviceTypes, devVars, tableVars
  <2> QED
    BY <2>6, <2>7 DEF TypeOK, LinkTypes
<1>5. CASE ReadTimesOut \/ ReadFails
  <2>1. ReturnTo \in {"write", "after", "done"} /\ late' \in Nat
    BY <1>5 DEF ReadTimesOut, ReadFails, Reading, ReturnTo, StopsWaiting, TypeOK, DeviceTypes
  <2>2. HostTypes'
    BY <1>5, <2>1 DEF ReadTimesOut, ReadFails, TypeOK, HostTypes, configVars
  <2> QED
    BY <1>5, <2>1, <2>2, HostAlone DEF ReadTimesOut, ReadFails
<1> QED
  BY <1>1, <1>2, <1>3, <1>4, <1>5

\* What changes beside the outcome of an exchange.
Frame == UNCHANGED <<exchangeRest, left, requires, single>>
Plain == Frame /\ UNCHANGED <<resp, answer, payload, sector_size, vip>>

LEMMA AfterStartupOutcome ==
  ASSUME AfterStartup
  PROVE  /\ Frame /\ UNCHANGED <<resp, answer, payload, sector_size>>
         /\ vip' \in {vip, "DISABLED"}
         /\ ToWrite("table") \/ ToWrite("configure")
<1>1. vip' \in {vip, "DISABLED"}
  BY DEF AfterStartup
<1>2. ToWrite("table") \/ ToWrite("configure")
  BY DEF AfterStartup, ToWrite
<1> QED
  BY <1>1, <1>2 DEF AfterStartup, Frame

LEMMA AfterTableOutcome ==
  ASSUME AfterTable
  PROVE  /\ Frame /\ UNCHANGED <<payload, sector_size, vip>>
         /\ \/ ToWrite("configure") /\ UNCHANGED <<resp, answer>>
            \/ /\ resp # "ACK" /\ Read("read") /\ step' = "configure"
               /\ UNCHANGED <<opi, off, tries, result>>
<1>1. CASE resp = "ACK"
  BY <1>1 DEF AfterTable, ToWrite, Frame, configVars
<1>2. CASE resp # "ACK"
  BY <1>2 DEF AfterTable, Frame, configVars
<1> QED
  BY <1>1, <1>2

LEMMA AfterConfigureOutcome ==
  ASSUME AfterConfigure
  PROVE  /\ Plain
         /\ \/ resp = "ACK" /\ rsize # payload /\ ToWrite("reconfigure")
            \/ resp = "ACK" /\ rsize = payload /\ vip = "DISABLED" /\ ToWrite("probe512")
            \/ resp = "ACK" /\ rsize = payload /\ ToNext
            \/ resp # "ACK" /\ ToWrite("configure")
            \/ ToEnd
<1>1. CASE resp = "ACK" /\ rsize # payload
  <2>1. Write("reconfigure") /\ UNCHANGED <<opi, off, tries, result>>
    BY <1>1, Zenon DEF AfterConfigure
  <2> QED
    BY <1>1, <2>1 DEF AfterConfigure, ToWrite, Plain, Frame
<1>2. CASE resp = "ACK" /\ rsize = payload
  <2>1. Probe
    BY <1>2 DEF AfterConfigure
  <2> QED
    BY <1>2, <2>1, ProbeOutcome DEF AfterConfigure, Plain, Frame
<1>3. CASE resp # "ACK"
  <2>1. Configured(resp)
    BY <1>3 DEF AfterConfigure
  <2> QED
    BY <1>3, <2>1, ConfiguredOutcome DEF AfterConfigure, Plain, Frame
<1>4. Plain
  BY DEF AfterConfigure, Plain, Frame
<1> QED
  BY <1>1, <1>2, <1>3, <1>4

LEMMA AfterReconfigureOutcome ==
  ASSUME AfterReconfigure
  PROVE  /\ Frame /\ UNCHANGED <<resp, answer, sector_size, vip>>
         /\ \/ /\ resp = "ACK" /\ payload' = rsize
               /\ (vip = "DISABLED" /\ ToWrite("probe512")) \/ ToNext \/ ToEnd
            \/ payload' = payload /\ (ToWrite("configure") \/ ToEnd)
<1>1. CASE resp = "ACK"
  <2>1. Probe /\ payload' = rsize
    BY <1>1 DEF AfterReconfigure
  <2> QED
    BY <1>1, <2>1, ProbeOutcome DEF AfterReconfigure, Frame
<1>2. CASE resp # "ACK"
  <2>1. Configured("failed") /\ payload' = payload
    BY <1>2 DEF AfterReconfigure
  <2>2. ToWrite("configure") \/ ToEnd
    BY <2>1, ConfiguredOutcome
  <2> QED
    BY <2>1, <2>2 DEF AfterReconfigure, Frame
<1> QED
  BY <1>1, <1>2

LEMMA ProbeDoneOutcome ==
  ASSUME ProbeDone
  PROVE  /\ Frame /\ UNCHANGED <<resp, answer, payload, vip>> /\ sector_size' \in {sector_size, TRUE}
         /\ ToWrite("probe4096") \/ ToNext \/ ToEnd
<1>1. CASE resp = "ACK"
  <2>1. Configured("ACK") /\ sector_size' = TRUE
    BY <1>1 DEF ProbeDone
  <2> QED
    BY <2>1, ConfiguredOutcome DEF ProbeDone, Frame
<1>2. CASE resp # "ACK"
  <2>1. NextProbe /\ sector_size' = sector_size
    BY <1>2 DEF ProbeDone
  <2> QED
    BY <2>1, NextProbeOutcome DEF ProbeDone, Frame
<1> QED
  BY <1>1, <1>2

LEMMA AfterDigestOutcome ==
  ASSUME AfterDigest
  PROVE  /\ Plain
         /\ \/ ToWrite("program")
            \/ /\ resp = "ACK" /\ digest = "same"
               /\ \/ ToRegion
                  \/ ToNext /\ ~(SkipblockEnabled /\ off + ChunkMax < Op.n)
<1>1. CASE resp = "ACK" /\ digest = "same"
  <2>1. NextRegion /\ result' = result
    BY <1>1 DEF AfterDigest
  <2> QED
    BY <1>1, <2>1, NextRegionOutcome DEF AfterDigest, Plain, Frame
<1>2. CASE ~(resp = "ACK" /\ digest = "same")
  BY <1>2 DEF AfterDigest, Plain, Frame, ToWrite
<1> QED
  BY <1>1, <1>2

LEMMA ConcludeOutcome ==
  ASSUME NEW ok \in BOOLEAN, Conclude(ok)
  PROVE  /\ Plain
         /\ \/ ok /\ ToRegion
            \/ ok /\ ToNext /\ ~(SkipblockEnabled /\ off + ChunkMax < Op.n)
            \/ ToEnd
<1>1. CASE ok
  <2>1. NextRegion /\ result' = result
    BY <1>1 DEF Conclude
  <2> QED
    BY <1>1, <2>1, NextRegionOutcome DEF Conclude, Plain, Frame
<1>2. CASE ~ok
  BY <1>2 DEF Conclude, Plain, Frame, ToEnd
<1> QED
  BY <1>1, <1>2

\* The actions that end with Conclude, with what they take for success.
Concluding(ok) ==
  \/ ProgramDone /\ ok = (resp = "ACK")
  \/ ReadDone /\ ok = (resp = "ACK")
  \/ AfterErase /\ ok = (resp = "ACK")
  \/ AfterPatch /\ ok = (resp = "ACK")
  \/ AfterBootable /\ ok = TRUE
  \/ ResetDone /\ ok = (step = "resetting")

LEMMA ConcludingOutcome ==
  ASSUME NEW ok \in BOOLEAN, Concluding(ok)
  PROVE  /\ Plain
         /\ \/ ok /\ ToRegion
            \/ ok /\ ToNext /\ ~(SkipblockEnabled /\ off + ChunkMax < Op.n)
            \/ ToEnd
<1>1. Conclude(ok)
  BY DEF Concluding, ProgramDone, ReadDone, AfterErase, AfterPatch, AfterBootable, ResetDone
<1> QED
  BY <1>1, ConcludeOutcome

Concludes == \E ok \in BOOLEAN : Concluding(ok)

LEMMA WhatConcludes ==
  ProgramDone \/ ReadDone \/ AfterErase \/ AfterPatch \/ AfterBootable \/ ResetDone => Concludes
<1>1. (resp = "ACK") \in BOOLEAN /\ (step = "resetting") \in BOOLEAN /\ TRUE \in BOOLEAN
  OBVIOUS
<1> QED
  BY <1>1 DEF Concludes, Concluding

LEMMA OutcomesTyped ==
  ASSUME TypeOK, StepInv,
         \/ AfterStartup \/ AfterTable \/ AfterConfigure \/ AfterReconfigure
         \/ ProbeDone \/ AfterDigest \/ Concludes
  PROVE  TypeOK'
<1>1. /\ resp \in {"none", "ACK", "NAK", "TIMEDOUT", "EIO"} /\ answer \in Exchanges
      /\ payload \in Nat \ {0} /\ sector_size \in BOOLEAN
      /\ vip \in {"DISABLED", "INIT", "SEND_DATA"} /\ rsize \in Nat
  BY DEF TypeOK, HostTypes
<1>2. CASE AfterStartup
  BY <1>1, <1>2, AfterStartupOutcome, OutcomeTyped, StepNames DEF Frame
<1>3. CASE AfterTable
  <2>1. CASE ToWrite("configure") /\ UNCHANGED <<resp, answer>>
    BY <1>1, <1>3, <2>1, AfterTableOutcome, OutcomeTyped, StepNames DEF Frame
  <2>2. CASE Read("read") /\ step' = "configure" /\ UNCHANGED <<opi, off, tries, result>>
    <3>1. Frame /\ UNCHANGED <<payload, sector_size, vip>>
      BY <1>3, AfterTableOutcome
    <3>2. HostTypes'
      BY <2>2, <3>1, StepNames DEF TypeOK, HostTypes, Frame, exchangeRest, Read
    <3> QED
      BY <3>1, <3>2, HostAlone DEF Frame, exchangeRest, TypeOK, DeviceTypes
  <2> QED
    BY <1>3, <2>1, <2>2, AfterTableOutcome
<1>4. CASE AfterConfigure
  BY <1>1, <1>4, AfterConfigureOutcome, OutcomeTyped, StepNames DEF Frame, Plain
<1>5. CASE AfterReconfigure
  <2>1. rsize > 0
    BY <1>5 DEF AfterReconfigure, StepInv
  <2>2. payload' \in Nat \ {0}
    BY <1>1, <1>5, <2>1, AfterReconfigureOutcome
  <2> QED
    BY <1>1, <1>5, <2>2, AfterReconfigureOutcome, OutcomeTyped, StepNames DEF Frame
<1>6. CASE ProbeDone
  BY <1>1, <1>6, ProbeDoneOutcome, OutcomeTyped, StepNames DEF Frame
<1>7. CASE AfterDigest
  BY <1>1, <1>7, AfterDigestOutcome, OutcomeTyped, StepNames DEF Frame, Plain
<1>8. CASE Concludes
  BY <1>1, <1>8, ConcludingOutcome, OutcomeTyped DEF Frame, Plain, Concludes
<1> QED
  BY <1>2, <1>3, <1>4, <1>5, <1>6, <1>7, <1>8

LEMMA DataTyped ==
  ASSUME TypeOK, StepInv,
         \/ AfterProbe \/ ProgramSetup \/ ReadSetup \/ AfterReset
         \/ StreamChunk \/ RecvSector \/ TransferFails
  PROVE  TypeOK'
<1>1. /\ resp \in {"none", "ACK", "NAK", "TIMEDOUT", "EIO"} /\ answer \in Exchanges
      /\ payload \in Nat \ {0} /\ sector_size \in BOOLEAN
      /\ vip \in {"DISABLED", "INIT", "SEND_DATA"} /\ left \in Nat
  BY DEF TypeOK, HostTypes
<1>2. hpc \notin {"op", "end"} => RegionSectors \in Nat
  BY RegionTyped DEF StepInv
<1>3. CASE AfterProbe
  <2>1. CASE resp = "ACK"
    <3>1. /\ hpc' = "recv" /\ left' = 1 /\ UNCHANGED <<step, opi, off, tries, result>>
          /\ UNCHANGED <<exchangeRest, resp, answer, payload, sector_size, vip, requires, single>>
      BY <1>3, <2>1 DEF AfterProbe
    <3>2. HostTypes'
      BY <3>1 DEF TypeOK, HostTypes, exchangeRest
    <3> QED
      BY <3>1, <3>2, HostAlone DEF exchangeRest, TypeOK, DeviceTypes
  <2>2. CASE resp # "ACK"
    <3>1. NextProbe /\ Plain
      BY <1>3, <2>2 DEF AfterProbe, Plain, Frame
    <3> QED
      BY <1>1, <3>1, NextProbeOutcome, OutcomeTyped, StepNames DEF Frame, Plain
  <2> QED
    BY <2>1, <2>2
<1>4. CASE ProgramSetup \/ ReadSetup
  <2>1. /\ hpc' \in {"stream", "recv", "end"} /\ left' \in {left, RegionSectors}
        /\ result' \in {result, "failed"}
        /\ UNCHANGED <<exchangeRest, opi, step, off, resp, answer, configVars, requires, single>>
    BY <1>4 DEF ProgramSetup, ReadSetup, SetUp, Fail
  <2>2. left' \in Nat
    BY <1>1, <1>2, <1>4, <2>1 DEF ProgramSetup, ReadSetup
  <2>3. HostTypes'
    BY <2>1, <2>2 DEF TypeOK, HostTypes, exchangeRest, configVars
  <2> QED
    BY <2>1, <2>3, HostAlone DEF exchangeRest, TypeOK, DeviceTypes
<1>5. CASE AfterReset
  <2>1. /\ hpc' \in {"final", "end"} /\ step' \in {step, "resetting", "refused"}
        /\ result' \in {result, "failed"} /\ resp' \in {resp, "none"}
        /\ answer' \in {answer, NoExchange}
        /\ UNCHANGED <<exchangeRest, opi, off, left, configVars, requires, single>>
    BY <1>5 DEF AfterReset, Fail, Read
  <2>2. HostTypes'
    BY <2>1, StepNames DEF TypeOK, HostTypes, exchangeRest, configVars
  <2> QED
    BY <2>1, <2>2, HostAlone DEF exchangeRest, TypeOK, DeviceTypes
<1>6. CASE StreamChunk
  <2>1. PICK n : n = Lesser(payload, left)
    OBVIOUS
  <2>2. n \in Nat /\ n <= left
    BY <1>1, <2>1, LesserFacts
  <2>3. "data" \in Sendable \cup {"data"} /\ Exchange(step) \in Exchanges
    BY ExchangeTyped DEF TypeOK, HostTypes
  <2>4. /\ toDev' = Append(toDev, [cmd |-> "data", re |-> Exchange(step), n |-> n])
        /\ left' = left - n /\ hpc' \in {hpc, "final"} /\ resp' \in {resp, "none"}
        /\ answer' \in {answer, NoExchange}
    BY <1>6, <2>1 DEF StreamChunk, Read
  <2>5. toDev' \in Seq(Commands)
    <3>1. [cmd |-> "data", re |-> Exchange(step), n |-> n] \in Commands
      BY <2>2, <2>3 DEF Commands
    <3> QED
      BY <2>4, <3>1, AppendProperties DEF TypeOK, LinkTypes
  <2>6. HostTypes'
    BY <1>6, <2>2, <2>4, StepNames DEF StreamChunk, TypeOK, HostTypes, configVars
  <2>7. DeviceTypes' /\ toHost' = toHost
    BY <1>6 DEF StreamChunk, TypeOK, DeviceTypes, devVars, tableVars
  <2> QED
    BY <2>5, <2>6, <2>7 DEF TypeOK, LinkTypes
<1>7. CASE RecvSector
  <2>1. left >= 1
    BY <1>7 DEF RecvSector, StepInv
  <2>2. /\ left' = left - 1 /\ hpc' \in {hpc, "final"} /\ resp' \in {resp, "none"}
        /\ answer' \in {answer, NoExchange}
    BY <1>7 DEF RecvSector, Read
  <2>3. HostTypes'
    BY <1>7, <2>1, <2>2, StepNames DEF RecvSector, TypeOK, HostTypes, configVars
  <2>4. toHost' \in Seq(Msgs) /\ toDev' = toDev
    BY <1>7, HeadIsFirst DEF RecvSector, TypeOK, LinkTypes
  <2>5. DeviceTypes'
    BY <1>7 DEF RecvSector, TypeOK, DeviceTypes, tableVars
  <2> QED
    BY <2>3, <2>4, <2>5 DEF TypeOK, LinkTypes
<1>8. CASE TransferFails
  <2>1. late' \in Nat /\ (ToWrite("probe4096") \/ ToNext \/ ToEnd)
    <3>1. late' \in Nat
      BY <1>8 DEF TransferFails, StopsWaiting, TypeOK, DeviceTypes
    <3>2. CASE step \in Probes
      BY <1>8, <3>1, <3>2, NextProbeOutcome DEF TransferFails
    <3>3. CASE step \notin Probes
      BY <1>8, <3>1, <3>3 DEF TransferFails, ToEnd
    <3> QED
      BY <3>1, <3>2, <3>3
  <2>2. /\ opi' \in Nat \ {0} /\ off' \in Nat /\ step' \in AllSteps /\ tries' \in Nat
        /\ hpc' \in {"op", "write", "end"} /\ result' \in {"none", "ok", "failed"}
    BY <2>1, StepNames DEF TypeOK, HostTypes, ToWrite, Write, ToNext, NextOp, ToEnd, Fail
  <2>3. HostTypes'
    BY <1>8, <2>2 DEF TransferFails, TypeOK, HostTypes
  <2> QED
    BY <1>8, <2>1, <2>3, HostAlone DEF TransferFails
<1> QED
  BY <1>3, <1>4, <1>5, <1>6, <1>7, <1>8

LEMMA HostTyped ==
  ASSUME TypeOK, StepInv, Host
  PROVE  TypeOK'
BY StartOpTyped, TransferTyped, OutcomesTyped, DataTyped, WhatConcludes DEF Host

LEMMA SayTyped ==
  ASSUME TypeOK, NEW re \in Exchanges, NEW ms \in Seq(Msgs), Say(re, ms) \/ SayRaw(re, ms)
  PROVE  toHost' \in Seq(Msgs)
BY Saying, ExtendsFacts DEF TypeOK, LinkTypes

LEMMA MessagesTyped ==
  ASSUME TypeOK, NEW re \in Exchanges, NEW v \in {"ACK", "NAK"}, NEW same \in BOOLEAN
  PROVE  /\ Reply(re, v) \in Msgs /\ RawReply(re) \in Msgs /\ SizedReply(re, v) \in Msgs
         /\ DigestLog(re, same) \in Msgs /\ Log("marker", re) \in Msgs
<1>1. dmax \in Nat
  BY DEF TypeOK, DeviceTypes
<1> QED
  BY <1>1, MessageFields

LEMMA PacketFacts ==
  ASSUME run \in Runs, NEW p \in Places, p.op \in DOMAIN ops
  PROVE  /\ ops[p.op].n \in Nat
         /\ p.begun => PacketAt(p) = Packet(p.op, "data", Lesser(HostPayload, ops[p.op].n - p.at))
         /\ p.begun => p.at + PacketAt(p).n \in Nat
<1>1. ops[p.op].n \in Nat /\ HostPayload \in Nat
  BY OpsFacts, PayloadAssumption
<1>2. p.at \in Nat /\ ops[p.op].n - p.at \in Int
  BY <1>1 DEF Places
<1>3. p.begun => PacketAt(p) = Packet(p.op, "data", Lesser(HostPayload, ops[p.op].n - p.at))
  BY DEF PacketAt
<1>4. p.at + Lesser(HostPayload, ops[p.op].n - p.at) \in Nat
  BY <1>1, <1>2 DEF Lesser
<1>5. p.begun => PacketAt(p).n = Lesser(HostPayload, ops[p.op].n - p.at)
  BY <1>3 DEF Packet
<1> QED
  BY <1>1, <1>3, <1>4, <1>5

LEMMA AfterTyped ==
  ASSUME run \in Runs, NEW p \in Places, p.op \in DOMAIN ops
  PROVE  After(p) \in Places
<1> DEFINE at == IF p.begun THEN p.at + PacketAt(p).n ELSE 0
<1>1. at \in Nat /\ p.op \in Nat
  BY PacketFacts DEF Places
<1>2. After(p) = [op |-> p.op, begun |-> TRUE, at |-> at] \/ After(p) = Position(p.op + 1)
  BY DEF After
<1> HIDE DEF at
<1>3. Position(p.op + 1) \in Places
  BY <1>1 DEF Places, Position
<1>4. [op |-> p.op, begun |-> TRUE, at |-> at] \in Places
  BY <1>1 DEF Places
<1> QED
  BY <1>2, <1>3, <1>4

LEMMA VerifyTyped ==
  ASSUME TypeOK, NEW c, Verify(c)
  PROVE  dnext' \in Places /\ dwrong' \in BOOLEAN
<1>1. run \in Runs /\ dnext \in Places /\ dwrong \in BOOLEAN
  BY DEF TypeOK, HostTypes, DeviceTypes
<1>2. dnext.op \in DOMAIN ops => After(dnext) \in Places
  BY <1>1, AfterTyped
<1> QED
  BY <1>1, <1>2 DEF Verify

\* What the programmer says of a command.
LEMMA ObeySays ==
  ASSUME TypeOK, NEW c \in Commands, DevObey(c)
  PROVE  /\ toHost' \in Seq(Msgs)
         /\ dpc' \in {dpc, "in", "gone"} /\ dcmd' \in {dcmd, c} /\ dleft' \in {dleft, c.n}
         /\ daccepted' \in {daccepted, c.n} /\ dtable' \in BOOLEAN
<1>1. c.re \in Exchanges /\ c.n \in Nat
  BY DEF Commands
<1>2. /\ dpc' \in {dpc, "in", "gone"} /\ dcmd' \in {dcmd, c} /\ dleft' \in {dleft, c.n}
      /\ daccepted' \in {daccepted, c.n} /\ dtable' \in BOOLEAN
  BY DEF DevObey, TypeOK, DeviceTypes
<1>3. /\ Reply(c.re, "ACK") \in Msgs /\ RawReply(c.re) \in Msgs
      /\ SizedReply(c.re, IF c.n <= dmax THEN "ACK" ELSE "NAK") \in Msgs
      /\ DigestLog(c.re, Sectors(c) \subseteq flash) \in Msgs
  BY <1>1, MessagesTyped
<1>4. Transfer(c) \in Seq(Msgs)
  BY TransferShape DEF TypeOK, DeviceTypes
<1>5. \A m, d \in Msgs : <<m>> \in Seq(Msgs) /\ <<d, m>> \in Seq(Msgs)
  BY OneMessage, TwoMessages
<1>6. \E ms \in Seq(Msgs) : Say(c.re, ms) \/ SayRaw(c.re, ms)
  BY <1>3, <1>4, <1>5 DEF DevObey, AnswerTo
<1> QED
  BY <1>1, <1>2, <1>6, SayTyped

LEMMA DevStartTyped ==
  ASSUME TypeOK, DevStart
  PROVE  TypeOK'
<1>1. NoExchange \in Exchanges
  BY StepNames
<1>2. Log("marker", NoExchange) \in Msgs
  BY <1>1, MessagesTyped
<1>3. (IF dvip THEN <<Log("marker", NoExchange)>> ELSE <<>>) \in Seq(Msgs)
  BY <1>2, OneMessage, EmptySeq
<1>4. toHost' \in Seq(Msgs)
  BY <1>1, <1>3, SayTyped DEF DevStart
<1>5. HostTypes' /\ toDev' = toDev
  BY DEF DevStart, TypeOK, HostTypes, hostVars
<1>6. DeviceTypes'
  BY DEF DevStart, TypeOK, DeviceTypes, tableVars
<1> QED
  BY <1>4, <1>5, <1>6 DEF TypeOK, LinkTypes

\* What the programmer does to itself.
LEMMA CommandChoice ==
  ASSUME DevCommand
  PROVE  LET c == Head(toDev)
         IN \/ LocksOut(c) /\ UNCHANGED <<dpc, devRest, daccepted, dtable, flash, toHost, fails>>
            \/ /\ c.cmd = "data" /\ desync' = TRUE
               /\ UNCHANGED <<dpc, dcmd, dleft, dmax, daccepted, dvip, dtable, flash, toHost, fails>>
            \/ c.cmd # "data" /\ DevRefuse(c)
            \/ c.cmd # "data" /\ DevObey(c)
<1> DEFINE c == Head(toDev)
<1>1. CASE LocksOut(c)
  BY <1>1 DEF DevCommand
<1>2. CASE ~LocksOut(c) /\ c.cmd = "data"
  BY <1>2 DEF DevCommand
<1>3. CASE ~LocksOut(c) /\ c.cmd # "data"
  BY <1>3 DEF DevCommand
<1> QED
  BY <1>1, <1>2, <1>3

LEMMA DevCommandTyped ==
  ASSUME TypeOK, DevCommand
  PROVE  TypeOK'
<1> DEFINE c == Head(toDev)
<1>1. c \in Commands /\ Tail(toDev) \in Seq(Commands)
  BY HeadIsFirst DEF DevCommand, TypeOK, LinkTypes
<1>2. c.re \in Exchanges /\ c.n \in Nat
  BY <1>1 DEF Commands
<1>3. dnext' \in Places /\ dwrong' \in BOOLEAN
  BY VerifyTyped DEF DevCommand
<1>4. toDev' \in Seq(Commands)
  BY <1>1, EmptySeq DEF DevCommand
<1>5. HostTypes' /\ late' \in Nat /\ gone' \in Nat
  BY DEF DevCommand, TypeOK, HostTypes, hostVars, DeviceTypes
<1>6. /\ toHost' \in Seq(Msgs) /\ dpc' \in {"boot", "xml", "in", "gone"}
      /\ dcmd' \in Commands \cup {NoCommand} /\ dleft' \in Nat /\ dmax' = dmax /\ dvip' = dvip
      /\ daccepted' \in Nat /\ dtable' \in BOOLEAN /\ desync' \in BOOLEAN /\ fails' \in Nat
  <2>1. \/ UNCHANGED <<dpc, devRest, daccepted, dtable, flash, toHost, fails>>
        \/ /\ desync' = TRUE
           /\ UNCHANGED <<dpc, dcmd, dleft, dmax, daccepted, dvip, dtable, flash, toHost, fails>>
        \/ c.cmd # "data" /\ DevRefuse(c)
        \/ c.cmd # "data" /\ DevObey(c)
    BY CommandChoice
  <2> HIDE DEF c
  <2>2. CASE UNCHANGED <<dpc, devRest, daccepted, dtable, flash, toHost, fails>>
    BY <2>2 DEF devRest, TypeOK, DeviceTypes, LinkTypes
  <2>3. CASE /\ desync' = TRUE
             /\ UNCHANGED <<dpc, dcmd, dleft, dmax, daccepted, dvip, dtable, flash, toHost, fails>>
    BY <2>3 DEF TypeOK, DeviceTypes, LinkTypes
  <2>4. CASE DevRefuse(c)
    <3>1. Reply(c.re, "NAK") \in Msgs
      BY <1>2, MessagesTyped
    <3>2. <<Reply(c.re, "NAK")>> \in Seq(Msgs)
      BY <3>1, OneMessage
    <3>3. toHost' \in Seq(Msgs)
      BY <1>2, <2>4, <3>2, SayTyped DEF DevRefuse
    <3> QED
      BY <2>4, <3>3 DEF DevRefuse, MayFail, devRest, TypeOK, DeviceTypes
  <2>5. CASE DevObey(c)
    <3>1. UNCHANGED <<dmax, dvip, desync, fails>>
      BY <2>5 DEF DevObey
    <3>2. /\ toHost' \in Seq(Msgs)
          /\ dpc' \in {dpc, "in", "gone"} /\ dcmd' \in {dcmd, c} /\ dleft' \in {dleft, c.n}
          /\ daccepted' \in {daccepted, c.n} /\ dtable' \in BOOLEAN
      BY <1>1, <2>5, ObeySays DEF c
    <3> QED
      BY <1>1, <1>2, <3>1, <3>2 DEF TypeOK, DeviceTypes, c
  <2> QED
    BY <2>1, <2>2, <2>3, <2>4, <2>5
<1> QED
  BY <1>3, <1>4, <1>5, <1>6 DEF TypeOK, LinkTypes, DeviceTypes

LEMMA DevDataTyped ==
  ASSUME TypeOK, Given, DevData
  PROVE  TypeOK'
<1> DEFINE c == Head(toDev)
<1>1. c \in Commands /\ Tail(toDev) \in Seq(Commands)
  BY HeadIsFirst DEF DevData, TypeOK, LinkTypes
<1>2. c.n \in Nat /\ dcmd.re \in Exchanges
  BY <1>1 DEF Commands, DevData, Given
<1>3. dnext' \in Places /\ dwrong' \in BOOLEAN
  BY VerifyTyped DEF DevData
<1>4. toDev' \in Seq(Commands)
  BY <1>1 DEF DevData
<1>5. HostTypes' /\ UNCHANGED <<dcmd, dmax, daccepted, dvip, dtable, late, gone>>
  BY DEF DevData, TypeOK, HostTypes, hostVars
<1>6. \A x \in Nat : Lesser(x, dleft) \in Nat /\ Lesser(x, dleft) <= dleft
  BY LesserFacts DEF TypeOK, DeviceTypes
<1>7. dleft' \in Nat
  <2>1. dleft' = dleft - Lesser(c.n, dleft)
    BY DEF DevData
  <2> QED
    BY <1>2, <1>6, <2>1 DEF TypeOK, DeviceTypes
<1>8. Reply(dcmd.re, "ACK") \in Msgs /\ Reply(dcmd.re, "NAK") \in Msgs
  BY <1>2, MessagesTyped
<1>9. <<Reply(dcmd.re, "ACK")>> \in Seq(Msgs) /\ <<Reply(dcmd.re, "NAK")>> \in Seq(Msgs)
  BY <1>8, OneMessage
<1>10. /\ toHost' = toHost \/ Say(dcmd.re, <<Reply(dcmd.re, "ACK")>>)
                           \/ Say(dcmd.re, <<Reply(dcmd.re, "NAK")>>)
       /\ dpc' \in {dpc, "xml"} /\ desync' \in BOOLEAN /\ fails' \in {fails, fails + 1}
  BY DEF DevData, MayFail, TypeOK, DeviceTypes
<1>11. toHost' \in Seq(Msgs)
  BY <1>2, <1>9, <1>10, SayTyped DEF TypeOK, LinkTypes
<1> QED
  BY <1>3, <1>4, <1>5, <1>7, <1>10, <1>11 DEF TypeOK, LinkTypes, DeviceTypes

LEMMA DevGoneTyped ==
  ASSUME TypeOK, DevGone
  PROVE  TypeOK'
<1>1. HostTypes'
  BY DEF DevGone, TypeOK, HostTypes, hostVars
<1>2. DeviceTypes'
  BY DEF DevGone, TypeOK, DeviceTypes, tableVars
<1>3. LinkTypes'
  BY EmptySeq DEF DevGone, TypeOK, LinkTypes
<1> QED
  BY <1>1, <1>2, <1>3 DEF TypeOK

\* The host does not touch the programmer.
LEMMA HostFrame ==
  ASSUME Host
  PROVE  /\ UNCHANGED <<run, dpc, dcmd, dleft, dmax, daccepted, dvip, dtable, flash, fails, gone>>
         /\ late' = late \/ (late' = late + 1 /\ late < run.late)
<1> DEFINE Goal == /\ UNCHANGED <<run, dpc, dcmd, dleft, dmax, daccepted, dvip, dtable, flash,
                                  fails, gone>>
                   /\ late' = late \/ (late' = late + 1 /\ late < run.late)
<1>1. UNCHANGED <<run, devVars, late, fails, gone>> => Goal
  BY DEF devVars, tableVars
<1>2. Frame => Goal
  BY <1>1 DEF Frame, exchangeRest
<1>3. StartOp \/ WriteCommand \/ WriteTimesOut \/ WriteFails \/ ReadMessage \/ ReadFails => Goal
  BY <1>1 DEF StartOp, WriteCommand, WriteTimesOut, WriteFails, ReadMessage, ReadFails
<1>4. ReadTimesOut => Goal
  BY DEF ReadTimesOut, StopsWaiting, devVars, tableVars
<1>5. AfterStartup \/ AfterTable \/ AfterConfigure \/ AfterReconfigure \/ ProbeDone \/ AfterDigest
        => Frame
  BY AfterStartupOutcome, AfterTableOutcome, AfterConfigureOutcome, AfterReconfigureOutcome,
     ProbeDoneOutcome, AfterDigestOutcome DEF Plain
<1>6. Concludes => Frame
  BY ConcludingOutcome DEF Plain, Concludes
<1>7. AfterProbe \/ ProgramSetup \/ ReadSetup \/ AfterReset => Goal
  BY <1>1 DEF AfterProbe, ProgramSetup, ReadSetup, SetUp, AfterReset, exchangeRest
<1>8. StreamChunk => Goal
  BY <1>1 DEF StreamChunk
<1>9. RecvSector => Goal
  BY DEF RecvSector, tableVars
<1>10. TransferFails => Goal
  BY DEF TransferFails, StopsWaiting, devVars, tableVars
<1> QED
  BY <1>2, <1>3, <1>4, <1>5, <1>6, <1>7, <1>8, <1>9, <1>10, WhatConcludes DEF Host

LEMMA GivenKept ==
  ASSUME TypeOK, Given, Host \/ Device \/ DevGone
  PROVE  Given'
<1>1. CASE Host
  BY <1>1, HostFrame DEF Given
<1>2. CASE DevStart
  BY <1>2 DEF DevStart, Given
<1>3. CASE DevCommand
  <2>1. Head(toDev) \in Commands
    BY <1>3, HeadIsFirst DEF DevCommand, TypeOK, LinkTypes
  <2>2. dpc = "xml"
    BY <1>3 DEF DevCommand
  <2>3. dpc' = dpc \/ DevObey(Head(toDev))
    BY <1>3, CommandChoice DEF DevRefuse
  <2>4. ASSUME NEW c \in Commands, DevObey(c), dpc' = "in"  PROVE  dcmd' \in Commands
    BY <2>2, <2>4 DEF DevObey
  <2> QED
    BY <2>1, <2>2, <2>3, <2>4 DEF Given
<1>4. CASE DevData
  BY <1>4 DEF DevData, Given
<1>5. CASE DevGone
  BY <1>5 DEF DevGone, Given
<1> QED
  BY <1>1, <1>2, <1>3, <1>4, <1>5 DEF Device

-----------------------------------------------------------------------------
(* Where the host may be.                                                  *)

\* Late answers are counted.
LEMMA LateKept ==
  ASSUME TypeOK, StepInv, Host
  PROVE  late' <= run'.late
<1>1. late \in Nat /\ run.late \in Nat /\ late <= run.late
  BY OpsFacts DEF TypeOK, HostTypes, DeviceTypes, StepInv
<1> QED
  BY <1>1, HostFrame

LEMMA EndKeeps ==
  ASSUME hpc' = "end", result' \in {"ok", "failed"}, late' <= run'.late
  PROVE  StepInv'
BY DEF StepInv

LEMMA NextKeeps ==
  ASSUME hpc' = "op", off' = 0, result' = "none", late' <= run'.late
  PROVE  StepInv'
BY DEF StepInv

LEMMA WriteKeeps ==
  ASSUME hpc' = "write", result' = "none", late' <= run'.late, Purpose', off' = 0 \/ Further',
         step' \notin {"startup", "resetting", "refused"}, step' = "reconfigure" => rsize' > 0
  PROVE  StepInv'
BY DEF StepInv

\* What the exchange in progress says of the operation in progress.
LEMMA WhatFor ==
  ASSUME TypeOK, Purpose
  PROVE  /\ opi \in DOMAIN ops /\ opi <= Len(ops) /\ step # "none" /\ step \in Steps
         /\ step \in {"erase", "patch", "bootable", "reset", "resetting", "refused", "read"}
              => Op.type # "program" /\ ~SkipblockEnabled
         /\ step \in Configuring \cup Probes => Op.type = "configure" /\ ~SkipblockEnabled
<1>1. opi \in DOMAIN ops /\ DOMAIN ops = 1 .. Len(ops) /\ Len(ops) \in Nat
  BY OpsFacts DEF TypeOK, HostTypes, Purpose
<1>2. step # "none" /\ step \in Steps
  BY DEF Purpose, TypeOK, HostTypes, AllSteps
<1>3. step \in {"erase", "patch", "bootable", "reset", "resetting", "refused", "read"}
        => Op.type # "program" /\ ~SkipblockEnabled
  BY DEF Purpose, SkipblockEnabled, OneCommand
<1>4. step \in Configuring \cup Probes => Op.type = "configure" /\ ~SkipblockEnabled
  BY DEF Purpose, SkipblockEnabled
<1> QED
  BY <1>1, <1>2, <1>3, <1>4

\* The outcomes of an exchange.
LEMMA OutcomeKeeps ==
  ASSUME TypeOK, StepInv, hpc \notin {"op", "end"}, run' = run, late' <= run'.late,
         \/ ToNext \/ ToEnd \/ (ToRegion /\ vip' = vip)
         \/ /\ step \in Configuring \cup Probes /\ rsize' = rsize
            /\ \E s \in (Configuring \ {"startup"}) \cup Probes :
                 ToWrite(s) /\ (s = "reconfigure" => rsize > 0)
  PROVE  StepInv'
<1>1. Purpose /\ result = "none"
  BY DEF StepInv
<1>2. CASE ToNext
  BY <1>1, <1>2, NextKeeps DEF ToNext, NextOp
<1>3. CASE ToEnd
  BY <1>3, EndKeeps DEF ToEnd, Fail
<1>4. CASE ToRegion /\ vip' = vip
  <2>1. Op' = Op /\ opi' = opi /\ ops' = ops /\ (SkipblockEnabled' <=> SkipblockEnabled)
    BY <1>4 DEF ToRegion, Op, ops, SkipblockEnabled
  <2>2. Purpose' /\ Further'
    BY <1>1, <1>4, <2>1 DEF ToRegion, Write, Purpose, Further, Configuring, Probes, OneCommand
  <2> QED
    BY <1>1, <1>4, <2>2, WriteKeeps DEF ToRegion, Write
<1>5. CASE /\ step \in Configuring \cup Probes /\ rsize' = rsize
           /\ \E s \in (Configuring \ {"startup"}) \cup Probes :
                ToWrite(s) /\ (s = "reconfigure" => rsize > 0)
  <2>1. Op.type = "configure" /\ opi \in DOMAIN ops /\ ~SkipblockEnabled
    BY <1>1, <1>5, WhatFor
  <2>2. PICK s \in (Configuring \ {"startup"}) \cup Probes :
          ToWrite(s) /\ (s = "reconfigure" => rsize > 0)
    BY <1>5
  <2>3. Op' = Op /\ opi' = opi /\ ops' = ops /\ off' = off /\ step' = s
    BY <2>2 DEF ToWrite, Write, Op, ops
  <2>4. s \notin {"none", "digest", "resetting", "refused", "startup"} \cup OneCommand
    BY DEF Configuring, Probes, OneCommand
  <2>5. Purpose'
    BY <2>1, <2>3, <2>4 DEF Purpose
  <2>6. off = 0
    BY <2>1 DEF StepInv, Further
  <2> QED
    BY <1>1, <1>5, <2>2, <2>3, <2>4, <2>5, <2>6, WriteKeeps DEF ToWrite, Write
<1> QED
  BY <1>2, <1>3, <1>4, <1>5

\* Nothing that the exchange is about changes.
LEMMA PurposeStays ==
  ASSUME Purpose, UNCHANGED <<run, opi, step, off>>,
         vip' = vip \/ step \in Configuring
  PROVE  /\ Purpose' /\ Op' = Op /\ ops' = ops
         /\ vip' = vip => (SkipblockEnabled' <=> SkipblockEnabled) /\ RegionSectors' = RegionSectors
<1>1. Op' = Op /\ ops' = ops
  BY DEF Op, ops
<1>2. vip' = vip => (SkipblockEnabled' <=> SkipblockEnabled)
  BY <1>1 DEF SkipblockEnabled
<1>3. vip' = vip => RegionSectors' = RegionSectors
  BY <1>1, <1>2 DEF RegionSectors
<1>4. Purpose'
  <2>1. CASE vip' = vip
    BY <1>1, <1>2, <2>1 DEF Purpose, Configuring, Probes, OneCommand
  <2>2. CASE step \in Configuring
    <3>1. step' = step /\ step \notin {"none", "digest", "resetting", "refused"} \cup OneCommand
      BY <2>2 DEF Configuring, OneCommand
    <3>2. Op.type = "configure" /\ opi \in DOMAIN ops /\ opi' = opi
      BY <2>2 DEF Purpose
    <3> QED
      BY <1>1, <3>1, <3>2 DEF Purpose, OneCommand
  <2> QED
    BY <2>1, <2>2
<1> QED
  BY <1>1, <1>2, <1>3, <1>4

LEMMA StartOpKeeps ==
  ASSUME TypeOK, StepInv, StartOp
  PROVE  StepInv'
<1>1. /\ hpc = "op" /\ off = 0 /\ result = "none" /\ off' = 0 /\ run' = run /\ opi' = opi
      /\ vip' = vip /\ ops' = ops /\ Op' = Op /\ (SkipblockEnabled' <=> SkipblockEnabled)
      /\ late' <= run'.late
  BY DEF StartOp, StepInv, Further, ops, Op, SkipblockEnabled
<1>2. CASE opi > Len(ops)
  <2>1. hpc' = "end" /\ result' = "ok"
    BY <1>2, OpsFacts DEF StartOp, TypeOK, HostTypes
  <2> QED
    BY <1>1, <2>1, EndKeeps
<1>3. CASE opi <= Len(ops)
  <2>1. opi \in DOMAIN ops /\ result' = "none"
    BY <1>1, <1>3, OpsFacts DEF StartOp, TypeOK, HostTypes
  <2>2. Op.type \in {"configure", "program", "read", "erase", "patch", "bootable", "reset"}
    BY <2>1, OpsFacts DEF Op, TypeOK, HostTypes
  <2>3. CASE Op.type = "configure" /\ vip # "DISABLED"
    <3>1. hpc' = "read" /\ step' = "startup" /\ resp' = "none"
      BY <1>1, <1>3, <2>1, <2>3 DEF StartOp, Read
    <3>2. Purpose'
      BY <1>1, <2>1, <2>3, <3>1 DEF Purpose, OneCommand, Probes
    <3> QED
      BY <1>1, <2>1, <3>1, <3>2 DEF StepInv, RawSteps, Probes
  <2>4. CASE Op.type = "configure" /\ vip = "DISABLED"
    <3>1. hpc' = "write" /\ step' = "configure"
      BY <1>1, <1>3, <2>1, <2>4 DEF StartOp, Write
    <3>2. Purpose'
      BY <1>1, <2>1, <2>4, <3>1 DEF Purpose, OneCommand, Probes
    <3> QED
      BY <1>1, <2>1, <3>1, <3>2, WriteKeeps
  <2>5. CASE Op.type # "configure"
    <3>1. hpc' = "write" /\ step' = IF SkipblockEnabled THEN "digest" ELSE Op.type
      BY <1>1, <1>3, <2>1, <2>5 DEF StartOp, Write
    <3>2. Purpose'
      BY <1>1, <2>1, <2>2, <2>5, <3>1 DEF Purpose, OneCommand, Probes, Configuring
    <3>3. step' \notin {"startup", "resetting", "refused", "reconfigure"}
      BY <2>2, <3>1
    <3> QED
      BY <1>1, <2>1, <3>1, <3>2, <3>3, WriteKeeps
  <2> QED
    BY <2>3, <2>4, <2>5
<1> QED
  BY <1>2, <1>3, OpsFacts DEF TypeOK, HostTypes

LEMMA WriteStepsKeep ==
  ASSUME TypeOK, StepInv, WriteCommand \/ WriteTimesOut \/ WriteFails
  PROVE  StepInv'
<1>1. /\ hpc = "write" /\ Purpose /\ result = "none" /\ run' = run /\ rsize' = rsize
      /\ step \notin {"resetting", "refused", "startup"} /\ step \in Steps
      /\ off = 0 \/ Further
      /\ late' <= run'.late
      /\ step = "reconfigure" => rsize > 0
  <2>1. hpc = "write" /\ run' = run /\ late' = late /\ rsize' = rsize
    BY DEF WriteCommand, WriteTimesOut, WriteFails
  <2> QED
    BY <2>1, WhatFor DEF StepInv
<1>2. ASSUME /\ UNCHANGED <<opi, step, off, result>> /\ hpc' \in {"read", "drain", "after"}
             /\ vip' = vip \/ step = "table"
             /\ hpc' \in {"read", "after"} => resp' # "ACK"
      PROVE  StepInv'
  <2>1. Purpose' /\ Op' = Op /\ (vip' = vip => (SkipblockEnabled' <=> SkipblockEnabled))
    BY <1>1, <1>2, PurposeStays DEF Configuring
  <2>2. off' = 0 \/ Further'
    <3>1. CASE off = 0
      BY <1>2, <3>1
    <3>2. CASE Further
      <4>1. step \in {"digest", "program"} /\ vip' = vip
        BY <1>2, <3>2 DEF Further
      <4> QED
        BY <1>2, <2>1, <3>2, <4>1 DEF Further
    <3> QED
      BY <1>1, <3>1, <3>2
  <2> QED
    BY <1>1, <1>2, <2>1, <2>2 DEF StepInv
<1>3. CASE WriteCommand
  <2>1. /\ UNCHANGED <<opi, step, off, result>> /\ hpc' = "read" /\ resp' = "none"
        /\ vip' = vip \/ step = "table"
    BY <1>3 DEF WriteCommand, Read
  <2> QED
    BY <1>2, <2>1
<1>4. CASE WriteTimesOut
  <2>1. UNCHANGED <<opi, step, off, result, vip>> /\ hpc' = "drain"
    BY <1>4 DEF WriteTimesOut, Read, configVars
  <2> QED
    BY <1>2, <2>1
<1>5. CASE WriteFails
  <2>0. vip' = vip
    BY <1>5 DEF WriteFails
  <2>1. CASE step \in {"configure", "reconfigure"}
    <3>1. UNCHANGED <<opi, step, off, result>> /\ hpc' = "read" /\ resp' = "none"
      BY <1>5, <2>1 DEF WriteFails, Read, Probes
    <3> QED
      BY <1>2, <2>0, <3>1
  <2>2. CASE step = "table"
    <3>1. UNCHANGED <<opi, off, result>> /\ hpc' = "read" /\ resp' = "none" /\ step' = "configure"
      BY <1>5, <2>2 DEF WriteFails, Read, Probes
    <3>2. off = 0 /\ Op.type = "configure" /\ opi \in DOMAIN ops
      BY <1>1, <2>2, WhatFor DEF Further, Configuring
    <3>3. Purpose'
      BY <1>1, <3>1, <3>2 DEF Purpose, Op, ops, OneCommand
    <3> QED
      BY <1>1, <3>1, <3>2, <3>3 DEF StepInv
  <2>3. CASE step \in Probes \cup {"digest"}
    <3>1. UNCHANGED <<opi, step, off, result>> /\ hpc' = "after" /\ resp' = "EIO"
      BY <1>5, <2>3 DEF WriteFails, Probes
    <3> QED
      BY <1>2, <2>0, <3>1
  <2>4. CASE step = "bootable"
    <3>1. hpc' = "op" /\ off' = 0 /\ result' = "none"
      BY <1>1, <1>5, <2>4 DEF WriteFails, NextOp, Probes
    <3> QED
      BY <1>1, <3>1, NextKeeps
  <2>5. CASE step \notin {"configure", "reconfigure", "table", "bootable", "digest"} \cup Probes
    <3>1. hpc' = "end" /\ result' = "failed"
      BY <1>5, <2>5 DEF WriteFails, Fail, Probes
    <3> QED
      BY <1>1, <3>1, EndKeeps
  <2> QED
    BY <2>1, <2>2, <2>3, <2>4, <2>5
<1> QED
  BY <1>3, <1>4, <1>5

LEMMA ReadStepsKeep ==
  ASSUME TypeOK, StepInv, ReadMessage \/ ReadTimesOut \/ ReadFails
  PROVE  StepInv'
<1>1. /\ Reading /\ UNCHANGED <<run, opi, step, off, vip, result>>
      /\ hpc' = hpc \/ hpc' = ReturnTo
  BY DEF ReadMessage, ReadTimesOut, ReadFails, configVars
<1>2. Purpose /\ Purpose' /\ Op' = Op /\ (SkipblockEnabled' <=> SkipblockEnabled) /\ result = "none"
  BY <1>1, PurposeStays DEF StepInv, Reading
<1>3. /\ hpc = "drain" => hpc' \in {"drain", "write"}
      /\ hpc = "read" => hpc' \in {"read", "after"}
      /\ hpc = "final" => hpc' \in {"final", "done"}
      /\ hpc \in {"drain", "read", "final"}
  BY <1>1 DEF ReturnTo, Reading
<1>4. /\ step = "reconfigure" => rsize' > 0
      /\ hpc = "read" /\ step = "configure" /\ resp' = "ACK" => rsize' > 0
  <2>1. CASE ReadMessage
    <3> DEFINE m == Head(toHost)
    <3>1. CASE Accepts(m) /\ ConfigureReply
      BY <2>1, <3>1 DEF ReadMessage, Accepts, ConfigureReply, m
    <3>2. CASE Accepts(m) /\ ~ConfigureReply
      BY <1>3, <2>1, <3>2 DEF ReadMessage, ConfigureReply, StepInv, m
    <3>3. CASE ~Accepts(m)
      BY <1>3, <2>1, <3>3 DEF ReadMessage, StepInv, m
    <3> QED
      BY <3>1, <3>2, <3>3
  <2>2. CASE ReadTimesOut \/ ReadFails
    BY <1>3, <2>2 DEF ReadTimesOut, ReadFails, StepInv
  <2> QED
    BY <2>1, <2>2
<1>5. late' <= run'.late
  BY LateKept DEF Host
<1>6. off' = 0 \/ Further'
  BY <1>1, <1>2, <1>3 DEF StepInv, Further
<1>7. CASE hpc = "drain"
  BY <1>1, <1>2, <1>3, <1>4, <1>5, <1>6, <1>7 DEF StepInv
<1>8. CASE hpc = "read"
  BY <1>1, <1>2, <1>3, <1>4, <1>5, <1>6, <1>8 DEF StepInv
<1>9. CASE hpc = "final"
  BY <1>1, <1>2, <1>3, <1>4, <1>5, <1>6, <1>9 DEF StepInv
<1> QED
  BY <1>3, <1>7, <1>8, <1>9

LEMMA OutcomesKeep ==
  ASSUME TypeOK, StepInv, Host,
         \/ AfterStartup \/ AfterTable \/ AfterConfigure \/ AfterReconfigure
         \/ ProbeDone \/ AfterDigest \/ Concludes
  PROVE  StepInv'
<1>1. run' = run /\ late' <= run'.late
  BY HostFrame, LateKept
<1>2. Frame => rsize' = rsize
  BY DEF Frame, exchangeRest
<1>3. {"table", "configure", "reconfigure", "probe512", "probe4096"}
        \subseteq (Configuring \ {"startup"}) \cup Probes
  BY DEF Configuring, Probes
<1>4. CASE AfterStartup
  <2>1. hpc = "after" /\ step \in Configuring
    BY <1>4 DEF AfterStartup, Configuring
  <2> QED
    BY <1>1, <1>2, <1>3, <1>4, <2>1, AfterStartupOutcome, OutcomeKeeps
<1>5. CASE AfterTable
  <2>1. hpc = "after" /\ step = "table" /\ step \in Configuring
    BY <1>5 DEF AfterTable, Configuring
  <2>2. CASE ToWrite("configure")
    BY <1>1, <1>2, <1>3, <1>5, <2>1, <2>2, AfterTableOutcome, OutcomeKeeps
  <2>3. CASE Read("read") /\ step' = "configure" /\ UNCHANGED <<opi, off, tries, result>>
    <3>1. off = 0 /\ Op.type = "configure" /\ opi \in DOMAIN ops /\ result = "none"
      BY <2>1, WhatFor DEF Further, StepInv
    <3>2. Purpose' /\ hpc' = "read" /\ resp' = "none"
      BY <1>1, <2>3, <3>1 DEF Purpose, Op, ops, OneCommand, Read
    <3> QED
      BY <1>1, <2>3, <3>1, <3>2 DEF StepInv
  <2> QED
    BY <1>5, <2>2, <2>3, AfterTableOutcome
<1>6. CASE AfterConfigure
  <2>1. hpc = "after" /\ step = "configure" /\ step \in Configuring /\ (resp = "ACK" => rsize > 0)
    BY <1>6 DEF AfterConfigure, Configuring, StepInv
  <2> QED
    BY <1>1, <1>2, <1>3, <1>6, <2>1, AfterConfigureOutcome, OutcomeKeeps DEF Plain
<1>7. CASE AfterReconfigure
  <2>1. hpc = "after" /\ step \in Configuring
    BY <1>7 DEF AfterReconfigure, Configuring
  <2> QED
    BY <1>1, <1>2, <1>3, <1>7, <2>1, AfterReconfigureOutcome, OutcomeKeeps
<1>8. CASE ProbeDone
  <2>1. hpc = "done" /\ step \in Probes
    BY <1>8 DEF ProbeDone
  <2> QED
    BY <1>1, <1>2, <1>3, <1>8, <2>1, ProbeDoneOutcome, OutcomeKeeps
<1>9. CASE AfterDigest
  <2>1. hpc = "after" /\ step = "digest" /\ Purpose /\ result = "none"
    BY <1>9 DEF AfterDigest, StepInv
  <2>2. CASE ToWrite("program")
    <3>1. /\ vip' = vip /\ opi' = opi /\ off' = off /\ step' = "program" /\ hpc' = "write"
          /\ result' = result
      BY <1>9, <2>2, AfterDigestOutcome DEF Plain, ToWrite, Write
    <3>2. Op' = Op /\ ops' = ops /\ (SkipblockEnabled' <=> SkipblockEnabled)
      BY <1>1, <3>1 DEF Op, ops, SkipblockEnabled
    <3>3. SkipblockEnabled /\ Op.type = "program" /\ opi \in DOMAIN ops
      BY <2>1 DEF Purpose, SkipblockEnabled
    <3>4. Purpose'
      BY <3>1, <3>2, <3>3 DEF Purpose, Configuring, Probes, OneCommand
    <3>5. off' = 0 \/ Further'
      BY <2>1, <3>1, <3>2 DEF StepInv, Further
    <3> QED
      BY <1>1, <2>1, <3>1, <3>4, <3>5, WriteKeeps
  <2>3. CASE ~ToWrite("program")
    BY <1>1, <1>9, <2>1, <2>3, AfterDigestOutcome, OutcomeKeeps DEF Plain
  <2> QED
    BY <2>2, <2>3
<1>10. CASE Concludes
  <2>1. hpc \in {"after", "done"}
    BY <1>10 DEF Concludes, Concluding, ProgramDone, ReadDone, AfterErase, AfterPatch,
                 AfterBootable, ResetDone
  <2> QED
    BY <1>1, <1>10, <2>1, ConcludingOutcome, OutcomeKeeps DEF Plain, Concludes
<1> QED
  BY <1>4, <1>5, <1>6, <1>7, <1>8, <1>9, <1>10

LEMMA DataKeeps ==
  ASSUME TypeOK, StepInv, Host,
         \/ AfterProbe \/ ProgramSetup \/ ReadSetup \/ AfterReset
         \/ StreamChunk \/ RecvSector \/ TransferFails
  PROVE  StepInv'
<1>1. run' = run /\ late' <= run'.late
  BY HostFrame, LateKept
<1>2. "probe4096" \in (Configuring \ {"startup"}) \cup Probes
  BY DEF Probes
<1>3. ASSUME /\ hpc \in {"after", "stream", "recv"}
             /\ UNCHANGED <<opi, step, off, vip, result>> /\ step \in RawSteps
             /\ \/ hpc' = "stream" /\ step = "program" /\ left' >= 1
                \/ hpc' = "recv" /\ step # "program" /\ left' >= 1
                \/ hpc' = "final"
      PROVE  StepInv'
  <2>1. Purpose /\ result = "none" /\ (off = 0 \/ Further)
    BY <1>3 DEF StepInv
  <2>2. Purpose' /\ Op' = Op /\ (SkipblockEnabled' <=> SkipblockEnabled)
    BY <1>1, <1>3, <2>1, PurposeStays
  <2>3. off' = 0 \/ Further'
    BY <1>3, <2>1, <2>2 DEF Further
  <2>4. step # "reconfigure" /\ step \notin {"resetting", "refused"}
    BY <1>3 DEF RawSteps, Probes
  <2> QED
    BY <1>1, <1>3, <2>1, <2>2, <2>3, <2>4 DEF StepInv, RawSteps, Probes
<1>4. CASE AfterProbe
  <2>1. hpc = "after" /\ step \in Probes /\ step \in RawSteps /\ step # "program"
    BY <1>4 DEF AfterProbe, RawSteps, Probes
  <2>2. CASE resp = "ACK"
    <3>1. hpc' = "recv" /\ left' = 1 /\ UNCHANGED <<opi, step, off, vip, result>>
      BY <1>4, <2>2 DEF AfterProbe
    <3> QED
      BY <1>3, <2>1, <3>1
  <2>3. CASE resp # "ACK"
    <3>1. NextProbe /\ rsize' = rsize
      BY <1>4, <2>3 DEF AfterProbe, exchangeRest
    <3> QED
      BY <1>1, <1>2, <2>1, <3>1, NextProbeOutcome, OutcomeKeeps
  <2> QED
    BY <2>2, <2>3
<1>5. CASE ProgramSetup \/ ReadSetup
  <2>1. /\ hpc = "after" /\ step \in {"program", "read"} /\ UNCHANGED <<opi, step, off, vip>>
        /\ Purpose
    BY <1>5 DEF ProgramSetup, ReadSetup, SetUp, configVars, StepInv
  <2>2. CASE resp = "ACK"
    <3>1. /\ left' = RegionSectors /\ result' = result
          /\ \/ hpc' = "stream" /\ step = "program"
             \/ hpc' = "recv" /\ step = "read"
      BY <1>5, <2>2 DEF ProgramSetup, ReadSetup, SetUp
    <3>2. Op.type \in {"program", "read"} /\ opi \in DOMAIN ops
      BY <2>1 DEF Purpose, OneCommand
    <3>3. RegionSectors \in Nat /\ RegionSectors > 0
      BY <2>1, <3>2, RegionFacts DEF StepInv, TypeOK, HostTypes
    <3> QED
      BY <1>3, <2>1, <3>1, <3>3 DEF RawSteps
  <2>3. CASE resp # "ACK"
    <3>1. hpc' = "end" /\ result' = "failed"
      BY <1>5, <2>3 DEF ProgramSetup, ReadSetup, SetUp, Fail
    <3> QED
      BY <1>1, <3>1, EndKeeps
  <2> QED
    BY <2>2, <2>3
<1>6. CASE AfterReset
  <2>1. hpc = "after" /\ step = "reset" /\ Purpose /\ result = "none"
    BY <1>6 DEF AfterReset, StepInv
  <2>2. CASE resp \in {"ACK", "NAK"}
    <3>1. /\ hpc' = "final" /\ step' \in {"resetting", "refused"} /\ result' = result
          /\ UNCHANGED <<opi, off>>
      BY <1>6, <2>2 DEF AfterReset, Read
    <3>2. Op.type = "reset" /\ opi \in DOMAIN ops /\ off = 0
      BY <2>1 DEF Purpose, OneCommand, StepInv, Further
    <3>3. Purpose'
      BY <1>1, <3>1, <3>2 DEF Purpose, Op, ops, Configuring, Probes, OneCommand
    <3> QED
      BY <1>1, <2>1, <3>1, <3>2, <3>3 DEF StepInv
  <2>3. CASE resp \notin {"ACK", "NAK"}
    <3>1. hpc' = "end" /\ result' = "failed"
      BY <1>6, <2>3 DEF AfterReset, Fail
    <3> QED
      BY <1>1, <3>1, EndKeeps
  <2> QED
    BY <2>2, <2>3
<1>7. CASE StreamChunk
  <2>1. hpc = "stream" /\ step = "program" /\ left >= 1
    BY <1>7 DEF StreamChunk, StepInv
  <2>2. PICK n : n = Lesser(payload, left)
    OBVIOUS
  <2>3. n \in Nat /\ n <= left /\ left \in Nat
    BY <2>2, LesserFacts DEF TypeOK, HostTypes
  <2>4. /\ left' = left - n /\ UNCHANGED <<opi, step, off, vip, result>>
        /\ IF left = n THEN hpc' = "final" ELSE hpc' = hpc
    BY <1>7, <2>2 DEF StreamChunk, Read, configVars
  <2>5. hpc' = "final" \/ (hpc' = "stream" /\ left' >= 1)
    BY <2>1, <2>3, <2>4
  <2> QED
    BY <1>3, <2>1, <2>4, <2>5 DEF RawSteps
<1>8. CASE RecvSector
  <2>1. hpc = "recv" /\ step \in RawSteps \ {"program"} /\ left >= 1 /\ left \in Nat
    BY <1>8 DEF RecvSector, StepInv, TypeOK, HostTypes
  <2>2. /\ left' = left - 1 /\ UNCHANGED <<opi, step, off, vip, result>>
        /\ IF left = 1 THEN hpc' = "final" ELSE hpc' = hpc
    BY <1>8 DEF RecvSector, Read, configVars
  <2>3. hpc' = "final" \/ (hpc' = "recv" /\ left' >= 1)
    BY <2>1, <2>2
  <2> QED
    BY <1>3, <2>1, <2>2, <2>3
<1>9. CASE TransferFails
  <2>1. hpc \in {"stream", "recv"} /\ rsize' = rsize
    BY <1>9 DEF TransferFails
  <2>2. CASE step \in Probes
    <3>1. NextProbe
      BY <1>9, <2>2 DEF TransferFails
    <3> QED
      BY <1>1, <1>2, <2>1, <2>2, <3>1, NextProbeOutcome, OutcomeKeeps
  <2>3. CASE step \notin Probes
    <3>1. hpc' = "end" /\ result' = "failed"
      BY <1>9, <2>3 DEF TransferFails, Fail
    <3> QED
      BY <1>1, <3>1, EndKeeps
  <2> QED
    BY <2>2, <2>3
<1> QED
  BY <1>4, <1>5, <1>6, <1>7, <1>8, <1>9

LEMMA HostKeeps ==
  ASSUME TypeOK, StepInv, Host
  PROVE  StepInv'
BY StartOpKeeps, WriteStepsKeep, ReadStepsKeep, OutcomesKeep, DataKeeps, WhatConcludes DEF Host

LEMMA DeviceFrame ==
  ASSUME Device \/ DevGone
  PROVE  UNCHANGED <<hostVars, late>>
BY DEF Device, DevGone, DevStart, DevCommand, DevData

LEMMA StutterKeeps ==
  ASSUME StepInv, UNCHANGED <<hostVars, late>>
  PROVE  StepInv'
<1>1. UNCHANGED <<run, opi, hpc, step, off, resp, rsize, left, vip, result, late>>
  BY DEF hostVars
<1>2. ops' = ops /\ Op' = Op /\ (SkipblockEnabled' <=> SkipblockEnabled)
  BY <1>1 DEF ops, Op, SkipblockEnabled
<1>3. (Purpose' <=> Purpose) /\ (Further' <=> Further)
  BY <1>1, <1>2 DEF Purpose, Further, Configuring, Probes, OneCommand
<1> QED
  BY <1>1, <1>3 DEF StepInv, RawSteps, Probes

-----------------------------------------------------------------------------
(* Prompt answers: steps of the host while nothing is under way.           *)

Base == TypeOK /\ Given /\ StepInv

\* The host goes on, and nothing that counts is on its way.
OnItsOwn ==
  \/ hpc \in {"op", "write", "drain", "end"}
  \/ hpc \in {"read", "after"} /\ resp \in {"none", "TIMEDOUT", "EIO"}
       /\ (hpc = "read" => step # "digest")
  \/ hpc = "final" /\ step \in {"resetting", "refused"} /\ resp = "none"

LEMMA SpanJoin ==
  ASSUME NEW i, NEW a \in Nat, NEW b \in Nat
  PROVE  Span(i, 0, a + b) = Span(i, 0, a) \cup Span(i, a, a + b) /\ Span(i, 0, 0) = {}
<1>1. 0 .. a + b - 1 = (0 .. a - 1) \cup (a .. a + b - 1) /\ 0 .. 0 - 1 = {}
  OBVIOUS
<1> QED
  BY <1>1 DEF Span

LEMMA QuietMessages ==
  ASSUME NEW s, Quiet(s), NEW j \in 1 .. Len(s)
  PROVE  s[j].t # "resp" /\ ~IsEnd(s[j]) /\ IsLog(s[j])
BY DEF Quiet, IsLog, IsEnd

LEMMA DigestsStay ==
  ASSUME DigestsTrue, UNCHANGED <<run, flash, toHost>>
  PROVE  DigestsTrue'
BY DEF DigestsTrue, Claim, ops

LEMMA IdleMove ==
  ASSUME PromptInv, Idle, UNCHANGED <<run, devVars, toDev, toHost>>, OnItsOwn', SizeInv', Before'
  PROVE  PromptInv'
<1>1. UNCHANGED <<toDev, toHost, dpc, flash, desync, daccepted, dmax>>
  BY DEF devVars
<1>2. Idle'
  BY <1>1 DEF Idle
<1>3. Flow'
  <2>1. CASE hpc' \in {"op", "write", "drain", "end"}
    BY <1>2, <2>1 DEF Flow
  <2>2. CASE hpc' = "read" /\ resp' \in {"none", "TIMEDOUT", "EIO"}
    <3>1. \A j \in 1 .. Len(toHost') : ~IsEnd(toHost'[j])
      BY <1>1, QuietMessages DEF Idle
    <3>2. Waiting'
      BY <1>2, <2>2, <3>1 DEF Waiting, Settled, Idle
    <3> QED
      BY <1>2, <2>2, <3>2 DEF Flow
  <2>3. CASE hpc' = "after" /\ resp' \in {"none", "TIMEDOUT", "EIO"}
    BY <1>2, <2>3 DEF Flow, Returned
  <2>4. CASE hpc' = "final" /\ step' \in {"resetting", "refused"}
    BY <1>2, <2>4 DEF Flow, Finishing, RawSteps, Probes
  <2> QED
    BY <2>1, <2>2, <2>3, <2>4 DEF OnItsOwn
<1>4. Replies'
  BY <1>1, QuietMessages DEF Replies, Idle
<1>5. Response'
  BY DEF Response, OnItsOwn
<1>6. DigestInv'
  <2>1. ~(step' = "digest" /\ digest' = "same" /\ (hpc' = "read" \/ (hpc' = "after" /\ resp' = "ACK")))
    BY DEF OnItsOwn
  <2> QED
    BY <1>1, <2>1, DigestsStay DEF DigestInv, PromptInv
<1> QED
  BY <1>1, <1>3, <1>4, <1>5, <1>6 DEF PromptInv

\* The outcomes of an exchange, from the payload size that was agreed to and
\* the region that is on the device.
LEMMA OutcomePrompt ==
  ASSUME Base, PromptInv, Idle, hpc \notin {"op", "end"},
         UNCHANGED <<run, rsize, devVars, toDev, toHost>>,
         \/ ToEnd
         \/ ToNext /\ payload' = daccepted
         \/ ToRegion /\ payload' = daccepted /\ Covered
         \/ \E s \in AllSteps : /\ ToWrite(s) /\ (s = "reconfigure" => rsize = dmax)
                                /\ (s \notin Configuring => payload' = daccepted)
  PROVE  PromptInv'
<1>1. UNCHANGED <<run, rsize, flash, daccepted, dmax>> /\ Before
  BY DEF devVars, PromptInv
<1>2. CASE ToEnd
  BY <1>2, IdleMove DEF ToEnd, Fail, OnItsOwn, SizeInv, Before
<1>3. CASE ToNext /\ payload' = daccepted
  BY <1>1, <1>3, IdleMove DEF ToNext, NextOp, OnItsOwn, SizeInv, Before
<1>4. CASE ToRegion /\ payload' = daccepted /\ Covered
  <2>1. SizeInv'
    BY <1>1, <1>4 DEF ToRegion, Write, SizeInv
  <2>2. RegionSectors = ChunkMax /\ ChunkMax \in Nat /\ off \in Nat
    <3>1. Purpose
      BY DEF Base, StepInv
    <3>2. Op.n \in Nat /\ off \in Nat
      BY <3>1, OpsFacts DEF Base, TypeOK, HostTypes, Purpose, Op
    <3> QED
      BY <1>4, <3>2, PayloadAssumption DEF ToRegion, RegionSectors, Lesser
  <2>3. Span(opi, 0, off) \subseteq flash /\ Span(opi, off, off + ChunkMax) \subseteq flash
    BY <1>1, <1>4, <2>2 DEF Before, Covered, Region
  <2>4. Span(opi, 0, off + ChunkMax) \subseteq flash
    BY <2>2, <2>3, SpanJoin
  <2>5. opi' = opi /\ off' = off + ChunkMax /\ flash' = flash
    BY <1>1, <1>4 DEF ToRegion
  <2>7. Span(opi', 0, off') \subseteq flash'
    BY <2>4, <2>5
  <2>8. Before'
    BY <2>7 DEF Before
  <2> QED
    BY <1>4, <2>1, <2>8, IdleMove DEF ToRegion, Write, OnItsOwn
<1>5. CASE \E s \in AllSteps : /\ ToWrite(s) /\ (s = "reconfigure" => rsize = dmax)
                               /\ (s \notin Configuring => payload' = daccepted)
  <2>1. SizeInv'
    BY <1>1, <1>5 DEF ToWrite, Write, SizeInv, Configuring
  <2>2. Before'
    BY <1>1, <1>5 DEF ToWrite, Write, Before
  <2> QED
    BY <1>5, <2>1, <2>2, IdleMove DEF ToWrite, Write, OnItsOwn
<1> QED
  BY <1>2, <1>3, <1>4, <1>5

LEMMA SizeKnown ==
  ASSUME PromptInv, hpc \notin {"op", "end"}, step \notin Configuring
  PROVE  payload = daccepted
BY DEF PromptInv, SizeInv

LEMMA StartOpPrompt ==
  ASSUME Base, PromptInv, StartOp
  PROVE  PromptInv'
<1>1. /\ hpc = "op" /\ off = 0 /\ Idle /\ UNCHANGED <<run, devVars, toDev, toHost>>
      /\ opi' = opi /\ off' = 0 /\ rsize' = rsize /\ payload' = payload
  BY DEF StartOp, Base, StepInv, Further, PromptInv, Flow
<1>2. UNCHANGED <<daccepted, dmax, flash>>
  BY <1>1 DEF devVars
<1>3. Before'
  BY <1>1, SpanJoin DEF Before
<1>4. opi = 1 \/ payload = daccepted
  BY <1>1 DEF PromptInv, SizeInv, Base, TypeOK, HostTypes
<1>5. CASE opi > Len(ops)
  <2>1. hpc' = "end"
    BY <1>5, OpsFacts DEF StartOp, Base, TypeOK, HostTypes
  <2>2. SizeInv'
    BY <2>1 DEF SizeInv
  <2> QED
    BY <1>1, <1>3, <2>1, <2>2, IdleMove DEF OnItsOwn
<1>6. CASE opi <= Len(ops)
  <2>1. opi = 1 => Op.type = "configure"
    BY OpsFacts DEF Op, Base, TypeOK, HostTypes
  <2>2. CASE Op.type = "configure"
    <3>1. /\ step' \in {"startup", "configure"}
          /\ hpc' = "write" \/ (hpc' = "read" /\ resp' = "none")
      BY <1>5, <1>6, <2>2, OpsFacts DEF StartOp, Read, Write, Base, TypeOK, HostTypes
    <3>2. SizeInv'
      BY <3>1 DEF SizeInv, Configuring
    <3> QED
      BY <1>1, <1>3, <3>1, <3>2, IdleMove DEF OnItsOwn
  <2>3. CASE Op.type # "configure"
    <3>1. hpc' = "write" /\ step' = IF SkipblockEnabled THEN "digest" ELSE Op.type
      BY <1>5, <1>6, <2>3, OpsFacts DEF StartOp, Read, Write, Base, TypeOK, HostTypes
    <3>2. step' # "reconfigure"
      <4>1. opi \in DOMAIN ops
        BY <1>6, OpsFacts DEF Base, TypeOK, HostTypes
      <4> QED
        BY <3>1, <4>1, OpsFacts DEF Op, Base, TypeOK, HostTypes
    <3>3. SizeInv'
      BY <1>1, <1>2, <1>4, <2>1, <2>3, <3>1, <3>2 DEF SizeInv
    <3> QED
      BY <1>1, <1>3, <3>1, <3>3, IdleMove DEF OnItsOwn
  <2> QED
    BY <2>2, <2>3
<1> QED
  BY <1>5, <1>6, OpsFacts DEF Base, TypeOK, HostTypes

\* The same exchange, for the same region.
LEMMA SameExchange ==
  ASSUME UNCHANGED <<run, opi, step, off, vip>>
  PROVE  /\ ops' = ops /\ Op' = Op /\ RegionSectors' = RegionSectors /\ Expected' = Expected
         /\ Region' = Region /\ \A s : Exchange(s)' = Exchange(s)
<1>1. ops' = ops /\ Op' = Op
  BY DEF ops, Op
<1>2. SkipblockEnabled' <=> SkipblockEnabled
  BY <1>1 DEF SkipblockEnabled
<1>3. RegionSectors' = RegionSectors
  BY <1>1, <1>2 DEF RegionSectors
<1>4. Expected' = Expected /\ Region' = Region
  BY <1>3 DEF Expected, Region, Probes
<1>5. \A s : Exchange(s)' = Exchange(s)
  BY DEF Exchange
<1> QED
  BY <1>1, <1>3, <1>4, <1>5

LEMMA WriteCommandPrompt ==
  ASSUME Base, PromptInv, WriteCommand
  PROVE  PromptInv'
<1>1. /\ hpc = "write" /\ Idle /\ dpc # "gone" /\ hpc' = "read" /\ resp' = "none"
      /\ UNCHANGED <<run, opi, step, off, rsize, payload, devVars, toHost>>
      /\ vip' = vip \/ step = "table"
      /\ step # "startup"
  BY DEF WriteCommand, Read, PromptInv, Flow, Base, StepInv
<1>2. UNCHANGED <<dpc, dmax, daccepted, flash, desync>>
  BY <1>1 DEF devVars
<1>3. toDev' = <<Command>>
  <2>1. Append(<<>>, Command) = <<Command>>
    OBVIOUS
  <2> QED
    BY <1>1, <2>1, WriteCommandIs DEF Idle
<1>4. Command' = Command
  <2>1. Exchange(step)' = Exchange(step)
    BY <1>1 DEF Exchange
  <2>2. CASE vip' = vip
    <3>1. RegionSectors' = RegionSectors
      BY <1>1, <2>2, SameExchange
    <3> QED
      BY <1>1, <2>1, <3>1 DEF Command
  <2>3. CASE step = "table"
    BY <1>1, <2>1, <2>3 DEF Command
  <2> QED
    BY <1>1, <2>2, <2>3
<1>5. Flow'
  <2>1. Waiting'
    <3>1. dpc' \in {"boot", "xml"} /\ Quiet(toHost')
      BY <1>1, <1>2 DEF Idle, Base, TypeOK, DeviceTypes
    <3> QED
      BY <1>1, <1>3, <1>4, <3>1 DEF Waiting
  <2> QED
    BY <1>1, <2>1 DEF Flow
<1>6. Replies'
  BY <1>1, QuietMessages DEF Replies, Idle
<1>7. Response'
  BY <1>1 DEF Response
<1>8. SizeInv'
  BY <1>1, <1>2 DEF SizeInv, PromptInv, Configuring
<1>9. Before'
  BY <1>1, <1>2 DEF Before, PromptInv
<1>10. DigestInv'
  <2>1. step' = "digest" => digest' = "none"
    BY <1>1 DEF WriteCommand
  <2> QED
    BY <1>1, <1>2, <2>1, DigestsStay DEF DigestInv, PromptInv
<1> QED
  BY <1>2, <1>5, <1>6, <1>7, <1>8, <1>9, <1>10 DEF PromptInv

LEMMA WriteStepsPrompt ==
  ASSUME Base, PromptInv, WriteTimesOut \/ WriteFails
  PROVE  PromptInv'
<1>1. /\ hpc = "write" /\ Idle /\ UNCHANGED <<run, rsize, payload, devVars, toDev, toHost>>
      /\ result = "none"
  BY DEF WriteTimesOut, WriteFails, configVars, PromptInv, Flow, Base, StepInv
<1>2. UNCHANGED <<dmax, daccepted, flash>>
  BY <1>1 DEF devVars
<1>3. ASSUME UNCHANGED <<opi, off>>, hpc' \in {"drain", "read", "after", "end"},
             step' = step \/ step' = "configure"
      PROVE  SizeInv' /\ Before'
  <2>1. SizeInv'
    BY <1>1, <1>2, <1>3 DEF SizeInv, PromptInv, Configuring
  <2>2. Before'
    BY <1>1, <1>2, <1>3 DEF Before, PromptInv
  <2> QED
    BY <2>1, <2>2
<1>4. CASE WriteTimesOut
  <2>1. UNCHANGED <<opi, off, step>> /\ hpc' = "drain"
    BY <1>4 DEF WriteTimesOut, Read
  <2> QED
    BY <1>1, <1>3, <2>1, IdleMove DEF OnItsOwn
<1>5. CASE WriteFails
  <2>1. CASE step \in {"configure", "reconfigure", "table"}
    <3>1. UNCHANGED <<opi, off>> /\ hpc' = "read" /\ resp' = "none"
      BY <1>5, <2>1 DEF WriteFails, Read, Probes
    <3>2. step' = step \/ step' = "configure"
      BY <1>5, <2>1 DEF WriteFails, Probes
    <3> QED
      BY <1>1, <1>3, <2>1, <3>1, <3>2, IdleMove DEF OnItsOwn
  <2>2. CASE step \in Probes \cup {"digest"}
    <3>1. UNCHANGED <<opi, off, step>> /\ hpc' = "after" /\ resp' = "EIO"
      BY <1>5, <2>2 DEF WriteFails, Probes
    <3> QED
      BY <1>1, <1>3, <3>1, IdleMove DEF OnItsOwn
  <2>3. CASE step = "bootable"
    <3>1. hpc' = "op"
      BY <1>5, <2>3 DEF WriteFails, NextOp, Probes
    <3>2. SizeInv' /\ Before'
      BY <1>1, <1>2, <2>3, <3>1, SizeKnown DEF SizeInv, Before, Configuring
    <3> QED
      BY <1>1, <3>1, <3>2, IdleMove DEF OnItsOwn
  <2>4. CASE step \notin {"configure", "reconfigure", "table", "bootable", "digest"} \cup Probes
    <3>1. UNCHANGED <<opi, off, step>> /\ hpc' = "end"
      BY <1>5, <2>4 DEF WriteFails, Fail, Probes
    <3> QED
      BY <1>1, <1>3, <3>1, IdleMove DEF OnItsOwn
  <2> QED
    BY <2>1, <2>2, <2>3, <2>4
<1> QED
  BY <1>4, <1>5

\* Between exchanges nothing is under way.
LEMMA WhenIdle ==
  ASSUME PromptInv
  PROVE  /\ hpc \in {"op", "write", "drain", "done", "end"} => Idle
         /\ hpc = "after" /\ (step \notin RawSteps \/ resp # "ACK") => Idle
BY DEF PromptInv, Flow, Returned

LEMMA ConfiguringPrompt ==
  ASSUME Base, PromptInv, AfterStartup \/ AfterTable \/ AfterConfigure \/ AfterReconfigure
  PROVE  PromptInv'
<1>1. hpc = "after" /\ step \in Configuring
  BY DEF AfterStartup, AfterTable, AfterConfigure, AfterReconfigure, Configuring
<1>2. Idle
  BY <1>1, WhenIdle DEF RawSteps, Probes, Configuring
<1>3. Frame => UNCHANGED <<run, rsize, devVars, toDev, toHost>>
  BY DEF Frame, exchangeRest
<1>4. {"table", "configure", "reconfigure", "probe512", "probe4096"} \subseteq AllSteps
      /\ {"table", "configure", "reconfigure"} \subseteq Configuring
  BY StepNames DEF Configuring
<1>5. step \in {"configure", "reconfigure"} /\ resp = "ACK" =>
        /\ rsize = dmax /\ dmax \in Nat /\ payload \in Nat
        /\ daccepted = rsize \/ (step = "configure" /\ rsize # payload)
  BY <1>1 DEF PromptInv, Response, Agreed, Base, TypeOK, HostTypes, DeviceTypes
<1>6. CASE AfterStartup
  BY <1>1, <1>2, <1>3, <1>4, <1>6, AfterStartupOutcome, OutcomePrompt
<1>7. CASE AfterTable
  <2>1. CASE ToWrite("configure")
    BY <1>1, <1>2, <1>3, <1>4, <1>7, <2>1, AfterTableOutcome, OutcomePrompt
  <2>2. CASE Read("read") /\ step' = "configure" /\ UNCHANGED <<opi, off, tries, result>>
    <3>1. UNCHANGED <<run, rsize, devVars, toDev, toHost>> /\ hpc' = "read" /\ resp' = "none"
      BY <1>3, <1>7, <2>2, AfterTableOutcome DEF Read
    <3>2. SizeInv'
      BY <2>2, <3>1 DEF SizeInv, Configuring
    <3>3. Before'
      BY <1>1, <2>2, <3>1 DEF Before, PromptInv, devVars
    <3> QED
      BY <1>2, <2>2, <3>1, <3>2, <3>3, IdleMove DEF OnItsOwn
  <2> QED
    BY <1>7, <2>1, <2>2, AfterTableOutcome
<1>8. CASE AfterConfigure
  <2>1. step = "configure"
    BY <1>8 DEF AfterConfigure
  <2>2. CASE resp = "ACK" /\ rsize # payload /\ ToWrite("reconfigure")
    BY <1>1, <1>2, <1>3, <1>4, <1>5, <1>8, <2>1, <2>2, AfterConfigureOutcome, OutcomePrompt DEF Plain
  <2>3. CASE resp = "ACK" /\ rsize = payload /\ (ToWrite("probe512") \/ ToNext)
    <3>1. payload' = daccepted
      BY <1>5, <1>8, <2>1, <2>3, AfterConfigureOutcome DEF Plain
    <3> QED
      BY <1>1, <1>2, <1>3, <1>4, <1>8, <2>3, <3>1, AfterConfigureOutcome, OutcomePrompt DEF Plain
  <2>4. CASE ToWrite("configure") \/ ToEnd
    BY <1>1, <1>2, <1>3, <1>4, <1>8, <2>4, AfterConfigureOutcome, OutcomePrompt DEF Plain
  <2> QED
    BY <1>8, <2>2, <2>3, <2>4, AfterConfigureOutcome
<1>9. CASE AfterReconfigure
  <2>1. step = "reconfigure"
    BY <1>9 DEF AfterReconfigure
  <2>2. CASE resp = "ACK" /\ payload' = rsize /\ (ToWrite("probe512") \/ ToNext \/ ToEnd)
    <3>1. payload' = daccepted
      BY <1>5, <2>1, <2>2
    <3> QED
      BY <1>1, <1>2, <1>3, <1>4, <1>9, <2>2, <3>1, AfterReconfigureOutcome, OutcomePrompt
  <2>3. CASE ToWrite("configure") \/ ToEnd
    BY <1>1, <1>2, <1>3, <1>4, <1>9, <2>3, AfterReconfigureOutcome, OutcomePrompt
  <2> QED
    BY <1>9, <2>2, <2>3, AfterReconfigureOutcome
<1> QED
  BY <1>6, <1>7, <1>8, <1>9

LEMMA ProbingPrompt ==
  ASSUME Base, PromptInv, ProbeDone
  PROVE  PromptInv'
<1>1. hpc = "done" /\ step \in Probes
  BY DEF ProbeDone
<1>2. Idle /\ payload = daccepted
  BY <1>1, WhenIdle, SizeKnown DEF Configuring, Probes
<1>3. Frame => UNCHANGED <<run, rsize, devVars, toDev, toHost>>
  BY DEF Frame, exchangeRest
<1> QED
  BY <1>1, <1>2, <1>3, StepNames, ProbeDoneOutcome, OutcomePrompt

\* A region is left behind only when it is on the device.
LEMMA RegionDone ==
  ASSUME Base, PromptInv,
         \/ AfterDigest /\ resp = "ACK" /\ digest = "same"
         \/ ProgramDone /\ resp = "ACK"
  PROVE  Covered
<1>1. CASE AfterDigest /\ resp = "ACK" /\ digest = "same"
  BY <1>1 DEF AfterDigest, PromptInv, DigestInv
<1>2. CASE ProgramDone /\ resp = "ACK"
  BY <1>2 DEF ProgramDone, PromptInv, Response
<1> QED
  BY <1>1, <1>2

LEMMA ConcludingPrompt ==
  ASSUME Base, PromptInv, AfterDigest \/ Concludes
  PROVE  PromptInv'
<1>1. /\ hpc \in {"after", "done"} /\ step \notin Configuring /\ (step \notin RawSteps \/ hpc = "done")
  BY DEF AfterDigest, Concludes, Concluding, ProgramDone, ReadDone, AfterErase, AfterPatch,
         AfterBootable, ResetDone, Configuring, RawSteps, Probes
<1>2. Idle /\ payload = daccepted
  BY <1>1, WhenIdle, SizeKnown
<1>3. Plain => UNCHANGED <<run, rsize, devVars, toDev, toHost>> /\ payload' = payload
  BY DEF Plain, Frame, exchangeRest
<1>4. CASE AfterDigest
  <2>1. CASE ToWrite("program")
    BY <1>1, <1>2, <1>3, <1>4, <2>1, StepNames, AfterDigestOutcome, OutcomePrompt
  <2>2. CASE resp = "ACK" /\ digest = "same" /\ (ToRegion \/ ToNext)
    BY <1>1, <1>2, <1>3, <1>4, <2>2, RegionDone, AfterDigestOutcome, OutcomePrompt
  <2> QED
    BY <1>4, <2>1, <2>2, AfterDigestOutcome
<1>5. CASE Concludes
  <2>1. PICK ok \in BOOLEAN : Concluding(ok)
    BY <1>5 DEF Concludes
  <2>2. CASE ok /\ ToRegion
    <3>1. Purpose /\ SkipblockEnabled
      BY <1>1, <2>2 DEF Base, StepInv, ToRegion
    <3>2. ProgramDone /\ resp = "ACK"
      <4>1. step \notin {"erase", "patch", "bootable", "reset", "resetting", "refused", "read"}
        BY <3>1, WhatFor DEF Base
      <4> QED
        BY <2>1, <2>2, <4>1 DEF Concluding, ReadDone, AfterErase, AfterPatch, AfterBootable, ResetDone
    <3> QED
      BY <1>1, <1>2, <1>3, <2>1, <2>2, <3>2, RegionDone, ConcludingOutcome, OutcomePrompt
  <2>3. CASE ToNext \/ ToEnd
    BY <1>1, <1>2, <1>3, <2>1, <2>3, ConcludingOutcome, OutcomePrompt
  <2> QED
    BY <2>1, <2>2, <2>3, ConcludingOutcome
<1> QED
  BY <1>4, <1>5

-----------------------------------------------------------------------------
(* Prompt answers: what the host reads and streams.                        *)

\* The exchange stays what it is; the host has at most read a message.
Continues ==
  /\ UNCHANGED <<run, opi, step, off, vip, payload, flash, dmax, daccepted>>
  /\ rsize' = rsize \/ step # "reconfigure"
  /\ toHost' = toHost \/ (toHost # <<>> /\ toHost' = Tail(toHost))

LEMMA StillTrue ==
  ASSUME Base, Continues, Replies, DigestsTrue
  PROVE  /\ Replies' /\ DigestsTrue'
         /\ step \in {"configure", "reconfigure"} => (Agreed' <=> Agreed)
         /\ (Covered' <=> Covered) /\ Exchange(step)' = Exchange(step)
<1>1. UNCHANGED <<run, opi, step, off, vip, payload, flash, dmax, daccepted>>
  BY DEF Continues
<1>2. (Covered' <=> Covered) /\ Exchange(step)' = Exchange(step)
  BY <1>1, SameExchange DEF Covered, Exchange
<1>3. step \in {"configure", "reconfigure"} => (Agreed' <=> Agreed)
  BY <1>1 DEF Continues, Agreed
<1>4. \A j \in 1 .. Len(toHost') : \E i \in 1 .. Len(toHost) : toHost'[j] = toHost[i]
  <2>1. CASE toHost' = toHost
    BY <2>1
  <2>2. CASE toHost # <<>> /\ toHost' = Tail(toHost)
    <3>1. /\ Len(toHost') = Len(toHost) - 1 /\ Len(toHost) \in Nat
          /\ \A j \in 1 .. Len(toHost') : toHost'[j] = toHost[j + 1]
      BY <2>2, HeadIsFirst DEF Base, TypeOK, LinkTypes
    <3>2. \A j \in 1 .. Len(toHost') : j + 1 \in 1 .. Len(toHost)
      BY <3>1
    <3> QED
      BY <3>1, <3>2
  <2> QED
    BY <2>1, <2>2 DEF Continues
<1>5. Replies'
  <2> SUFFICES ASSUME NEW j \in 1 .. Len(toHost'), toHost'[j].t = "resp"
               PROVE  /\ toHost'[j].re = Exchange(step)' /\ toHost'[j].v \in {"ACK", "NAK"}
                      /\ step' \in {"configure", "reconfigure"} =>
                           toHost'[j].size = dmax' /\ ~toHost'[j].raw /\ Agreed'
                      /\ toHost'[j].raw => toHost'[j].v = "ACK"
                      /\ toHost'[j].v = "ACK" /\ ~toHost'[j].raw
                           /\ step' \in {"program", "erase", "patch"} => Covered'
    BY DEF Replies
  <2>1. PICK i \in 1 .. Len(toHost) : toHost'[j] = toHost[i]
    BY <1>4
  <2> QED
    BY <1>1, <1>2, <1>3, <2>1 DEF Replies
<1>6. DigestsTrue'
  BY <1>1, <1>4 DEF DigestsTrue, Claim, ops
<1> QED
  BY <1>2, <1>3, <1>5, <1>6

LEMMA ContinuesPrompt ==
  ASSUME Base, PromptInv, Continues, hpc \notin {"op", "end"}, hpc' # "op", Flow', Response',
         ~desync',
         step = "digest" /\ digest' = "same" /\ (hpc' = "read" \/ (hpc' = "after" /\ resp' = "ACK"))
           => Covered
  PROVE  PromptInv'
<1>1. /\ UNCHANGED <<run, opi, step, off, vip, payload, flash, dmax, daccepted>>
      /\ rsize' = rsize \/ step # "reconfigure"
  BY DEF Continues
<1>2. Replies' /\ DigestsTrue' /\ (Covered' <=> Covered)
  BY StillTrue DEF PromptInv, DigestInv
<1>3. SizeInv' /\ Before'
  BY <1>1 DEF PromptInv, SizeInv, Before, Configuring
<1>4. DigestInv'
  BY <1>1, <1>2 DEF DigestInv
<1> QED
  BY <1>2, <1>3, <1>4 DEF PromptInv

\* Data follow.
LEMMA SetUpPrompt ==
  ASSUME Base, PromptInv, AfterProbe \/ ProgramSetup \/ ReadSetup
  PROVE  PromptInv'
<1>1. hpc = "after" /\ step \in RawSteps /\ UNCHANGED <<run, rsize, devVars, toDev, toHost>>
  BY DEF AfterProbe, ProgramSetup, ReadSetup, SetUp, RawSteps, exchangeRest
<1>2. UNCHANGED <<dpc, dcmd, dleft, dmax, daccepted, flash, desync, run, rsize>>
  BY <1>1 DEF devVars
<1>3. payload = daccepted
  BY <1>1, SizeKnown DEF Configuring, RawSteps, Probes
<1>4. CASE resp = "ACK"
  <2>1. UNCHANGED <<opi, step, off, vip, payload>>
    BY <1>4 DEF AfterProbe, ProgramSetup, ReadSetup, SetUp, configVars
  <2>2. Continues
    BY <1>1, <1>2, <2>1 DEF Continues
  <2>3. RegionSectors' = RegionSectors /\ Exchange("program")' = Exchange("program")
    BY <1>2, <2>1, SameExchange
  <2>4. /\ step = "program" => toHost = <<>> /\ toDev = <<>> /\ Taking(RegionSectors)
        /\ step # "program" => Receiving(Expected)
    BY <1>1, <1>4 DEF PromptInv, Flow, Returned
  <2>5. CASE step = "program"
    <3>1. hpc' = "stream" /\ left' = RegionSectors
      BY <1>4, <2>5 DEF AfterProbe, ProgramSetup, ReadSetup, SetUp, Probes
    <3>2. toHost' = <<>> /\ Taking(left)'
      BY <1>1, <1>2, <2>3, <2>4, <2>5, <3>1 DEF Taking
    <3>3. Flow' /\ Response'
      BY <3>1, <3>2 DEF Flow, Response
    <3> QED
      BY <1>1, <1>2, <2>2, <2>5, <3>1, <3>3, ContinuesPrompt DEF PromptInv
  <2>6. CASE step # "program"
    <3>1. hpc' = "recv" /\ left' = Expected
      BY <1>4, <2>6 DEF AfterProbe, ProgramSetup, ReadSetup, SetUp, Probes, Expected
    <3>2. Receiving(left)'
      BY <1>1, <1>2, <2>4, <2>6, <3>1 DEF Receiving
    <3>3. Flow' /\ Response'
      BY <3>1, <3>2 DEF Flow, Response
    <3> QED
      BY <1>1, <1>2, <2>2, <3>1, <3>3, ContinuesPrompt DEF PromptInv
  <2> QED
    BY <2>5, <2>6
<1>5. CASE resp # "ACK"
  <2>1. Idle
    BY <1>1, <1>5, WhenIdle
  <2>2. \/ ToEnd
        \/ (ToWrite("probe4096") \/ ToNext) /\ payload' = payload
    <3>1. CASE AfterProbe
      <4>1. NextProbe /\ payload' = payload
        BY <1>5, <3>1 DEF AfterProbe
      <4> QED
        BY <4>1, NextProbeOutcome
    <3>2. CASE ProgramSetup \/ ReadSetup
      BY <1>5, <3>2 DEF ProgramSetup, ReadSetup, SetUp, ToEnd, configVars
    <3> QED
      BY <3>1, <3>2
  <2> QED
    BY <1>1, <1>3, <2>1, <2>2, StepNames, OutcomePrompt
<1> QED
  BY <1>4, <1>5

LEMMA AfterResetPrompt ==
  ASSUME Base, PromptInv, AfterReset
  PROVE  PromptInv'
<1>1. /\ hpc = "after" /\ step = "reset" /\ UNCHANGED <<run, rsize, devVars, toDev, toHost>>
      /\ UNCHANGED <<opi, off, payload>>
  BY DEF AfterReset, exchangeRest, configVars
<1>2. Idle /\ payload = daccepted
  BY <1>1, WhenIdle, SizeKnown DEF RawSteps, Probes, Configuring
<1>3. CASE resp \in {"ACK", "NAK"}
  <2>1. hpc' = "final" /\ resp' = "none" /\ step' \in {"resetting", "refused"}
    BY <1>3 DEF AfterReset, Read
  <2>2. SizeInv' /\ Before'
    BY <1>1, <1>2, <2>1 DEF SizeInv, Before, PromptInv, devVars, Configuring
  <2> QED
    BY <1>1, <1>2, <2>1, <2>2, IdleMove DEF OnItsOwn
<1>4. CASE resp \notin {"ACK", "NAK"}
  <2>1. ToEnd
    BY <1>4 DEF AfterReset, ToEnd, Fail, configVars
  <2> QED
    BY <1>1, <1>2, <2>1, OutcomePrompt
<1> QED
  BY <1>3, <1>4

\* A digest that is taken from a message is that of the region.
LEMMA DigestTaken ==
  ASSUME Base, PromptInv, ReadMessage, hpc = "read", step = "digest", digest' = "same"
  PROVE  Covered
<1> DEFINE m == Head(toHost)
<1>1. toHost # <<>> /\ (digest' = digest \/ digest' = ReportedDigest(m))
  BY DEF ReadMessage
<1>2. CASE digest' = digest
  BY <1>2 DEF PromptInv, DigestInv
<1>3. CASE digest' = ReportedDigest(m)
  <2>1. m.digest = "same" /\ m.re = Exchange("digest")
    BY <1>3 DEF ReportedDigest
  <2>2. Claim(m.re) \subseteq flash
    <3>1. m = toHost[1] /\ 1 \in 1 .. Len(toHost)
      BY <1>1, HeadIsFirst DEF Base, TypeOK, LinkTypes
    <3> QED
      BY <2>1, <3>1 DEF PromptInv, DigestInv, DigestsTrue
  <2>3. m.re.op = opi /\ m.re.off = off
    BY <2>1 DEF Exchange
  <2>4. SkipblockEnabled
    BY DEF Base, StepInv, Purpose
  <2>5. RegionSectors = Lesser(ChunkMax, ops[opi].n - off)
    BY <2>4 DEF RegionSectors, Op
  <2>6. Claim(m.re) = Region
    BY <2>3, <2>5 DEF Claim, Region
  <2> QED
    BY <2>2, <2>6 DEF Covered
<1> QED
  BY <1>1, <1>2, <1>3

\* What a message that is read does.
LEMMA ReadEffect ==
  ASSUME Base, PromptInv, ReadMessage
  PROVE  LET m == Head(toHost)
         IN /\ UNCHANGED <<run, opi, step, off, vip, payload, left, toDev, dpc, dcmd, dleft, dmax,
                           daccepted, flash, desync>>
            /\ toHost # <<>> /\ toHost' = Tail(toHost) /\ toHost \in Seq(Msgs)
            /\ IsLog(m) => UNCHANGED <<hpc, resp, answer, rsize>>
            /\ IsEnd(m) => /\ hpc' = hpc /\ answer' = Exchange(step) /\ resp' \in {"ACK", "NAK"}
                           /\ IF ConfigureReply THEN rsize' = dmax ELSE resp' = m.v /\ rsize' = rsize
            /\ IsRaw(m) /\ ~ConfigureReply =>
                 hpc' = ReturnTo /\ answer' = Exchange(step) /\ resp' = "ACK" /\ rsize' = rsize
<1> DEFINE m == Head(toHost)
<1>1. /\ UNCHANGED <<run, opi, step, off, vip, payload, left, toDev, devVars>>
      /\ toHost # <<>> /\ toHost' = Tail(toHost) /\ toHost \in Seq(Msgs)
  BY DEF ReadMessage, configVars, Base, TypeOK, LinkTypes
<1>2. UNCHANGED <<dpc, dcmd, dleft, dmax, daccepted, flash, desync>>
  BY <1>1 DEF devVars
<1>3. m.t = "resp" => /\ m.re = Exchange(step) /\ m.v \in {"ACK", "NAK"}
                      /\ ConfigureReply => m.size = dmax /\ m.size > 0
                      /\ m.raw => m.v = "ACK"
  <2>1. m = toHost[1] /\ 1 \in 1 .. Len(toHost)
    BY <1>1, HeadIsFirst
  <2>2. dmax > 0
    BY DEF Base, TypeOK, DeviceTypes
  <2> QED
    BY <2>1, <2>2 DEF PromptInv, Replies, ConfigureReply
<1>4. ~Accepts(m) => UNCHANGED <<hpc, resp, answer, rsize>>
  BY DEF ReadMessage
<1>5. Accepts(m) => /\ resp' = IF ConfigureReply THEN "ACK" ELSE m.v
                    /\ answer' = m.re
                    /\ rsize' = IF ConfigureReply THEN m.size ELSE rsize
                    /\ hpc' = IF m.raw /\ ~ConfigureReply THEN ReturnTo ELSE hpc
  BY DEF ReadMessage
<1>6. IsLog(m) => UNCHANGED <<hpc, resp, answer, rsize>>
  BY <1>4 DEF IsLog, Accepts
<1>7. IsEnd(m) \/ IsRaw(m) => Accepts(m)
  BY <1>3 DEF IsEnd, IsRaw, Accepts
<1>8. IsEnd(m) => /\ hpc' = hpc /\ answer' = Exchange(step) /\ resp' \in {"ACK", "NAK"}
                  /\ IF ConfigureReply THEN rsize' = dmax ELSE resp' = m.v /\ rsize' = rsize
  BY <1>3, <1>5, <1>7 DEF IsEnd
<1>9. IsRaw(m) /\ ~ConfigureReply =>
        hpc' = ReturnTo /\ answer' = Exchange(step) /\ resp' = "ACK" /\ rsize' = rsize
  BY <1>3, <1>5, <1>7 DEF IsRaw
<1> QED
  BY <1>1, <1>2, <1>6, <1>8, <1>9

LEMMA ReadsLog ==
  ASSUME Base, PromptInv, ReadMessage, IsLog(Head(toHost)), Flow'
  PROVE  PromptInv'
<1>1. /\ Continues /\ UNCHANGED <<hpc, step, resp, answer, rsize, dmax, desync>>
      /\ hpc \in {"drain", "read", "final"}
  BY ReadEffect DEF Continues, ReadMessage, Reading
<1>2. Response'
  <2>1. /\ (Covered' <=> Covered) /\ Exchange(step)' = Exchange(step)
        /\ step \in {"configure", "reconfigure"} => (Agreed' <=> Agreed)
    BY <1>1, StillTrue DEF PromptInv, DigestInv
  <2> QED
    BY <1>1, <2>1 DEF PromptInv, Response
<1> QED
  BY <1>1, <1>2, DigestTaken, ContinuesPrompt DEF PromptInv

LEMMA ReadsEnd ==
  ASSUME Base, PromptInv, ReadMessage, IsEnd(Head(toHost)), Flow',
         step \notin {"startup", "resetting", "refused"}
  PROVE  PromptInv'
<1> DEFINE m == Head(toHost)
<1>1. /\ hpc' = hpc /\ step' = step /\ answer' = Exchange(step) /\ resp' \in {"ACK", "NAK"}
      /\ IF ConfigureReply THEN rsize' = dmax ELSE resp' = m.v /\ rsize' = rsize
      /\ hpc \in {"drain", "read", "final"} /\ dmax' = dmax /\ ~desync' /\ toHost # <<>>
      /\ toHost \in Seq(Msgs)
  BY ReadEffect DEF ReadMessage, Reading, PromptInv
<1>2. step = "reconfigure" => rsize = dmax
  BY <1>1 DEF PromptInv, SizeInv
<1>3. Continues
  BY <1>1, <1>2, ReadEffect DEF Continues, ConfigureReply
<1>4. /\ (Covered' <=> Covered) /\ Exchange(step)' = Exchange(step)
      /\ step \in {"configure", "reconfigure"} => (Agreed' <=> Agreed)
  BY <1>3, StillTrue DEF PromptInv, DigestInv
<1>5. /\ step \in {"configure", "reconfigure"} => Agreed
      /\ m.v = "ACK" /\ step \in {"program", "erase", "patch"} => Covered
  <2>1. m = toHost[1] /\ 1 \in 1 .. Len(toHost)
    BY <1>1, HeadIsFirst
  <2> QED
    BY <2>1 DEF PromptInv, Replies, IsEnd
<1>6. Response'
  <2>1. hpc = "final" => step \notin {"configure", "reconfigure"}
    BY DEF Base, StepInv, RawSteps, Probes
  <2>2. CASE ConfigureReply
    BY <1>1, <1>4, <1>5, <2>2 DEF Response, ConfigureReply
  <2>3. CASE ~ConfigureReply
    BY <1>1, <1>4, <1>5, <2>1, <2>3 DEF Response, ConfigureReply
  <2> QED
    BY <2>2, <2>3
<1>7. step = "digest" /\ digest' = "same" /\ (hpc' = "read" \/ (hpc' = "after" /\ resp' = "ACK"))
        => Covered
  BY <1>1, DigestTaken
<1>8. hpc \notin {"op", "end"} /\ hpc' # "op"
  BY <1>1
<1> QED
  BY <1>1, <1>3, <1>6, <1>7, <1>8, ContinuesPrompt

LEMMA ReadsRaw ==
  ASSUME Base, PromptInv, ReadMessage, IsRaw(Head(toHost)), Flow', hpc = "read", step \in RawSteps
  PROVE  PromptInv'
<1>1. /\ hpc' = "after" /\ answer' = Exchange(step) /\ resp' = "ACK" /\ rsize' = rsize
      /\ step' = step /\ ~desync'
  BY ReadEffect DEF ConfigureReply, RawSteps, Probes, ReturnTo, PromptInv
<1>2. Continues
  BY <1>1, ReadEffect DEF Continues
<1>3. Exchange(step)' = Exchange(step)
  BY <1>2, StillTrue DEF PromptInv, DigestInv
<1>4. Response'
  BY <1>1, <1>3 DEF Response, RawSteps, Probes
<1> QED
  BY <1>1, <1>2, <1>4, ContinuesPrompt DEF RawSteps, Probes

\* What is there is read, and with it everything that was to come.
LEMMA SettledRead ==
  ASSUME Base, PromptInv, ReadMessage, Settled
  PROVE  /\ Settled' /\ hpc' = hpc /\ (IsLog(Head(toHost)) \/ IsEnd(Head(toHost)))
         /\ Quiet(toHost) => IsLog(Head(toHost))
<1>1. /\ toDev' = toDev /\ dpc' = dpc /\ toHost # <<>> /\ toHost' = Tail(toHost)
      /\ toHost \in Seq(Msgs)
      /\ IsLog(Head(toHost)) => hpc' = hpc /\ resp' = resp
      /\ IsEnd(Head(toHost)) => hpc' = hpc
  BY ReadEffect
<1>2. toDev = <<>> /\ dpc # "in"
  BY DEF Settled
<1>3. CASE Quiet(toHost)
  <2>1. IsLog(Head(toHost)) /\ Quiet(toHost')
    BY <1>1, <1>3, QuietTail
  <2> QED
    BY <1>1, <1>2, <2>1 DEF Settled
<1>4. CASE ~Quiet(toHost)
  <2>1. PICK l \in Nat : Answered(toHost, l)
    BY <1>4 DEF Settled
  <2>2. resp = "none"
    BY <1>4 DEF Settled
  <2>3. CASE l = 0
    <3>1. IsEnd(Head(toHost)) /\ Quiet(toHost')
      BY <1>1, <2>1, <2>3, AnsweredTail
    <3> QED
      BY <1>1, <1>2, <1>4, <3>1 DEF Settled
  <2>4. CASE l # 0
    <3>1. IsLog(Head(toHost)) /\ l - 1 \in Nat /\ Answered(toHost', l - 1)
      BY <1>1, <2>1, <2>4, AnsweredTail
    <3> QED
      BY <1>1, <1>2, <1>4, <2>2, <3>1 DEF Settled
  <2> QED
    BY <2>3, <2>4
<1> QED
  BY <1>3, <1>4

\* A drain, or the read of the startup or behind a reset.
LEMMA IdleReadPrompt ==
  ASSUME Base, PromptInv, ReadMessage, Idle,
         hpc = "drain" \/ step = "startup" \/ step \in {"resetting", "refused"}
  PROVE  PromptInv'
<1>1. toHost # <<>> /\ toHost \in Seq(Msgs) /\ Quiet(toHost)
  BY ReadEffect DEF Idle
<1>2. IsLog(Head(toHost)) /\ Quiet(Tail(toHost))
  BY <1>1, QuietTail
<1>3. /\ UNCHANGED <<hpc, step, resp, toDev, dpc>> /\ Quiet(toHost') /\ hpc \in {"drain", "read", "final"}
  BY <1>2, ReadEffect DEF ReadMessage, Reading
<1>4. Idle'
  BY <1>3 DEF Idle
<1>5. hpc = "read" => step \notin {"resetting", "refused"}
  BY DEF Base, StepInv
<1>6. hpc = "final" => step # "startup"
  BY DEF Base, StepInv, RawSteps, Probes
<1>7. Flow'
  BY <1>3, <1>4, <1>5, <1>6 DEF Flow, Finishing, RawSteps, Probes
<1> QED
  BY <1>2, <1>7, ReadsLog

LEMMA FinalReadPrompt ==
  ASSUME Base, PromptInv, ReadMessage, hpc = "final", step \in RawSteps
  PROVE  PromptInv'
<1>1. Settled
  BY ReadEffect DEF PromptInv, Flow, Finishing, RawSteps
<1>2. Settled' /\ hpc' = hpc /\ step' = step /\ (IsLog(Head(toHost)) \/ IsEnd(Head(toHost)))
  BY <1>1, SettledRead, ReadEffect
<1>3. Flow'
  BY <1>2 DEF Flow, Finishing, RawSteps, Probes
<1>4. step \notin {"startup", "resetting", "refused"}
  BY DEF RawSteps, Probes
<1> QED
  BY <1>2, <1>3, <1>4, ReadsLog, ReadsEnd

\* The read for the response of an exchange.
LEMMA WaitingReadPrompt ==
  ASSUME Base, PromptInv, ReadMessage, hpc = "read", step # "startup"
  PROVE  PromptInv'
<1>1. /\ UNCHANGED <<run, opi, step, off, vip, payload, toDev, dpc, dcmd, dleft, daccepted>>
      /\ toHost # <<>> /\ toHost' = Tail(toHost) /\ toHost \in Seq(Msgs)
      /\ IsLog(Head(toHost)) => UNCHANGED <<hpc, resp, rsize>>
  BY ReadEffect
<1>2. step \notin {"resetting", "refused"}
  BY DEF Base, StepInv
<1>3. RegionSectors' = RegionSectors /\ Expected' = Expected /\ \A s : Exchange(s)' = Exchange(s)
  BY <1>1, SameExchange
<1>4. Expected \in Nat
  BY RegionTyped DEF Expected, Base, StepInv
<1>5. Waiting' /\ hpc' = "read" => Flow'
  BY <1>1 DEF Flow
<1>6. CASE toDev = <<Command>> /\ Quiet(toHost) /\ dpc \in {"boot", "xml"} /\ resp = "none"
  <2>1. IsLog(Head(toHost)) /\ Quiet(toHost')
    BY <1>1, <1>6, QuietTail
  <2>2. Command' = Command
    BY <1>1, <1>3, <2>1 DEF Command
  <2>3. Waiting' /\ hpc' = "read"
    BY <1>1, <1>6, <2>1, <2>2 DEF Waiting
  <2> QED
    BY <1>5, <2>1, <2>3, ReadsLog
<1>7. CASE Settled /\ (step \in RawSteps =>
             resp # "ACK" /\ \A j \in 1 .. Len(toHost) : IsEnd(toHost[j]) => toHost[j].v # "ACK")
  <2>1. Settled' /\ hpc' = hpc /\ (IsLog(Head(toHost)) \/ IsEnd(Head(toHost)))
    BY <1>7, SettledRead
  <2>2. ASSUME step \in RawSteps
        PROVE  resp' # "ACK" /\ \A j \in 1 .. Len(toHost') : IsEnd(toHost'[j]) => toHost'[j].v # "ACK"
    <3>1. /\ Head(toHost) = toHost[1] /\ 1 \in 1 .. Len(toHost) /\ Len(toHost) \in Nat
          /\ Len(toHost') = Len(toHost) - 1
          /\ \A j \in 1 .. Len(toHost') : toHost'[j] = toHost[j + 1]
      BY <1>1, HeadIsFirst
    <3>2. \A j \in 1 .. Len(toHost') : j + 1 \in 1 .. Len(toHost)
      BY <3>1
    <3>3. ~ConfigureReply
      BY <2>2 DEF ConfigureReply, RawSteps, Probes
    <3>4. resp' = resp \/ (IsEnd(Head(toHost)) /\ resp' = Head(toHost).v)
      BY <2>1, <3>3, ReadEffect
    <3>5. resp' # "ACK"
      BY <1>7, <2>2, <3>1, <3>4
    <3> QED
      BY <1>7, <2>2, <3>1, <3>2, <3>5
  <2>3. Waiting'
    BY <1>1, <2>1, <2>2 DEF Waiting, RawSteps, Probes
  <2> QED
    BY <1>2, <1>5, <2>1, <2>3, ReadsLog, ReadsEnd
<1>8. CASE /\ step = "program" /\ resp = "none" /\ toDev = <<>> /\ Taking(RegionSectors)
           /\ \E l \in Nat : Ready(toHost, l)
  <2>1. PICK l \in Nat : Ready(toHost, l)
    BY <1>8
  <2>2. Taking(RegionSectors)'
    BY <1>1, <1>3, <1>8 DEF Taking
  <2>3. CASE l = 0
    <3>1. IsRaw(Head(toHost)) /\ toHost' = <<>>
      BY <1>1, <2>1, <2>3, ReadyTail
    <3>2. hpc' = "after" /\ resp' = "ACK"
      BY <1>8, <3>1, ReadEffect DEF ConfigureReply, ReturnTo
    <3>3. Flow'
      BY <1>1, <1>8, <2>2, <3>1, <3>2 DEF Flow, Returned, RawSteps
    <3> QED
      BY <1>8, <3>1, <3>3, ReadsRaw DEF RawSteps
  <2>4. CASE l # 0
    <3>1. IsLog(Head(toHost)) /\ l - 1 \in Nat /\ Ready(toHost', l - 1)
      BY <1>1, <2>1, <2>4, ReadyTail
    <3>2. Waiting' /\ hpc' = "read"
      BY <1>1, <1>8, <2>2, <3>1 DEF Waiting
    <3> QED
      BY <1>5, <3>1, <3>2, ReadsLog
  <2> QED
    BY <2>3, <2>4
<1>9. CASE /\ step \in RawSteps \ {"program"} /\ resp = "none" /\ toDev = <<>>
           /\ dpc \in {"xml", "gone"} /\ \E l \in Nat : Announced(toHost, l, Expected)
  <2>1. PICK l \in Nat : Announced(toHost, l, Expected)
    BY <1>9
  <2>2. CASE l = 0
    <3>1. IsRaw(Head(toHost)) /\ DataFrom(toHost', Expected)
      BY <1>1, <1>4, <2>1, <2>2, AnnouncedTail
    <3>2. hpc' = "after" /\ resp' = "ACK"
      BY <1>9, <3>1, ReadEffect DEF ConfigureReply, ReturnTo, RawSteps, Probes
    <3>3. Receiving(Expected)'
      BY <1>1, <1>3, <1>9, <3>1 DEF Receiving
    <3>4. Flow'
      BY <1>1, <1>9, <3>2, <3>3 DEF Flow, Returned, RawSteps, Probes
    <3> QED
      BY <1>9, <3>1, <3>4, ReadsRaw
  <2>3. CASE l # 0
    <3>1. IsLog(Head(toHost)) /\ l - 1 \in Nat /\ Announced(toHost', l - 1, Expected)
      BY <1>1, <1>4, <2>1, <2>3, AnnouncedTail
    <3>2. Waiting' /\ hpc' = "read"
      BY <1>1, <1>3, <1>9, <3>1 DEF Waiting, RawSteps, Probes
    <3> QED
      BY <1>5, <3>1, <3>2, ReadsLog
  <2> QED
    BY <2>2, <2>3
<1>10. Waiting
  BY DEF PromptInv, Flow
<1> QED
  BY <1>6, <1>7, <1>8, <1>9, <1>10 DEF Waiting

LEMMA ReadMessagePrompt ==
  ASSUME Base, PromptInv, ReadMessage
  PROVE  PromptInv'
<1>1. hpc \in {"drain", "read", "final"}
  BY DEF ReadMessage, Reading
<1>2. hpc = "final" => step \in RawSteps \cup {"resetting", "refused"}
  BY DEF Base, StepInv
<1>3. hpc = "drain" \/ (hpc = "read" /\ step = "startup")
        \/ (hpc = "final" /\ step \in {"resetting", "refused"}) => Idle
  BY DEF PromptInv, Flow, Finishing, RawSteps, Probes
<1> QED
  BY <1>1, <1>2, <1>3, IdleReadPrompt, FinalReadPrompt, WaitingReadPrompt

\* Nothing is coming when nothing is on its way.
LEMMA SilentIsIdle ==
  ASSUME Base, PromptInv, Reading, toHost = <<>>, toDev = <<>> \/ dpc = "gone"
  PROVE  Idle /\ (hpc = "read" /\ step \in RawSteps => resp # "ACK")
<1>1. Quiet(toHost) /\ Len(toHost) = 0 /\ \A l \in Nat : l + 1 > Len(toHost) /\ l + 1 # Len(toHost)
  BY NothingIsQuiet
<1>2. /\ \A l \in Nat : ~Ready(toHost, l)
      /\ \A l, n \in Nat : ~Announced(toHost, l, n)
  BY <1>1 DEF Ready, Announced
<1>3. ~(dpc = "in" /\ Taking(0))
  BY FlightIs DEF Taking
<1>4. Settled => Idle
  BY <1>1 DEF Settled, Idle
<1>5. CASE hpc = "drain"
  BY <1>5 DEF PromptInv, Flow
<1>6. CASE hpc = "final"
  <2>1. Finishing
    BY <1>6 DEF PromptInv, Flow
  <2>2. Taking(0) => Idle
    BY <1>1, <1>3 DEF Taking, Idle
  <2> QED
    BY <1>4, <1>6, <2>1, <2>2 DEF Finishing
<1>7. CASE hpc = "read" /\ step = "startup"
  BY <1>7 DEF PromptInv, Flow, RawSteps, Probes
<1>8. CASE hpc = "read" /\ step # "startup"
  <2>1. Waiting
    BY <1>8 DEF PromptInv, Flow
  <2>2. Expected \in Nat
    BY <1>8, RegionTyped DEF Expected, Base, StepInv
  <2>3. toDev # <<Command>> \/ dpc = "gone"
    OBVIOUS
  <2>4. Settled /\ (step \in RawSteps => resp # "ACK")
    BY <1>2, <2>1, <2>2, <2>3 DEF Waiting
  <2> QED
    BY <1>4, <2>4
<1> QED
  BY <1>5, <1>6, <1>7, <1>8 DEF Reading

\* What is left when an answer has been read, or none is expected, are logs.
LEMMA NotAwaitedIsIdle ==
  ASSUME Base, PromptInv, Reading, ~Awaits
  PROVE  Idle /\ (hpc = "read" /\ step \in RawSteps => resp # "ACK")
<1>1. resp # "none" \/ step \in {"startup", "resetting", "refused"}
  BY DEF Awaits
<1>2. CASE hpc = "drain"
  BY <1>2 DEF PromptInv, Flow
<1>3. CASE hpc = "final"
  BY <1>1, <1>3 DEF PromptInv, Flow, Finishing, Settled, Idle, RawSteps, Probes
<1>4. CASE hpc = "read" /\ step = "startup"
  BY <1>4 DEF PromptInv, Flow, RawSteps, Probes
<1>5. CASE hpc = "read" /\ step # "startup"
  <2>1. Waiting /\ resp # "none"
    BY <1>1, <1>5 DEF PromptInv, Flow, Base, StepInv
  <2> QED
    BY <1>5, <2>1 DEF Waiting, Settled, Idle
<1> QED
  BY <1>2, <1>3, <1>4, <1>5 DEF Reading

LEMMA ReadStopsPrompt ==
  ASSUME Base, PromptInv, ReadTimesOut \/ ReadFails, late' = 0
  PROVE  PromptInv'
<1>1. /\ Reading /\ hpc' = ReturnTo /\ UNCHANGED <<run, opi, step, off, answer, rsize, digest,
                                                    configVars, devVars, toDev, toHost>>
      /\ resp' = resp \/ resp' \in {"TIMEDOUT", "EIO"}
  BY DEF ReadTimesOut, ReadFails
<1>2. (toHost = <<>> /\ (toDev = <<>> \/ dpc = "gone")) \/ ~Awaits
  <2>1. CASE ReadTimesOut
    <3>1. late \in Nat
      BY DEF Base, TypeOK, DeviceTypes
    <3> QED
      BY <2>1, <3>1 DEF ReadTimesOut, StopsWaiting, Silent
  <2>2. CASE ReadFails
    BY <2>2 DEF ReadFails
  <2> QED
    BY <2>1, <2>2
<1>3. Idle /\ (hpc = "read" /\ step \in RawSteps => resp # "ACK")
  BY <1>1, <1>2, SilentIsIdle, NotAwaitedIsIdle
<1>4. /\ UNCHANGED <<run, opi, step, off, vip, payload, rsize, toHost, toDev>>
      /\ UNCHANGED <<dpc, flash, dmax, daccepted, desync>>
      /\ hpc \in {"drain", "read", "final"}
      /\ hpc' = CASE hpc = "drain" -> "write" [] hpc = "read" -> "after" [] hpc = "final" -> "done"
  BY <1>1 DEF configVars, devVars, Reading, ReturnTo
<1>5. Continues
  BY <1>4 DEF Continues
<1>6. Flow'
  BY <1>1, <1>3, <1>4 DEF Flow, Idle, Returned, RawSteps, Probes
<1>7. Response'
  <2>1. /\ (Covered' <=> Covered) /\ Exchange(step)' = Exchange(step)
        /\ step \in {"configure", "reconfigure"} => (Agreed' <=> Agreed)
    BY <1>5, StillTrue DEF PromptInv, DigestInv
  <2> QED
    BY <1>1, <1>4, <2>1 DEF PromptInv, Response
<1>8. step = "digest" /\ digest' = "same" /\ (hpc' = "read" \/ (hpc' = "after" /\ resp' = "ACK"))
        => Covered
  BY <1>1, <1>4 DEF PromptInv, DigestInv
<1> QED
  BY <1>4, <1>5, <1>6, <1>7, <1>8, ContinuesPrompt DEF PromptInv

LEMMA StreamChunkPrompt ==
  ASSUME Base, PromptInv, StreamChunk
  PROVE  PromptInv'
<1> DEFINE n == Lesser(payload, left)
           c == [cmd |-> "data", re |-> Exchange(step), n |-> n]
<1>1. /\ hpc = "stream" /\ step = "program" /\ left \in Nat /\ left >= 1 /\ toHost = <<>>
      /\ dpc # "gone" /\ Taking(left) /\ Len(toDev) < 2 /\ Purpose /\ toDev \in Seq(Commands)
  BY DEF StreamChunk, Base, TypeOK, HostTypes, LinkTypes, StepInv, PromptInv, Flow
<1>2. payload = daccepted /\ payload \in Nat \ {0}
  BY <1>1, SizeKnown DEF Configuring, Base, TypeOK, HostTypes
<1>3. n \in Nat /\ n <= left /\ n <= daccepted /\ n >= 1
  <2>1. payload \in Nat /\ payload > 0 /\ left \in Nat /\ left > 0
    BY <1>1, <1>2
  <2>2. n \in Nat /\ n <= left /\ n <= payload /\ n > 0
    BY <2>1, LesserFacts
  <2> QED
    BY <1>2, <2>2
<1>4. c \in Commands /\ c.cmd = "data" /\ c.n = n
  BY <1>1, <1>3, ExchangeTyped DEF Commands, Base, TypeOK, HostTypes
<1>5. /\ toDev' = Append(toDev, c) /\ left' = left - n /\ toHost' = <<>>
      /\ UNCHANGED <<run, opi, step, off, vip, payload, rsize, devVars>>
      /\ IF left = n THEN hpc' = "final" /\ resp' = "none" ELSE hpc' = "stream"
  BY <1>1 DEF StreamChunk, configVars, Read
<1> HIDE DEF n, c
<1>6. UNCHANGED <<dpc, dcmd, dleft, dmax, daccepted, flash, desync>>
  BY <1>5 DEF devVars
<1>7. RegionSectors' = RegionSectors /\ Exchange("program")' = Exchange("program")
  BY <1>5, SameExchange
<1>8. Taking(left)'
  <2>1. /\ dpc = "in" /\ dcmd.re = Exchange("program") /\ dcmd.n = RegionSectors
        /\ dleft >= 1 /\ dleft = InFlight(toDev) + left /\ dleft \in Nat
        /\ \A j \in 1 .. Len(toDev) : toDev[j].cmd = "data" /\ toDev[j].n \in 1 .. daccepted
    BY <1>1 DEF Taking, Base, TypeOK, DeviceTypes
  <2>2. /\ Len(toDev') = Len(toDev) + 1 /\ InFlight(toDev') = InFlight(toDev) + n
        /\ InFlight(toDev) \in Nat /\ toDev'[Len(toDev) + 1] = c /\ Len(toDev) \in Nat
        /\ \A j \in 1 .. Len(toDev) : toDev'[j] = toDev[j]
    BY <1>1, <1>4, <1>5, FlightAppend, LenProperties
  <2>3. ASSUME NEW j \in 1 .. Len(toDev')
        PROVE  toDev'[j].cmd = "data" /\ toDev'[j].n \in 1 .. daccepted
    <3>1. j \in 1 .. Len(toDev) \/ j = Len(toDev) + 1
      BY <2>2
    <3>2. daccepted \in Nat
      BY DEF Base, TypeOK, DeviceTypes
    <3> QED
      BY <1>3, <1>4, <2>1, <2>2, <3>1, <3>2
  <2>4. dleft = InFlight(toDev') + (left - n)
    BY <1>1, <1>3, <2>1, <2>2
  <2>5. Len(toDev') <= 2
    BY <1>1, <2>2
  <2> QED
    BY <1>5, <1>6, <1>7, <2>1, <2>3, <2>4, <2>5 DEF Taking
<1>9. Flow'
  <2>1. CASE left = n
    <3>1. left' = 0
      BY <1>1, <1>5, <2>1
    <3>2. Taking(0)'
      BY <1>8, <3>1 DEF Taking
    <3> QED
      BY <1>1, <1>5, <2>1, <3>2 DEF Flow, Finishing
  <2>2. CASE left # n
    BY <1>5, <1>8, <2>2 DEF Flow
  <2> QED
    BY <2>1, <2>2
<1>10. Response'
  BY <1>5 DEF Response
<1>11. Continues
  BY <1>1, <1>5, <1>6 DEF Continues
<1> QED
  BY <1>1, <1>5, <1>6, <1>9, <1>10, <1>11, ContinuesPrompt DEF PromptInv

LEMMA RecvSectorPrompt ==
  ASSUME Base, PromptInv, RecvSector
  PROVE  PromptInv'
<1>1. /\ hpc = "recv" /\ step \in RawSteps \ {"program"} /\ left \in Nat /\ left >= 1
      /\ toHost # <<>> /\ toHost \in Seq(Msgs) /\ Receiving(left)
  BY DEF RecvSector, Base, TypeOK, HostTypes, LinkTypes, StepInv, PromptInv, Flow
<1>2. toDev = <<>> /\ dpc \in {"xml", "gone"} /\ DataFrom(toHost, left)
  BY <1>1 DEF Receiving
<1>3. Head(toHost).t = "data" /\ DataFrom(Tail(toHost), left - 1) /\ Tail(toHost) \in Seq(Msgs)
  BY <1>1, <1>2, DataTail, HeadIsFirst
<1>4. /\ toHost' = Tail(toHost) /\ left' = left - 1 /\ desync' = desync
      /\ UNCHANGED <<run, opi, step, off, vip, payload, rsize, dpc, dmax, daccepted, flash, toDev>>
      /\ IF left = 1 THEN hpc' = "final" /\ resp' = "none" ELSE hpc' = "recv"
  BY <1>3 DEF RecvSector, configVars, Read, Base, TypeOK, DeviceTypes
<1>5. Flow'
  <2>1. CASE left = 1
    <3>1. DataFrom(Tail(toHost), 0)
      BY <1>3, <2>1
    <3>2. Answered(Tail(toHost), 0)
      BY <1>3, <3>1, DataTail
    <3>3. Settled'
      BY <1>2, <1>4, <2>1, <3>2 DEF Settled
    <3> QED
      BY <1>1, <1>4, <2>1, <3>3 DEF Flow, Finishing, RawSteps, Probes
  <2>2. CASE left # 1
    <3>1. Receiving(left)'
      BY <1>2, <1>3, <1>4 DEF Receiving
    <3> QED
      BY <1>4, <2>2, <3>1 DEF Flow
  <2> QED
    BY <2>1, <2>2
<1>6. Response'
  BY <1>4 DEF Response
<1>7. Continues
  BY <1>1, <1>4 DEF Continues
<1> QED
  BY <1>1, <1>4, <1>5, <1>6, <1>7, ContinuesPrompt DEF PromptInv, RawSteps, Probes

LEMMA TransferFailsPrompt ==
  ASSUME Base, PromptInv, TransferFails
  PROVE  PromptInv'
<1>1. /\ hpc \in {"stream", "recv"} /\ step \in RawSteps
      /\ UNCHANGED <<run, rsize, payload, devVars, toDev, toHost>>
  BY DEF TransferFails, Base, StepInv, RawSteps
<1>2. payload = daccepted
  BY <1>1, SizeKnown DEF Configuring, RawSteps, Probes
<1>3. Idle
  <2>1. CASE hpc = "stream"
    BY <2>1, NothingIsQuiet DEF TransferFails, PromptInv, Flow, Taking, Idle
  <2>2. CASE hpc = "recv"
    BY <2>2, NothingIsQuiet DEF TransferFails, PromptInv, Flow, Receiving, Idle
  <2> QED
    BY <1>1, <2>1, <2>2
<1>4. ToWrite("probe4096") \/ ToNext \/ ToEnd
  <2>1. CASE step \in Probes
    BY <2>1, NextProbeOutcome DEF TransferFails
  <2>2. CASE step \notin Probes
    BY <2>2 DEF TransferFails, ToEnd
  <2> QED
    BY <2>1, <2>2
<1> QED
  BY <1>1, <1>2, <1>3, <1>4, StepNames, OutcomePrompt

LEMMA HostPrompt ==
  ASSUME Base, PromptInv, Host, late' = 0
  PROVE  PromptInv'
BY StartOpPrompt, WriteCommandPrompt, WriteStepsPrompt, ReadMessagePrompt, ReadStopsPrompt,
   ConfiguringPrompt, ProbingPrompt, ConcludingPrompt, SetUpPrompt, AfterResetPrompt,
   StreamChunkPrompt, RecvSectorPrompt, TransferFailsPrompt, WhatConcludes DEF Host

-----------------------------------------------------------------------------
(* Prompt answers: what the programmer does.                               *)

LEMMA HostStays ==
  ASSUME UNCHANGED hostVars
  PROVE  /\ UNCHANGED <<run, opi, hpc, step, off, resp, answer, rsize, digest, left, payload, vip>>
         /\ ops' = ops /\ Op' = Op /\ RegionSectors' = RegionSectors /\ Expected' = Expected
         /\ Region' = Region /\ Command' = Command /\ \A s : Exchange(s)' = Exchange(s)
<1>1. UNCHANGED <<run, opi, hpc, step, off, resp, answer, rsize, digest, left, payload, vip>>
  BY DEF hostVars
<1>2. /\ ops' = ops /\ Op' = Op /\ RegionSectors' = RegionSectors /\ Expected' = Expected
      /\ Region' = Region /\ \A s : Exchange(s)' = Exchange(s)
  BY <1>1, SameExchange
<1>3. Command' = Command
  BY <1>1, <1>2 DEF Command
<1> QED
  BY <1>1, <1>2, <1>3

LEMMA DevicePrompt ==
  ASSUME PromptInv, UNCHANGED hostVars, flash \subseteq flash', dmax' = dmax,
         daccepted' = daccepted \/ (hpc = "read" /\ resp = "none" /\ step \in Configuring),
         Flow', Replies', DigestsTrue', ~desync'
  PROVE  PromptInv'
<1>1. /\ UNCHANGED <<opi, hpc, step, off, resp, answer, rsize, digest, payload>>
      /\ Region' = Region /\ Exchange(step)' = Exchange(step)
  BY HostStays
<1>2. Covered => Covered'
  BY <1>1 DEF Covered
<1>3. Response'
  <2>1. CASE daccepted' = daccepted
    <3>1. Agreed' <=> Agreed
      BY <1>1, <2>1 DEF Agreed
    <3> QED
      BY <1>1, <1>2, <2>1, <3>1 DEF PromptInv, Response
  <2>2. CASE resp = "none"
    BY <1>1, <2>2 DEF Response
  <2> QED
    BY <2>1, <2>2
<1>4. SizeInv'
  BY <1>1 DEF PromptInv, SizeInv
<1>5. DigestInv'
  BY <1>1, <1>2 DEF PromptInv, DigestInv
<1>6. Before'
  BY <1>1 DEF PromptInv, Before
<1> QED
  BY <1>3, <1>4, <1>5, <1>6 DEF PromptInv

\* Messages that are said fit the exchange, and so do all that are on their way.
LEMMA SpokenTrue ==
  ASSUME UNCHANGED hostVars, toHost \in Seq(Msgs), NEW ms \in Seq(Msgs), NEW re \in Exchanges,
         NEW b \in Nat, NEW a \in Nat, Extends(toHost', toHost, b, ms, a, re),
         flash \subseteq flash', dmax' = dmax, Replies, DigestsTrue,
         daccepted' = daccepted \/ Quiet(toHost),
         \A i \in 1 .. Len(ms) : ms[i].t = "resp" =>
           /\ ms[i].re = Exchange(step) /\ ms[i].v \in {"ACK", "NAK"}
           /\ step \in {"configure", "reconfigure"} => ms[i].size = dmax /\ ~ms[i].raw /\ Agreed'
           /\ ms[i].raw => ms[i].v = "ACK"
           /\ ms[i].v = "ACK" /\ ~ms[i].raw /\ step \in {"program", "erase", "patch"} => Covered',
         \A i \in 1 .. Len(ms) : ms[i].digest = "same" =>
           ms[i].re.op \in DOMAIN ops /\ Claim(ms[i].re) \subseteq flash
  PROVE  Replies' /\ DigestsTrue'
<1>1. /\ UNCHANGED <<step, payload, rsize>> /\ ops' = ops
      /\ Region' = Region /\ Exchange(step)' = Exchange(step)
  BY HostStays
<1>2. Covered => Covered'
  BY <1>1 DEF Covered
<1>3. \A j \in 1 .. Len(toHost') : \/ \E i \in 1 .. Len(toHost) : toHost'[j] = toHost[i]
                                   \/ \E i \in 1 .. Len(ms) : toHost'[j] = ms[i]
                                   \/ toHost'[j] = Log("log", re)
  BY Members
<1>4. Log("log", re).t # "resp" /\ Log("log", re).digest # "same"
  BY DEF Log
<1>5. Replies'
  <2> SUFFICES ASSUME NEW j \in 1 .. Len(toHost'), toHost'[j].t = "resp"
               PROVE  /\ toHost'[j].re = Exchange(step)' /\ toHost'[j].v \in {"ACK", "NAK"}
                      /\ step' \in {"configure", "reconfigure"} =>
                           toHost'[j].size = dmax' /\ ~toHost'[j].raw /\ Agreed'
                      /\ toHost'[j].raw => toHost'[j].v = "ACK"
                      /\ toHost'[j].v = "ACK" /\ ~toHost'[j].raw
                           /\ step' \in {"program", "erase", "patch"} => Covered'
    BY DEF Replies
  <2>1. CASE \E i \in 1 .. Len(toHost) : toHost'[j] = toHost[i]
    <3>1. PICK i \in 1 .. Len(toHost) : toHost'[j] = toHost[i]
      BY <2>1
    <3>2. daccepted' = daccepted
      BY <3>1 DEF Quiet, IsLog
    <3>3. Agreed' <=> Agreed
      BY <1>1, <3>2 DEF Agreed
    <3> QED
      BY <1>1, <1>2, <3>1, <3>3 DEF Replies
  <2>2. CASE \E i \in 1 .. Len(ms) : toHost'[j] = ms[i]
    BY <1>1, <2>2
  <2> QED
    BY <1>3, <1>4, <2>1, <2>2
<1>6. DigestsTrue'
  BY <1>1, <1>3, <1>4 DEF DigestsTrue, Claim
<1> QED
  BY <1>5, <1>6

LEMMA AnsweredStays ==
  ASSUME NEW s \in Seq(Msgs), NEW b \in Nat, NEW a \in Nat, NEW ms \in Seq(Msgs),
         NEW re \in Exchanges, NEW u, Extends(u, s, b, ms, a, re), Quiet(ms),
         NEW l \in Nat, Answered(s, l)
  PROVE  Answered(u, l)
<1> DEFINE k == Len(s) + b
<1>1. /\ Len(u) = k + Len(ms) + a /\ k \in Nat /\ Len(s) \in Nat /\ Len(ms) \in Nat /\ Len(s) <= k
      /\ \A j \in 1 .. Len(s) : u[j] = s[j]
      /\ \A j \in Len(s) + 1 .. k : u[j] = Log("log", re)
      /\ \A j \in k + 1 .. k + Len(ms) : u[j] = ms[j - k]
      /\ \A j \in k + Len(ms) + 1 .. Len(u) : u[j] = Log("log", re)
  BY ExtendsFacts DEF Extends
<1> HIDE DEF k
<1>2. l < Len(u) /\ u[l + 1] = s[l + 1]
  BY <1>1 DEF Answered
<1>3. ASSUME NEW j \in 1 .. Len(u), j # l + 1  PROVE  IsLog(u[j])
  <2>1. CASE j <= Len(s)
    BY <1>1, <1>3, <2>1 DEF Answered
  <2>2. CASE (j > Len(s) /\ j <= k) \/ j > k + Len(ms)
    BY <1>1, <1>3, <2>2, LogIsLog
  <2>3. CASE j > k /\ j <= k + Len(ms)
    <3>1. j - k \in 1 .. Len(ms) /\ u[j] = ms[j - k]
      BY <1>1, <1>3, <2>3
    <3> QED
      BY <3>1 DEF Quiet
  <2>4. \/ j <= Len(s) \/ (j > Len(s) /\ j <= k) \/ j > k + Len(ms)
        \/ (j > k /\ j <= k + Len(ms))
    BY <1>1, <1>3
  <2> QED
    BY <2>1, <2>2, <2>3, <2>4
<1> QED
  BY <1>2, <1>3 DEF Answered

\* What the startup says is no response.
LEMMA DevStartPrompt ==
  ASSUME Base, PromptInv, DevStart
  PROVE  PromptInv'
<1> DEFINE ms == IF dvip THEN <<Log("marker", NoExchange)>> ELSE <<>>
<1>1. /\ UNCHANGED hostVars /\ dpc = "boot" /\ dpc' = "xml"
      /\ UNCHANGED <<dcmd, dleft, dmax, daccepted, flash, desync, toDev>>
      /\ toHost \in Seq(Msgs) /\ NoExchange \in Exchanges
  BY StepNames DEF DevStart, Base, TypeOK, LinkTypes
<1>2. ms \in Seq(Msgs) /\ Quiet(ms) /\ \A i \in 1 .. Len(ms) : ms[i].digest = "none" /\ ms[i].t # "resp"
  <2> DEFINE m == Log("marker", NoExchange)
  <2>1. m \in Msgs /\ IsLog(m) /\ m.digest = "none" /\ m.t # "resp"
    BY <1>1, LogIsLog, MessagesTyped DEF Base, Log
  <2> HIDE DEF m
  <2>2. /\ <<m>> \in Seq(Msgs) /\ Quiet(<<m>>)
        /\ \A i \in 1 .. Len(<<m>>) : <<m>>[i].digest = "none" /\ <<m>>[i].t # "resp"
    BY <2>1, OneMessage DEF Quiet
  <2>3. /\ <<>> \in Seq(Msgs) /\ Quiet(<<>>) /\ Len(<<>>) = 0
    BY EmptySeq, NothingIsQuiet
  <2> QED
    BY <2>2, <2>3 DEF m
<1>3. Say(NoExchange, ms)
  BY DEF DevStart
<1> HIDE DEF ms
<1>4. PICK b \in Nat, a \in Nat : Extends(toHost', toHost, b, ms, a, NoExchange)
  BY <1>1, <1>2, <1>3, Saying
<1>5. Replies' /\ DigestsTrue'
  BY <1>1, <1>2, <1>4, SpokenTrue DEF PromptInv, DigestInv
<1>6. /\ Quiet(toHost) => Quiet(toHost')
      /\ \A l \in Nat : Answered(toHost, l) => Answered(toHost', l)
  BY <1>1, <1>2, <1>4, StaysQuiet, AnsweredStays
<1>7. UNCHANGED <<hpc, step, resp>> /\ Command' = Command
  BY <1>1, HostStays
<1>8. (Idle => Idle') /\ (Settled => Settled')
  BY <1>1, <1>6, <1>7 DEF Idle, Settled
<1>9. \A n : ~Taking(n) /\ ~Receiving(n)
  BY <1>1 DEF Taking, Receiving
<1>10. Waiting => Waiting'
  <2>1. CASE toDev = <<Command>> /\ Quiet(toHost) /\ dpc \in {"boot", "xml"} /\ resp = "none"
    BY <1>1, <1>6, <1>7, <2>1 DEF Waiting
  <2>2. CASE Settled /\ (step \in RawSteps =>
               resp # "ACK" /\ \A j \in 1 .. Len(toHost) : IsEnd(toHost[j]) => toHost[j].v # "ACK")
    <3>1. \A j \in 1 .. Len(toHost') : IsEnd(toHost'[j]) =>
            \E i \in 1 .. Len(toHost) : toHost'[j] = toHost[i]
      <4>1. \A i \in 1 .. Len(ms) : ~IsEnd(ms[i])
        BY <1>2 DEF IsEnd
      <4> QED
        BY <1>1, <1>2, <1>4, <4>1, Members, LogIsLog
    <3> QED
      BY <1>7, <1>8, <2>2, <3>1 DEF Waiting, RawSteps, Probes
  <2>3. dpc \notin {"xml", "gone"}
    BY <1>1
  <2> QED
    BY <1>9, <2>1, <2>2, <2>3 DEF Waiting
<1>11. Flow'
  BY <1>7, <1>8, <1>9, <1>10 DEF PromptInv, Flow, Returned, Finishing, RawSteps, Probes
<1> QED
  BY <1>1, <1>5, <1>11, DevicePrompt DEF PromptInv

\* Everything that was to come is there, or lost.
LEMMA DevGonePrompt ==
  ASSUME Base, PromptInv, DevGone
  PROVE  PromptInv'
<1>1. /\ UNCHANGED hostVars /\ dpc' = "gone" /\ toDev' = <<>> /\ toHost' \in {toHost, <<>>}
      /\ UNCHANGED <<dcmd, dleft, dmax, daccepted, flash, desync>>
  BY DEF DevGone
<1>2. /\ UNCHANGED <<hpc, step, resp, left, payload, rsize>>
      /\ RegionSectors' = RegionSectors /\ Expected' = Expected /\ ops' = ops
      /\ Region' = Region /\ Exchange(step)' = Exchange(step)
  BY <1>1, HostStays
<1>3. Quiet(toHost) => Quiet(toHost')
  BY <1>1, NothingIsQuiet
<1>4. (Idle => Idle') /\ (Settled => Settled')
  BY <1>1, <1>2, <1>3, NothingIsQuiet DEF Idle, Settled
<1>5. /\ Taking(0)' /\ Taking(left)' /\ Taking(RegionSectors)'
  BY <1>1 DEF Taking
<1>6. /\ Receiving(left) => Receiving(left)'
      /\ Receiving(Expected) => Receiving(Expected)'
  BY <1>1, <1>2 DEF Receiving
<1>7. Waiting => Waiting'
  <2> DEFINE Nak == \A j \in 1 .. Len(toHost) : IsEnd(toHost[j]) => toHost[j].v # "ACK"
  <2>1. Quiet(toHost) => Nak
    BY QuietMessages
  <2>2. CASE Quiet(toHost') /\ resp = "none"
    <3>1. \A j \in 1 .. Len(toHost') : ~IsEnd(toHost'[j])
      BY <2>2, QuietMessages
    <3>2. Settled'
      BY <1>1, <2>2 DEF Settled
    <3> QED
      BY <1>2, <2>2, <3>1, <3>2 DEF Waiting
  <2>3. CASE Settled /\ (step \in RawSteps => resp # "ACK" /\ Nak)
    <3>1. Nak => \A j \in 1 .. Len(toHost') : IsEnd(toHost'[j]) => toHost'[j].v # "ACK"
      BY <1>1
    <3> QED
      BY <1>2, <1>4, <2>3, <3>1 DEF Waiting, RawSteps, Probes
  <2>4. CASE step = "program" /\ resp = "none" /\ \E l \in Nat : Ready(toHost, l)
    <3>1. CASE toHost' = toHost
      BY <1>1, <1>2, <1>5, <2>4, <3>1 DEF Waiting
    <3>2. CASE toHost' = <<>>
      BY <2>2, <2>4, <3>2, NothingIsQuiet
    <3> QED
      BY <1>1, <3>1, <3>2
  <2>5. CASE step \in RawSteps \ {"program"} /\ resp = "none" /\ \E l \in Nat : Announced(toHost, l, Expected)
    <3>1. CASE toHost' = toHost
      BY <1>1, <1>2, <2>5, <3>1 DEF Waiting, RawSteps, Probes
    <3>2. CASE toHost' = <<>>
      BY <2>2, <2>5, <3>2, NothingIsQuiet
    <3> QED
      BY <1>1, <3>1, <3>2
  <2> QED
    BY <1>3, <2>2, <2>3, <2>4, <2>5 DEF Waiting
<1>8. Flow'
  <2>1. hpc = "stream" => toHost' = <<>>
    BY <1>1 DEF PromptInv, Flow
  <2>2. hpc = "after" => Returned'
    BY <1>1, <1>2, <1>4, <1>5, <1>6 DEF PromptInv, Flow, Returned, RawSteps, Probes
  <2>3. hpc = "final" => Finishing'
    BY <1>1, <1>2, <1>4, <1>5 DEF PromptInv, Flow, Finishing, RawSteps, Probes
  <2> QED
    BY <1>2, <1>4, <1>5, <1>6, <1>7, <2>1, <2>2, <2>3 DEF PromptInv, Flow
<1>9. Replies' /\ DigestsTrue'
  <2>1. CASE toHost' = toHost
    <3>1. (Agreed' <=> Agreed) /\ (Covered' <=> Covered)
      BY <1>1, <1>2 DEF Agreed, Covered
    <3> QED
      BY <1>1, <1>2, <2>1, <3>1 DEF PromptInv, DigestInv, Replies, DigestsTrue, Claim
  <2>2. CASE toHost' = <<>>
    BY <2>2 DEF Replies, DigestsTrue
  <2> QED
    BY <1>1, <2>1, <2>2
<1> QED
  BY <1>1, <1>8, <1>9, DevicePrompt DEF PromptInv

\* A programmer that takes a command finds that of the exchange in progress.
LEMMA CommandTaken ==
  ASSUME Base, PromptInv, DevCommand
  PROVE  /\ hpc = "read" /\ step # "startup" /\ resp = "none" /\ dpc = "xml"
         /\ toDev = <<Command>> /\ Head(toDev) = Command /\ Tail(toDev) = <<>>
         /\ Quiet(toHost) /\ toHost \in Seq(Msgs) /\ Command \in Commands /\ Purpose
         /\ Command.cmd = step /\ Command.re = Exchange(step) /\ Exchange(step) \in Exchanges
<1>1. dpc = "xml" /\ toDev # <<>>
  BY DEF DevCommand
<1>2. ~Idle /\ ~Settled /\ \A n : ~Receiving(n) /\ ~Taking(n)
  BY <1>1 DEF Idle, Settled, Receiving, Taking
<1>3. hpc = "read" /\ step # "startup"
  BY <1>2 DEF PromptInv, Flow, Returned, Finishing, RawSteps, Probes, Base, TypeOK, HostTypes
<1>4. toDev = <<Command>> /\ Quiet(toHost) /\ resp = "none"
  BY <1>1, <1>2, <1>3 DEF PromptInv, Flow, Waiting
<1>5. Command \in Commands /\ Purpose /\ toHost \in Seq(Msgs) /\ Exchange(step) \in Exchanges
  BY <1>3, CommandTyped, ExchangeTyped DEF Base, StepInv, TypeOK, HostTypes, LinkTypes
<1>6. \A c : Head(<<c>>) = c /\ Tail(<<c>>) = <<>>
  OBVIOUS
<1>7. Command.cmd = step /\ Command.re = Exchange(step)
  BY DEF Command
<1> QED
  BY <1>1, <1>3, <1>4, <1>5, <1>6, <1>7

\* The command carries the region.
LEMMA CommandRegion ==
  ASSUME Base, Purpose, hpc = "read"
  PROVE  /\ step \in {"erase", "patch", "digest", "program", "read"} =>
              Command.n = RegionSectors /\ Sectors(Command) = Region
         /\ step \in RawSteps \ {"program"} => Command.n = Expected
         /\ step = "digest" =>
              Command.re.op = opi /\ opi \in DOMAIN ops /\ Claim(Command.re) = Region
         /\ step = "configure" => Command.n = payload
         /\ step = "reconfigure" => Command.n = rsize
         /\ RegionSectors \in Nat /\ (step \in {"program", "read"} => RegionSectors >= 1)
<1>1. opi \in DOMAIN ops /\ off \in Nat /\ (off = 0 \/ Further)
  BY DEF Purpose, Base, TypeOK, HostTypes, StepInv
<1>2. /\ RegionSectors \in Nat /\ (Op.type \in {"program", "read"} => RegionSectors > 0)
      /\ ~SkipblockEnabled => RegionSectors = Op.n
  BY <1>1, RegionFacts DEF Base, TypeOK, HostTypes
<1>3. step \in {"program", "read"} => RegionSectors >= 1
  BY <1>2 DEF Purpose, OneCommand
<1>4. /\ Command.re.op = opi /\ Command.re.off = off
      /\ Command.n = CASE step = "configure" -> payload
                       [] step = "reconfigure" -> rsize
                       [] step \in {"digest", "program", "read"} -> RegionSectors
                       [] OTHER -> 1
  BY DEF Command, Exchange
<1>5. step \in {"erase", "patch"} => RegionSectors = 1
  <2>1. step \in {"erase", "patch"} => Op.type = step /\ ~SkipblockEnabled
    BY DEF Purpose, OneCommand, SkipblockEnabled
  <2>2. Op.type \in {"erase", "patch"} => Op.n = 1
    BY <1>1, OpsFacts DEF Op, Base, TypeOK, HostTypes
  <2> QED
    BY <1>2, <2>1, <2>2
<1>6. step \in {"erase", "patch", "digest", "program", "read"} => Command.n = RegionSectors
  BY <1>4, <1>5
<1>7. Command.n = RegionSectors => Sectors(Command) = Region
  <2> DEFINE o == Command.re.op
             f == Command.re.off
             n == Command.n
  <2>1. Sectors(Command) = {o} \X (f .. f + n - 1)
    BY DEF Sectors
  <2>2. Region = {opi} \X (off .. (off + RegionSectors) - 1)
    BY DEF Region, Span
  <2>3. o = opi /\ f = off
    BY <1>4
  <2> HIDE DEF o, f, n
  <2>4. n = RegionSectors => f + n - 1 = (off + RegionSectors) - 1
    BY <1>1, <1>2, <2>3
  <2>5. n = RegionSectors => Sectors(Command) = Region
    BY <2>1, <2>2, <2>3, <2>4
  <2> QED
    BY <2>5 DEF n
<1>8. step \in RawSteps \ {"program"} => Command.n = Expected
  BY <1>4 DEF RawSteps, Probes, Expected
<1>9. step = "digest" => Claim(Command.re) = Region
  <2>1. step = "digest" => RegionSectors = Lesser(ChunkMax, ops[opi].n - off)
    BY DEF Purpose, RegionSectors, Op
  <2> QED
    BY <1>4, <2>1 DEF Claim, Region
<1> QED
  BY <1>1, <1>2, <1>3, <1>4, <1>6, <1>7, <1>8, <1>9

\* What is said of a command, all of it at once.
LEMMA SaysOf ==
  ASSUME Base, PromptInv, DevCommand, NEW ms \in Seq(Msgs), UNCHANGED hostVars,
         flash \subseteq flash', dmax' = dmax,
         Say(Command.re, ms) \/ SayRaw(Command.re, ms),
         \A i \in 1 .. Len(ms) : ms[i].t = "resp" =>
           /\ ms[i].re = Exchange(step) /\ ms[i].v \in {"ACK", "NAK"}
           /\ step \in {"configure", "reconfigure"} => ms[i].size = dmax /\ ~ms[i].raw /\ Agreed'
           /\ ms[i].raw => ms[i].v = "ACK"
           /\ ms[i].v = "ACK" /\ ~ms[i].raw /\ step \in {"program", "erase", "patch"} => Covered',
         \A i \in 1 .. Len(ms) : ms[i].digest = "same" =>
           ms[i].re.op \in DOMAIN ops /\ Claim(ms[i].re) \subseteq flash
  PROVE  Replies' /\ DigestsTrue'
<1>1. Command.re \in Exchanges /\ Quiet(toHost) /\ toHost \in Seq(Msgs)
  BY CommandTaken
<1>2. PICK b \in Nat, a \in Nat : Extends(toHost', toHost, b, ms, a, Command.re)
  BY <1>1, Saying
<1> QED
  BY <1>1, <1>2, SpokenTrue DEF PromptInv, DigestInv

\* A response, behind at most one log, settles the exchange.
LEMMA Settling ==
  ASSUME Base, PromptInv, DevCommand, NEW ms \in Seq(Msgs), UNCHANGED hostVars,
         dpc' # "in", toDev' = <<>>, Say(Command.re, ms), NEW n \in Nat,
         Len(ms) = n + 1, IsEnd(ms[n + 1]), \A i \in 1 .. n : IsLog(ms[i]),
         step \in RawSteps => ms[n + 1].v = "NAK"
  PROVE  Flow'
<1>1. /\ hpc = "read" /\ step # "startup" /\ resp = "none" /\ Command.re \in Exchanges
      /\ Quiet(toHost) /\ toHost \in Seq(Msgs)
  BY CommandTaken
<1>2. PICK b \in Nat, a \in Nat : Extends(toHost', toHost, b, ms, a, Command.re)
  BY <1>1, Saying
<1>3. \E l \in Nat : Answered(toHost', l)
  BY <1>1, <1>2, IsAnswered
<1>4. UNCHANGED <<hpc, step, resp>>
  BY HostStays
<1>5. Settled'
  BY <1>1, <1>3, <1>4 DEF Settled
<1>6. ASSUME step \in RawSteps, NEW j \in 1 .. Len(toHost'), IsEnd(toHost'[j])
      PROVE  toHost'[j].v # "ACK"
  <2>1. \/ \E i \in 1 .. Len(toHost) : toHost'[j] = toHost[i]
        \/ \E i \in 1 .. Len(ms) : toHost'[j] = ms[i]
        \/ toHost'[j] = Log("log", Command.re)
    BY <1>1, <1>2, Members
  <2>2. PICK i \in 1 .. Len(ms) : toHost'[j] = ms[i]
    BY <1>1, <1>6, <2>1, QuietMessages, LogIsLog
  <2>3. i = n + 1
    BY <1>6, <2>2 DEF IsLog, IsEnd
  <2> QED
    BY <1>6, <2>2, <2>3
<1>7. Waiting'
  BY <1>1, <1>4, <1>5, <1>6 DEF Waiting, RawSteps, Probes
<1> QED
  BY <1>1, <1>4, <1>7 DEF Flow

\* One response, to a command that is carried out at once or refused.
LEMMA OneReplyPrompt ==
  ASSUME Base, PromptInv, DevCommand, UNCHANGED hostVars, NEW m \in Msgs,
         Say(Command.re, <<m>>), IsEnd(m), m.re = Exchange(step), m.v \in {"ACK", "NAK"},
         m.digest = "none", dpc' # "in", toDev' = <<>>, flash \subseteq flash', dmax' = dmax,
         desync' = desync,
         daccepted' = daccepted \/ step \in {"configure", "reconfigure"},
         step \in {"configure", "reconfigure"} => m.size = dmax /\ Agreed',
         step \in RawSteps => m.v = "NAK",
         m.v = "ACK" /\ step \in {"erase", "patch"} => Covered'
  PROVE  PromptInv'
<1> DEFINE ms == <<m>>
<1>1. ms \in Seq(Msgs) /\ Len(ms) = 0 + 1 /\ ms[0 + 1] = m /\ \A i \in 1 .. Len(ms) : ms[i] = m
  BY OneMessage
<1>2. hpc = "read" /\ resp = "none"
  BY CommandTaken
<1>3. m.t = "resp" /\ ~m.raw /\ (m.v = "ACK" => step # "program")
  BY DEF IsEnd, RawSteps
<1>4. Say(Command.re, ms)
  OBVIOUS
<1> HIDE DEF ms
<1>5. Replies' /\ DigestsTrue'
  BY <1>1, <1>3, <1>4, SaysOf
<1>6. Flow'
  <2>1. \A i \in 1 .. 0 : IsLog(ms[i])
    OBVIOUS
  <2> QED
    BY <1>1, <1>4, <2>1, Settling
<1> QED
  BY <1>2, <1>5, <1>6, DevicePrompt DEF PromptInv, Configuring

\* What carrying a command out does, beside what is said.
LEMMA CarriedOut ==
  ASSUME Base, PromptInv, DevCommand, DevObey(Command)
  PROVE  /\ UNCHANGED hostVars /\ dmax' = dmax /\ desync' = desync /\ flash \subseteq flash'
         /\ toDev' = <<>>
         /\ daccepted' = IF step \in {"configure", "reconfigure"} /\ Command.n <= dmax
                           THEN Command.n ELSE daccepted
         /\ step \in {"erase", "patch"} => flash' = flash \cup Sectors(Command)
         /\ step # "program" => dpc' \in {"xml", "gone"}
         /\ step \notin {"program", "reset"} => dpc' = "xml"
         /\ step = "program" => dpc' = "in" /\ dcmd' = Command /\ dleft' = Command.n
<1>1. dpc = "xml" /\ Command.cmd = step /\ Head(toDev) = Command /\ Tail(toDev) = <<>>
  BY CommandTaken
<1>2. /\ UNCHANGED hostVars /\ toDev' = <<>>
  BY <1>1 DEF DevCommand
<1>3. /\ dmax' = dmax /\ desync' = desync /\ flash \subseteq flash'
      /\ daccepted' = IF step \in {"configure", "reconfigure"} /\ Command.n <= dmax
                        THEN Command.n ELSE daccepted
      /\ step \in {"erase", "patch"} => flash' = flash \cup Sectors(Command)
  BY <1>1 DEF DevObey
<1>4. dpc' = CASE step = "program" -> "in" [] step = "reset" -> "gone" [] OTHER -> dpc
  BY <1>1 DEF DevObey
<1>5. step = "program" => dcmd' = Command /\ dleft' = Command.n
  BY <1>1 DEF DevObey
<1> QED
  BY <1>1, <1>2, <1>3, <1>4, <1>5

LEMMA SimpleObeyed ==
  ASSUME Base, PromptInv, DevCommand, DevObey(Command),
         step \in {"table", "erase", "patch", "bootable", "reset"}
  PROVE  PromptInv'
<1> DEFINE m == Reply(Command.re, "ACK")
<1>1. /\ hpc = "read" /\ Purpose /\ Command.cmd = step /\ Command.re = Exchange(step)
      /\ Exchange(step) \in Exchanges
  BY CommandTaken
<1>2. m \in Msgs /\ m.t = "resp" /\ m.re = Exchange(step) /\ m.v = "ACK" /\ ~m.raw /\ m.digest = "none"
  BY <1>1, MessageFields DEF Base, TypeOK, DeviceTypes
<1>3. Say(Command.re, <<m>>)
  BY <1>1 DEF DevObey, AnswerTo, Probes
<1> HIDE DEF m
<1>4. IsEnd(m)
  BY <1>2 DEF IsEnd
<1>5. /\ UNCHANGED hostVars /\ dmax' = dmax /\ desync' = desync /\ flash \subseteq flash'
      /\ toDev' = <<>> /\ daccepted' = daccepted /\ dpc' # "in"
      /\ step \in {"erase", "patch"} => flash' = flash \cup Sectors(Command)
  BY CarriedOut
<1>6. step \in {"erase", "patch"} => Covered'
  <2>1. Region' = Region
    BY <1>5, HostStays
  <2>2. step \in {"erase", "patch"} => Sectors(Command) = Region
    BY <1>1, CommandRegion
  <2> QED
    BY <1>5, <2>1, <2>2 DEF Covered
<1>7. step \notin RawSteps /\ step \notin {"configure", "reconfigure"}
  BY DEF RawSteps, Probes
<1> QED
  BY <1>2, <1>3, <1>4, <1>5, <1>6, <1>7, OneReplyPrompt

\* The payload size is agreed to when it fits.
LEMMA ConfigureObeyed ==
  ASSUME Base, PromptInv, DevCommand, DevObey(Command), step \in {"configure", "reconfigure"}
  PROVE  PromptInv'
<1> DEFINE v == IF Command.n <= dmax THEN "ACK" ELSE "NAK"
           m == SizedReply(Command.re, v)
<1>1. /\ hpc = "read" /\ Purpose /\ Command.cmd = step /\ Command.re = Exchange(step)
      /\ Exchange(step) \in Exchanges
  BY CommandTaken
<1>2. /\ m \in Msgs /\ m.t = "resp" /\ m.re = Exchange(step) /\ m.v \in {"ACK", "NAK"} /\ ~m.raw
      /\ m.size = dmax /\ m.digest = "none"
  <2>1. v \in {"ACK", "NAK"} /\ dmax \in Nat
    BY DEF Base, TypeOK, DeviceTypes
  <2> HIDE DEF v
  <2>2. ASSUME NEW re \in Exchanges
        PROVE  LET w == SizedReply(re, v)
               IN /\ w \in Msgs /\ w.t = "resp" /\ w.re = re /\ w.v = v /\ ~w.raw
                  /\ w.size = dmax /\ w.digest = "none"
    BY <2>1 DEF SizedReply, Reply, Log, Msgs
  <2>3. m.re = Command.re /\ m.v = v /\ m \in Msgs /\ m.t = "resp" /\ ~m.raw
        /\ m.size = dmax /\ m.digest = "none"
    BY <1>1, <2>2
  <2> QED
    BY <1>1, <2>1, <2>3
<1>3. Say(Command.re, <<m>>)
  BY <1>1 DEF DevObey, AnswerTo, Probes
<1> HIDE DEF m, v
<1>4. IsEnd(m)
  BY <1>2 DEF IsEnd
<1>5. /\ UNCHANGED hostVars /\ dmax' = dmax /\ desync' = desync /\ flash \subseteq flash'
      /\ toDev' = <<>> /\ dpc' # "in"
      /\ Command.n <= dmax => daccepted' = Command.n
  BY CarriedOut
<1>6. Agreed'
  <2>1. step' = step /\ payload' = payload /\ rsize' = rsize
    BY <1>5, HostStays
  <2>2. /\ step = "configure" => Command.n = payload
        /\ step = "reconfigure" => Command.n = rsize
    BY <1>1, CommandRegion
  <2> QED
    BY <1>5, <2>1, <2>2 DEF Agreed
<1>7. step \notin RawSteps /\ step \notin {"erase", "patch"}
  BY DEF RawSteps, Probes
<1> QED
  BY <1>2, <1>3, <1>4, <1>5, <1>6, <1>7, OneReplyPrompt

\* The digest tells whether the region is on the device.
LEMMA DigestObeyed ==
  ASSUME Base, PromptInv, DevCommand, DevObey(Command), step = "digest"
  PROVE  PromptInv'
<1> DEFINE d == DigestLog(Command.re, Sectors(Command) \subseteq flash)
           m == Reply(Command.re, "ACK")
           ms == <<d, m>>
<1>1. /\ hpc = "read" /\ Purpose /\ Command.cmd = step /\ Command.re = Exchange(step)
      /\ Exchange(step) \in Exchanges
  BY CommandTaken
<1>2. m \in Msgs /\ m.t = "resp" /\ m.re = Exchange(step) /\ m.v = "ACK" /\ ~m.raw /\ m.digest = "none"
  BY <1>1, MessageFields DEF Base, TypeOK, DeviceTypes
<1>3. d \in Msgs /\ d.t = "log" /\ d.re = Command.re /\ (d.digest = "same" <=> Sectors(Command) \subseteq flash)
  <2>1. ASSUME NEW re \in Exchanges, NEW same \in BOOLEAN
        PROVE  LET w == DigestLog(re, same)
               IN w \in Msgs /\ w.t = "log" /\ w.re = re /\ (w.digest = "same" <=> same)
    BY MessageFields DEF Base, TypeOK, DeviceTypes
  <2>2. (Sectors(Command) \subseteq flash) \in BOOLEAN
    OBVIOUS
  <2> QED
    BY <1>1, <2>1, <2>2
<1>4. Say(Command.re, ms)
  BY <1>1 DEF DevObey, AnswerTo, Probes
<1> HIDE DEF m, d
<1>5. /\ ms \in Seq(Msgs) /\ Len(ms) = 1 + 1 /\ ms[1] = d /\ ms[1 + 1] = m
      /\ \A i \in 1 .. Len(ms) : ms[i] = d \/ ms[i] = m
  BY <1>2, <1>3, TwoMessages
<1> HIDE DEF ms
<1>6. /\ UNCHANGED hostVars /\ dmax' = dmax /\ desync' = desync /\ flash \subseteq flash'
      /\ toDev' = <<>> /\ dpc' # "in" /\ daccepted' = daccepted
  BY CarriedOut
<1>7. d.digest = "same" => d.re.op \in DOMAIN ops /\ Claim(d.re) \subseteq flash
  BY <1>1, <1>3, CommandRegion
<1>8. Replies' /\ DigestsTrue'
  BY <1>2, <1>3, <1>4, <1>5, <1>6, <1>7, SaysOf
<1>9. Flow'
  <2>1. IsEnd(ms[1 + 1]) /\ \A i \in 1 .. 1 : IsLog(ms[i])
    BY <1>2, <1>3, <1>5 DEF IsEnd, IsLog
  <2>2. step \notin RawSteps
    BY DEF RawSteps, Probes
  <2> QED
    BY <1>4, <1>5, <1>6, <2>1, <2>2, Settling
<1> QED
  BY <1>6, <1>8, <1>9, DevicePrompt DEF PromptInv

\* The programmer is ready for data.
LEMMA ProgramObeyed ==
  ASSUME Base, PromptInv, DevCommand, DevObey(Command), step = "program"
  PROVE  PromptInv'
<1> DEFINE m == RawReply(Command.re)
           ms == <<m>>
<1>1. /\ hpc = "read" /\ Purpose /\ Command.cmd = step /\ Command.re = Exchange(step)
      /\ Exchange(step) \in Exchanges /\ Quiet(toHost) /\ toHost \in Seq(Msgs) /\ resp = "none"
  BY CommandTaken
<1>2. m \in Msgs /\ m.t = "resp" /\ m.re = Exchange(step) /\ m.v = "ACK" /\ m.raw /\ m.digest = "none"
  BY <1>1, MessageFields DEF Base, TypeOK, DeviceTypes
<1>3. SayRaw(Command.re, ms)
  BY <1>1 DEF DevObey, AnswerTo, Probes
<1> HIDE DEF m
<1>4. ms \in Seq(Msgs) /\ Len(ms) = 1 /\ ms[1] = m /\ \A i \in 1 .. Len(ms) : ms[i] = m
  BY <1>2, OneMessage
<1> HIDE DEF ms
<1>5. /\ UNCHANGED hostVars /\ dmax' = dmax /\ desync' = desync /\ flash \subseteq flash'
      /\ toDev' = <<>> /\ daccepted' = daccepted
      /\ dpc' = "in" /\ dcmd' = Command /\ dleft' = Command.n
  BY CarriedOut
<1>6. Replies' /\ DigestsTrue'
  BY <1>2, <1>3, <1>4, <1>5, SaysOf
<1>7. PICK b \in Nat : Extends(toHost', toHost, b, ms, 0, Command.re)
  BY <1>1, <1>3, <1>4, Saying
<1>8. \E l \in Nat : Ready(toHost', l)
  BY <1>1, <1>2, <1>4, <1>7, IsReady DEF IsRaw
<1>9. /\ UNCHANGED <<hpc, step, resp>> /\ RegionSectors' = RegionSectors
      /\ Exchange("program")' = Exchange("program")
  BY <1>5, HostStays
<1>10. Taking(RegionSectors)'
  <2>1. Command.n = RegionSectors /\ RegionSectors \in Nat /\ RegionSectors >= 1
    BY <1>1, CommandRegion
  <2>2. InFlight(toDev') = 0 /\ Len(toDev') = 0
    BY <1>5, FlightIs
  <2> QED
    BY <1>1, <1>5, <1>9, <2>1, <2>2 DEF Taking
<1>11. Flow'
  BY <1>1, <1>5, <1>8, <1>9, <1>10 DEF Flow, Waiting
<1> QED
  BY <1>5, <1>6, <1>11, DevicePrompt DEF PromptInv

\* Sectors are read.
LEMMA ReadObeyed ==
  ASSUME Base, PromptInv, DevCommand, DevObey(Command), step \in RawSteps \ {"program"}
  PROVE  PromptInv'
<1> DEFINE r == RawReply(Command.re)
           g == Log("data", Command.re)
           m == Reply(Command.re, "ACK")
           ms == Transfer(Command)
           n == Command.n
<1>1. /\ hpc = "read" /\ Purpose /\ Command.cmd = step /\ Command.re = Exchange(step)
      /\ Exchange(step) \in Exchanges /\ Quiet(toHost) /\ toHost \in Seq(Msgs) /\ resp = "none"
      /\ Command \in Commands
  BY CommandTaken
<1>2. /\ r.t = "resp" /\ r.re = Exchange(step) /\ r.v = "ACK" /\ r.raw /\ r.digest = "none"
      /\ m.t = "resp" /\ m.re = Exchange(step) /\ m.v = "ACK" /\ ~m.raw /\ m.digest = "none"
      /\ g.t = "data" /\ g.digest = "none"
  BY <1>1, MessageFields DEF Base, TypeOK, DeviceTypes
<1>3. Say(Command.re, ms)
  BY <1>1 DEF DevObey, AnswerTo, RawSteps, Probes
<1>4. /\ ms \in Seq(Msgs) /\ Len(ms) = n + 2 /\ n \in Nat /\ ms[1] = r /\ ms[n + 2] = m
      /\ \A i \in 2 .. n + 1 : ms[i] = g
  BY <1>1, TransferShape DEF Base, TypeOK, DeviceTypes
<1> HIDE DEF r, g, m, ms, n
<1>5. \A i \in 1 .. Len(ms) : ms[i] = r \/ ms[i] = g \/ ms[i] = m
  <2>1. \A i \in 1 .. n + 2 : i = 1 \/ i \in 2 .. n + 1 \/ i = n + 2
    BY <1>4
  <2> QED
    BY <1>4, <2>1
<1>6. /\ UNCHANGED hostVars /\ dmax' = dmax /\ desync' = desync /\ flash \subseteq flash'
      /\ toDev' = <<>> /\ daccepted' = daccepted /\ dpc' = "xml"
  BY CarriedOut DEF RawSteps, Probes
<1>7. step \notin {"configure", "reconfigure", "program", "erase", "patch"}
  BY DEF RawSteps, Probes
<1>8. Replies' /\ DigestsTrue'
  BY <1>2, <1>3, <1>4, <1>5, <1>6, <1>7, SaysOf
<1>9. PICK b \in Nat, a \in Nat : Extends(toHost', toHost, b, ms, a, Command.re)
  BY <1>1, <1>3, <1>4, Saying
<1>10. \E l \in Nat : Announced(toHost', l, n)
  <2>1. IsRaw(ms[1]) /\ IsEnd(ms[n + 2]) /\ \A i \in 2 .. n + 1 : ms[i].t = "data"
    BY <1>2, <1>4 DEF IsRaw, IsEnd
  <2> QED
    BY <1>1, <1>4, <1>9, <2>1, IsAnnounced
<1>11. UNCHANGED <<hpc, step, resp>> /\ Expected' = Expected /\ n = Expected
  BY <1>1, <1>6, HostStays, CommandRegion DEF n
<1>12. Waiting'
  BY <1>1, <1>6, <1>10, <1>11 DEF Waiting, RawSteps, Probes
<1>13. Flow'
  BY <1>1, <1>11, <1>12 DEF Flow, RawSteps, Probes
<1> QED
  BY <1>6, <1>8, <1>13, DevicePrompt DEF PromptInv

LEMMA DevCommandPrompt ==
  ASSUME Base, PromptInv, DevCommand
  PROVE  PromptInv'
<1>1. /\ hpc = "read" /\ step # "startup" /\ resp = "none" /\ dpc = "xml"
      /\ Head(toDev) = Command /\ Tail(toDev) = <<>> /\ Quiet(toHost) /\ Purpose
      /\ Command.cmd = step /\ Command.re = Exchange(step) /\ Exchange(step) \in Exchanges
  BY CommandTaken
<1>2. step \in AllSteps /\ step \notin {"none", "resetting", "refused", "data"}
  <2>1. "data" \notin AllSteps
    BY DEF AllSteps, Steps, Probes
  <2>2. step \in AllSteps /\ step \notin {"none", "resetting", "refused"}
    BY <1>1 DEF Base, StepInv, TypeOK, HostTypes, Purpose
  <2> QED
    BY <2>1, <2>2
<1>3. UNCHANGED hostVars /\ toDev' = <<>>
  BY <1>1 DEF DevCommand
<1>4. \/ UNCHANGED <<dpc, devRest, daccepted, flash, toHost>>
      \/ DevRefuse(Command)
      \/ DevObey(Command)
  BY <1>1, <1>2, CommandChoice
<1>5. CASE UNCHANGED <<dpc, devRest, daccepted, flash, toHost>>
  <2>1. UNCHANGED <<hpc, step, resp, payload, rsize>> /\ Region' = Region /\ ops' = ops
        /\ Exchange(step)' = Exchange(step) /\ UNCHANGED <<dpc, dmax, daccepted, flash, toHost, desync>>
    BY <1>3, <1>5, HostStays DEF devRest
  <2>2. Settled' /\ \A j \in 1 .. Len(toHost') : ~IsEnd(toHost'[j])
    BY <1>1, <1>3, <2>1, QuietMessages DEF Settled
  <2>3. Waiting'
    BY <1>1, <2>1, <2>2 DEF Waiting
  <2>4. Flow'
    BY <1>1, <2>1, <2>3 DEF Flow
  <2>5. Replies' /\ DigestsTrue'
    BY <1>1, <2>1, QuietMessages DEF PromptInv, DigestInv, Replies, DigestsTrue, Claim
  <2> QED
    BY <1>3, <2>1, <2>4, <2>5, DevicePrompt DEF PromptInv
<1>6. CASE DevRefuse(Command)
  <2> DEFINE m == Reply(Command.re, "NAK")
  <2>1. m \in Msgs /\ m.t = "resp" /\ m.re = Exchange(step) /\ m.v = "NAK" /\ ~m.raw /\ m.digest = "none"
    BY <1>1, MessageFields DEF Base, TypeOK, DeviceTypes
  <2>2. /\ Say(Command.re, <<m>>) /\ UNCHANGED <<dpc, dmax, desync, daccepted, flash>>
        /\ step \notin {"configure", "reconfigure"}
    BY <1>1, <1>6 DEF DevRefuse, devRest
  <2> HIDE DEF m
  <2>3. IsEnd(m)
    BY <2>1 DEF IsEnd
  <2> QED
    BY <1>1, <1>3, <2>1, <2>2, <2>3, OneReplyPrompt
<1>7. CASE DevObey(Command)
  <2>1. step # "startup" /\ step \in {"table", "erase", "patch", "bootable", "reset", "configure",
                                      "reconfigure", "digest", "program"} \cup RawSteps
    BY <1>1, <1>2 DEF AllSteps, Steps, RawSteps
  <2> QED
    BY <1>7, <2>1, SimpleObeyed, ConfigureObeyed, DigestObeyed, ProgramObeyed, ReadObeyed
<1> QED
  BY <1>4, <1>5, <1>6, <1>7

\* Data are taken by a programmer that waits for them, and the last of them is answered.
LEMMA DataTaken ==
  ASSUME Base, PromptInv, DevData
  PROVE  /\ step = "program" /\ toHost = <<>> /\ Purpose
         /\ \E k \in Nat : /\ Taking(k)
                           /\ \/ hpc = "stream" /\ k = left /\ k >= 1
                              \/ hpc = "final" /\ k = 0 /\ resp = "none"
<1>1. dpc = "in" /\ toDev # <<>>
  BY DEF DevData
<1>2. ~Idle /\ ~Settled /\ ~Waiting /\ ~Returned /\ \A n : ~Receiving(n)
  BY <1>1 DEF Idle, Settled, Receiving, Waiting, Returned
<1>3. hpc \in {"stream", "final"}
  BY <1>2 DEF PromptInv, Flow, Base, TypeOK, HostTypes
<1>4. Purpose /\ left \in Nat
  BY <1>3 DEF Base, StepInv, TypeOK, HostTypes
<1>5. CASE hpc = "stream"
  BY <1>4, <1>5 DEF PromptInv, Flow, Base, StepInv
<1>6. CASE hpc = "final"
  BY <1>2, <1>4, <1>6 DEF PromptInv, Flow, Finishing
<1> QED
  BY <1>3, <1>5, <1>6

\* They are the data of the region.
LEMMA DataRegion ==
  ASSUME Base, PromptInv, DevData
  PROVE  Sectors(dcmd) = Region
<1>1. dpc = "in" /\ Purpose /\ hpc # "end" /\ \E k \in Nat : Taking(k)
  BY DataTaken DEF DevData
<1>2. dcmd.re = Exchange("program") /\ dcmd.n = RegionSectors
  BY <1>1 DEF Taking
<1>3. dcmd.re.op = opi /\ dcmd.re.off = off /\ dcmd.n = RegionSectors
  BY <1>2 DEF Exchange
<1>4. off \in Nat /\ RegionSectors \in Nat
  BY <1>1, RegionTyped DEF Base, TypeOK, HostTypes
<1>5. off + RegionSectors - 1 = (off + RegionSectors) - 1
  BY <1>4
<1>6. Sectors(dcmd) = {opi} \X (off .. off + RegionSectors - 1)
  BY <1>3 DEF Sectors
<1>7. Region = {opi} \X (off .. (off + RegionSectors) - 1)
  BY DEF Region, Span
<1> QED
  BY <1>5, <1>6, <1>7

LEMMA DevDataPrompt ==
  ASSUME Base, PromptInv, DevData
  PROVE  PromptInv'
<1> DEFINE c == Head(toDev)
           n == Lesser(c.n, dleft)
<1>1. /\ step = "program" /\ toHost = <<>> /\ Purpose /\ dpc = "in" /\ toDev # <<>>
      /\ toDev \in Seq(Commands) /\ dleft \in Nat /\ daccepted \in Nat
  BY DataTaken DEF DevData, Base, TypeOK, LinkTypes, DeviceTypes
<1>2. PICK k \in Nat : /\ Taking(k)
                       /\ \/ hpc = "stream" /\ k = left /\ k >= 1
                          \/ hpc = "final" /\ k = 0 /\ resp = "none"
  BY DataTaken
<1>3. /\ dcmd.re = Exchange("program") /\ dcmd.n = RegionSectors /\ dleft >= 1
      /\ dleft = InFlight(toDev) + k /\ Len(toDev) <= 2
      /\ \A j \in 1 .. Len(toDev) : toDev[j].cmd = "data" /\ toDev[j].n \in 1 .. daccepted
  BY <1>1, <1>2 DEF Taking
<1>4. /\ c = toDev[1] /\ Tail(toDev) \in Seq(Commands) /\ Len(toDev) \in 1 .. 2
      /\ Len(Tail(toDev)) = Len(toDev) - 1 /\ InFlight(toDev) = c.n + InFlight(Tail(toDev))
      /\ InFlight(Tail(toDev)) \in Nat /\ c \in Commands
      /\ \A j \in 1 .. Len(Tail(toDev)) : Tail(toDev)[j] = toDev[j + 1]
  BY <1>1, <1>3, FlightTail
<1>5. c.cmd = "data" /\ c.n \in Nat /\ c.n >= 1 /\ c.n <= daccepted
  <2>1. 1 \in 1 .. Len(toDev)
    BY <1>4
  <2> QED
    BY <1>1, <1>3, <1>4, <2>1
<1>6. n = c.n /\ dleft - n = InFlight(Tail(toDev)) + k
  <2>1. c.n <= dleft
    BY <1>2, <1>3, <1>4, <1>5
  <2>2. n = c.n
    BY <1>1, <1>5, <2>1 DEF Lesser
  <2> QED
    BY <1>2, <1>3, <1>4, <1>5, <2>2
<1>7. /\ UNCHANGED <<hostVars, dcmd, dmax, daccepted>> /\ toDev' = Tail(toDev)
      /\ desync' = desync /\ dleft' = dleft - n
      /\ \/ n < dleft /\ UNCHANGED <<dpc, flash, toHost>>
         \/ /\ ~(n < dleft) /\ dpc' = "xml"
            /\ \/ flash' = flash \cup Sectors(dcmd) /\ Say(dcmd.re, <<Reply(dcmd.re, "ACK")>>)
               \/ Say(dcmd.re, <<Reply(dcmd.re, "NAK")>>) /\ flash' = flash
  <2>1. /\ desync' = (desync \/ c.cmd # "data" \/ c.n > daccepted) /\ desync \in BOOLEAN
        /\ ~(c.n > daccepted)
    BY <1>1, <1>5 DEF DevData, Base, TypeOK, DeviceTypes
  <2>2. desync' = desync
    BY <1>5, <2>1
  <2> QED
    BY <2>2 DEF DevData
<1> HIDE DEF c, n
<1>8. /\ UNCHANGED <<hpc, step, resp, left, payload, rsize>> /\ RegionSectors' = RegionSectors
      /\ Region' = Region /\ ops' = ops /\ \A s : Exchange(s)' = Exchange(s)
  BY <1>7, HostStays
<1>9. CASE n < dleft /\ UNCHANGED <<dpc, flash, toHost>>
  <2>1. \A j \in 1 .. Len(toDev') : toDev'[j].cmd = "data" /\ toDev'[j].n \in 1 .. daccepted
    <3> SUFFICES ASSUME NEW j \in 1 .. Len(toDev')
                 PROVE  toDev'[j].cmd = "data" /\ toDev'[j].n \in 1 .. daccepted
      OBVIOUS
    <3>1. j + 1 \in 1 .. Len(toDev) /\ toDev'[j] = toDev[j + 1]
      BY <1>4, <1>7
    <3> QED
      BY <1>3, <3>1
  <2>2. dleft' >= 1 /\ dleft' = InFlight(toDev') + k /\ Len(toDev') <= 2
    <3>1. dleft' = dleft - n /\ n \in Nat /\ n < dleft
      BY <1>5, <1>6, <1>7, <1>9
    <3>2. dleft' >= 1
      BY <1>1, <3>1
    <3>3. dleft' = InFlight(toDev') + k
      BY <1>6, <1>7, <3>1
    <3>4. Len(toDev') <= 2
      BY <1>4, <1>7
    <3> QED
      BY <3>2, <3>3, <3>4
  <2>3. Exchange("program")' = Exchange("program")
    BY <1>8
  <2>4. /\ dpc' = "in" /\ dcmd'.re = Exchange("program")' /\ dcmd'.n = RegionSectors'
        /\ daccepted' = daccepted
    BY <1>1, <1>3, <1>7, <1>8, <1>9, <2>3
  <2>5. /\ hpc = "stream" => Taking(left)'
        /\ hpc = "final" => Taking(0)'
    BY <1>2, <1>8, <2>1, <2>2, <2>4 DEF Taking
  <2>6. Flow'
    BY <1>1, <1>2, <1>8, <1>9, <2>5 DEF Flow, Finishing
  <2>7. Replies' /\ DigestsTrue'
    BY <1>1, <1>9 DEF Replies, DigestsTrue
  <2> QED
    BY <1>7, <1>9, <2>6, <2>7, DevicePrompt DEF PromptInv
<1>10. CASE /\ ~(n < dleft) /\ dpc' = "xml"
            /\ \/ flash' = flash \cup Sectors(dcmd) /\ Say(dcmd.re, <<Reply(dcmd.re, "ACK")>>)
               \/ Say(dcmd.re, <<Reply(dcmd.re, "NAK")>>) /\ flash' = flash
  <2>1. k = 0 /\ InFlight(Tail(toDev)) = 0
    BY <1>1, <1>2, <1>4, <1>5, <1>6, <1>10
  <2>2. hpc = "final" /\ resp = "none"
    BY <1>2, <2>1
  <2>3. toDev' = <<>>
    <3>1. CASE Len(Tail(toDev)) = 1
      <4>1. InFlight(Tail(toDev)) = Tail(toDev)[1].n
        BY <3>1, FlightIs
      <4>2. Len(toDev) = 2
        BY <1>4, <3>1
      <4>3. Tail(toDev)[1] = toDev[2] /\ 2 \in 1 .. Len(toDev)
        BY <1>4, <3>1, <4>2
      <4> QED
        BY <1>1, <1>3, <2>1, <4>1, <4>3
    <3>2. CASE Len(Tail(toDev)) # 1
      <4>1. Len(Tail(toDev)) = 0
        BY <1>4, <3>2
      <4> QED
        BY <1>4, <1>7, <4>1, EmptySeq
    <3> QED
      BY <3>1, <3>2
  <2>4. Exchange("program") \in Exchanges /\ dcmd.re = Exchange(step)
    BY <1>1, <1>3, ExchangeTyped DEF Base, TypeOK, HostTypes
  <2>5. PICK m \in Msgs : /\ Say(dcmd.re, <<m>>) /\ IsEnd(m) /\ m.re = Exchange(step)
                          /\ m.v \in {"ACK", "NAK"} /\ m.digest = "none"
                          /\ m.v = "ACK" => flash' = flash \cup Sectors(dcmd)
    <3>1. ASSUME NEW v \in {"ACK", "NAK"}
          PROVE  LET w == Reply(dcmd.re, v)
                 IN w \in Msgs /\ IsEnd(w) /\ w.re = Exchange(step) /\ w.v = v /\ w.digest = "none"
      BY <1>1, <2>4 DEF Reply, Log, Msgs, IsEnd
    <3>2. CASE flash' = flash \cup Sectors(dcmd) /\ Say(dcmd.re, <<Reply(dcmd.re, "ACK")>>)
      BY <3>1, <3>2
    <3>3. CASE Say(dcmd.re, <<Reply(dcmd.re, "NAK")>>) /\ flash' = flash
      BY <3>1, <3>3
    <3> QED
      BY <1>10, <3>2, <3>3
  <2>6. flash \subseteq flash' /\ (m.v = "ACK" => Covered')
    BY <1>8, <1>10, <2>5, DataRegion DEF Covered
  <2> DEFINE ms == <<m>>
  <2>7. /\ ms \in Seq(Msgs) /\ Len(ms) = 0 + 1 /\ ms[0 + 1] = m
        /\ \A i \in 1 .. Len(ms) : ms[i] = m
    BY OneMessage
  <2>8. Say(dcmd.re, ms)
    BY <2>5
  <2> HIDE DEF ms
  <2>9. toHost \in Seq(Msgs) /\ Quiet(toHost) /\ dcmd.re \in Exchanges
    BY <1>1, <2>4, NothingIsQuiet DEF Base, TypeOK, LinkTypes
  <2>10. PICK b \in Nat, a \in Nat : Extends(toHost', toHost, b, ms, a, dcmd.re)
    BY <2>7, <2>8, <2>9, Saying
  <2>11. Replies' /\ DigestsTrue'
    BY <1>1, <1>7, <2>5, <2>6, <2>7, <2>9, <2>10, SpokenTrue DEF PromptInv, DigestInv, IsEnd
  <2>12. \E l \in Nat : Answered(toHost', l)
    <3>1. \A i \in 1 .. 0 : IsLog(ms[i])
      OBVIOUS
    <3> QED
      BY <2>5, <2>7, <2>9, <2>10, <3>1, IsAnswered
  <2>13. Settled'
    BY <1>8, <1>10, <2>2, <2>3, <2>12 DEF Settled
  <2>14. Flow'
    BY <1>1, <1>8, <2>2, <2>13 DEF Flow, Finishing
  <2> QED
    BY <1>7, <2>6, <2>11, <2>14, DevicePrompt DEF PromptInv
<1> QED
  BY <1>7, <1>9, <1>10

-----------------------------------------------------------------------------
(* The invariant.                                                          *)

LEMMA InitPrompt == Init => Given /\ PromptInv
<1> SUFFICES ASSUME Init  PROVE  Given /\ PromptInv
  OBVIOUS
<1>1. /\ hpc = "op" /\ opi = 1 /\ toDev = <<>> /\ toHost = <<>> /\ dpc = "boot" /\ ~desync
      /\ digest = "none"
  BY DEF Init
<1>2. Idle
  BY <1>1, NothingIsQuiet DEF Idle
<1>3. Flow
  BY <1>1, <1>2 DEF Flow
<1>4. Replies /\ Response /\ SizeInv /\ DigestInv /\ Before
  BY <1>1 DEF Replies, Response, SizeInv, DigestInv, DigestsTrue, Before
<1> QED
  BY <1>1, <1>3, <1>4 DEF Given, PromptInv

LEMMA StutterPrompt ==
  ASSUME PromptInv, UNCHANGED vars
  PROVE  PromptInv'
<1>1. /\ UNCHANGED hostVars
      /\ UNCHANGED <<dpc, dcmd, dleft, dmax, daccepted, flash, desync, toDev, toHost>>
  BY DEF vars, devVars
<1>2. /\ UNCHANGED <<hpc, step, resp, left, payload, rsize>> /\ RegionSectors' = RegionSectors
      /\ Expected' = Expected /\ Region' = Region /\ ops' = ops /\ Command' = Command
      /\ Exchange(step)' = Exchange(step) /\ Exchange("program")' = Exchange("program")
  BY <1>1, HostStays
<1>3. (Idle => Idle') /\ (Settled => Settled')
  BY <1>1, <1>2 DEF Idle, Settled
<1>4. /\ Taking(0) => Taking(0)'
      /\ Taking(left) => Taking(left)'
      /\ Taking(RegionSectors) => Taking(RegionSectors)'
      /\ Receiving(left) => Receiving(left)'
      /\ Receiving(Expected) => Receiving(Expected)'
  BY <1>1, <1>2 DEF Taking, Receiving
<1>5. (Waiting => Waiting') /\ (Returned => Returned') /\ (Finishing => Finishing')
  BY <1>1, <1>2, <1>3, <1>4 DEF Waiting, Returned, Finishing, RawSteps, Probes
<1>6. Flow'
  BY <1>1, <1>2, <1>3, <1>4, <1>5 DEF PromptInv, Flow
<1>7. Replies' /\ DigestsTrue'
  <2>1. (Agreed' <=> Agreed) /\ (Covered' <=> Covered)
    BY <1>1, <1>2 DEF Agreed, Covered
  <2> QED
    BY <1>1, <1>2, <2>1 DEF PromptInv, DigestInv, Replies, DigestsTrue, Claim
<1> QED
  BY <1>1, <1>6, <1>7, DevicePrompt DEF PromptInv

LEMMA StutterTyped ==
  ASSUME TypeOK, Given, UNCHANGED vars
  PROVE  TypeOK' /\ Given'
<1>1. /\ UNCHANGED <<run, opi, hpc, step, off, resp, answer, rsize, digest, left, payload,
                     sector_size, vip, requires, single, tries, result>>
      /\ UNCHANGED <<dpc, dcmd, dleft, dmax, daccepted, dvip, dtable, dnext, dwrong, flash, desync,
                     toDev, toHost, late, fails, gone>>
  BY DEF vars, hostVars, devVars, tableVars
<1>2. HostTypes' /\ DeviceTypes' /\ LinkTypes' /\ Given'
  BY <1>1 DEF TypeOK, HostTypes, DeviceTypes, LinkTypes, Given
<1> QED
  BY <1>2 DEF TypeOK

LEMMA Inductive ==
  /\ Init => Inv
  /\ Inv /\ [Next]_vars => Inv'
<1>1. Init => Inv
  BY InitTyped, InitPrompt DEF Inv
<1>2. ASSUME Inv, Host  PROVE  Inv'
  <2>1. TypeOK' /\ Given' /\ StepInv'
    BY <1>2, HostTyped, GivenKept, HostKeeps DEF Inv
  <2>2. late' = 0 => late = 0
    BY <1>2, HostFrame DEF Inv, TypeOK, DeviceTypes
  <2>3. late' = 0 => PromptInv'
    BY <1>2, <2>2, HostPrompt DEF Inv, Base
  <2> QED
    BY <2>1, <2>3 DEF Inv
<1>3. ASSUME Inv, Device \/ DevGone  PROVE  Inv'
  <2>1. UNCHANGED hostVars /\ late' = late
    BY <1>3, DeviceFrame
  <2>2. TypeOK'
    BY <1>3, DevStartTyped, DevCommandTyped, DevDataTyped, DevGoneTyped DEF Inv, Device
  <2>3. Given' /\ StepInv'
    BY <1>3, <2>1, GivenKept, StutterKeeps DEF Inv
  <2>4. late' = 0 => PromptInv'
    BY <1>3, <2>1, DevStartPrompt, DevCommandPrompt, DevDataPrompt, DevGonePrompt
       DEF Inv, Base, Device
  <2> QED
    BY <2>2, <2>3, <2>4 DEF Inv
<1>4. ASSUME Inv, UNCHANGED vars  PROVE  Inv'
  <2>1. UNCHANGED <<hostVars, late>>
    BY <1>4 DEF vars
  <2>2. TypeOK' /\ Given' /\ StepInv'
    BY <1>4, <2>1, StutterTyped, StutterKeeps DEF Inv
  <2>3. late' = 0 => PromptInv'
    BY <1>4, <2>1, StutterPrompt DEF Inv
  <2> QED
    BY <2>2, <2>3 DEF Inv
<1> QED
  BY <1>1, <1>2, <1>3, <1>4 DEF Next, Done

\* Type correctness, of both sides and of what is on its way between them.
THEOREM TypeCorrect == Spec => []TypeOK
<1>1. Inv => TypeOK
  BY DEF Inv
<1> QED
  BY <1>1, Inductive, PTL DEF Spec

\* The inductive invariant: what is on its way belongs to the exchange the host is
\* in, responses mean what they say, and regions behind the host are on the device.
THEOREM Invariance == Spec => []Inv
BY Inductive, PTL DEF Spec

\* With prompt answers, whatever firehose_read() returns with ACK or NAK answers the
\* command that was just written: no <response> is taken for that of another command.
THEOREM ResponsesMatch == Spec => []ResponseMatches
<1>1. Inv => ResponseMatches
  BY DEF Inv, PromptInv, Response, ResponseMatches, Prompt
<1> QED
  BY <1>1, Inductive, PTL DEF Spec

\* With prompt answers, commands reach a programmer that parses XML and raw packets one
\* that takes them, none larger than the payload size it agreed to.
THEOREM NeverDesync == Spec => []NoDesync
<1>1. Inv => NoDesync
  BY DEF Inv, PromptInv, NoDesync, Prompt
<1> QED
  BY <1>1, Inductive, PTL DEF Spec

-----------------------------------------------------------------------------
(* With prompt answers a run implements FlashRun.                          *)

\* The effects of the operation in progress, and what there is of them.
LEMMA EffectsOf ==
  ASSUME Base, Purpose, hpc # "end"
  PROVE  /\ opi \in DOMAIN ops /\ opi <= Len(ops) /\ off \in Nat /\ RegionSectors \in Nat
         /\ Op.type \in {"program", "erase", "patch"} =>
              Effects(opi) = Span(opi, 0, Op.n) /\ Region \subseteq Effects(opi)
         /\ Op.type \notin {"program", "erase", "patch"} => Effects(opi) = {}
         /\ (SkipblockEnabled /\ off + ChunkMax < Op.n) \/ off + RegionSectors = Op.n
<1>1. /\ opi \in DOMAIN ops /\ opi <= Len(ops) /\ off \in Nat /\ (off = 0 \/ Further)
      /\ Op.n \in Nat
  BY WhatFor, OpsFacts DEF Base, StepInv, TypeOK, HostTypes, Op
<1>2. /\ RegionSectors \in Nat /\ off + RegionSectors <= Op.n
      /\ SkipblockEnabled => off < Op.n
      /\ ~SkipblockEnabled => off = 0 /\ RegionSectors = Op.n
  BY <1>1, RegionFacts DEF Base, TypeOK, HostTypes
<1>3. Op.type \in {"program", "erase", "patch"} => Effects(opi) = Span(opi, 0, Op.n)
  BY DEF Effects, HasEffect, Op, Span
<1>4. Op.type \notin {"program", "erase", "patch"} => Effects(opi) = {}
  BY DEF Effects, HasEffect, Op
<1>5. Region \subseteq Span(opi, 0, Op.n)
  <2>1. off .. (off + RegionSectors) - 1 \subseteq 0 .. Op.n - 1
    BY <1>1, <1>2
  <2> QED
    BY <2>1 DEF Region, Span
<1>6. SkipblockEnabled /\ ~(off + ChunkMax < Op.n) => off + RegionSectors = Op.n
  <2>1. SkipblockEnabled => RegionSectors = Lesser(ChunkMax, Op.n - off)
    BY DEF RegionSectors
  <2>2. ChunkMax \in Nat
    BY PayloadAssumption
  <2> QED
    BY <1>1, <1>2, <2>1, <2>2 DEF Lesser
<1> QED
  BY <1>1, <1>2, <1>3, <1>4, <1>5, <1>6

\* The regions before it and the last one are all of an operation.
LEMMA LastRegion ==
  ASSUME Base, PromptInv, hpc \notin {"op", "end"}, Covered,
         ~(SkipblockEnabled /\ off + ChunkMax < Op.n)
  PROVE  Effects(opi) \subseteq flash
<1>1. Purpose /\ Span(opi, 0, off) \subseteq flash
  BY DEF Base, StepInv, PromptInv, Before
<1>2. /\ off \in Nat /\ RegionSectors \in Nat /\ off + RegionSectors = Op.n
      /\ Effects(opi) = Span(opi, 0, Op.n) \/ Effects(opi) = {}
  BY <1>1, EffectsOf
<1>3. Span(opi, 0, off + RegionSectors) = Span(opi, 0, off) \cup Region
  BY <1>2, SpanJoin DEF Region
<1> QED
  BY <1>1, <1>2, <1>3 DEF Covered

\* What a step of the host does to the progress of the run.
Stays    == UNCHANGED <<opi, result>>
Advances == /\ hpc \notin {"op", "end"} /\ opi' = opi + 1 /\ result' = result
            /\ Effects(opi) \subseteq flash
GivesUp  == hpc \notin {"op", "end"} /\ opi' = opi /\ result' = "failed"
Succeeds == hpc = "op" /\ opi > Len(ops) /\ opi' = opi /\ result' = "ok"

\* An operation without effects is over.
LEMMA NoEffect ==
  ASSUME Base, hpc \notin {"op", "end"},
         step \in Configuring \cup Probes \cup {"read", "bootable", "resetting", "refused"}
  PROVE  Effects(opi) \subseteq flash
<1>1. Purpose
  BY DEF Base, StepInv
<1>2. Op.type \notin {"program", "erase", "patch"}
  BY <1>1 DEF Purpose, OneCommand
<1> QED
  BY <1>1, <1>2, EffectsOf

LEMMA OutcomeProgress ==
  ASSUME hpc \notin {"op", "end"},
         \/ ToEnd
         \/ ToRegion
         \/ \E s \in AllSteps : ToWrite(s)
         \/ ToNext /\ Effects(opi) \subseteq flash
  PROVE  Stays \/ Advances \/ GivesUp
BY DEF ToEnd, Fail, ToRegion, ToWrite, ToNext, NextOp, Stays, Advances, GivesUp

LEMMA ConfiguringProgress ==
  ASSUME Base, AfterStartup \/ AfterTable \/ AfterConfigure \/ AfterReconfigure \/ ProbeDone
  PROVE  Stays \/ Advances \/ GivesUp
<1>1. hpc \in {"after", "done"} /\ step \in Configuring \cup Probes
  BY DEF AfterStartup, AfterTable, AfterConfigure, AfterReconfigure, ProbeDone, Configuring
<1>2. Effects(opi) \subseteq flash
  BY <1>1, NoEffect
<1>3. CASE AfterStartup
  BY <1>1, <1>3, AfterStartupOutcome, OutcomeProgress, StepNames
<1>4. CASE AfterTable
  <2>1. CASE ToWrite("configure")
    BY <1>1, <2>1, OutcomeProgress, StepNames
  <2>2. CASE UNCHANGED <<opi, off, tries, result>>
    BY <2>2 DEF Stays
  <2> QED
    BY <1>4, <2>1, <2>2, AfterTableOutcome
<1>5. CASE AfterConfigure
  BY <1>1, <1>2, <1>5, AfterConfigureOutcome, OutcomeProgress, StepNames
<1>6. CASE AfterReconfigure
  BY <1>1, <1>2, <1>6, AfterReconfigureOutcome, OutcomeProgress, StepNames
<1>7. CASE ProbeDone
  BY <1>1, <1>2, <1>7, ProbeDoneOutcome, OutcomeProgress, StepNames
<1> QED
  BY <1>3, <1>4, <1>5, <1>6, <1>7

LEMMA ConcludingProgress ==
  ASSUME Base, PromptInv, AfterDigest \/ Concludes
  PROVE  Stays \/ Advances \/ GivesUp
<1>1. hpc \in {"after", "done"}
  BY DEF AfterDigest, Concludes, Concluding, ProgramDone, ReadDone, AfterErase, AfterPatch,
         AfterBootable, ResetDone
<1>2. CASE AfterDigest
  <2>1. CASE resp = "ACK" /\ digest = "same" /\ ~(SkipblockEnabled /\ off + ChunkMax < Op.n)
    <3>1. Effects(opi) \subseteq flash
      BY <1>1, <1>2, <2>1, RegionDone, LastRegion
    <3> QED
      BY <1>1, <1>2, <3>1, AfterDigestOutcome, OutcomeProgress, StepNames
  <2>2. CASE ToWrite("program") \/ ToRegion
    BY <1>1, <2>2, OutcomeProgress, StepNames
  <2> QED
    BY <1>2, <2>1, <2>2, AfterDigestOutcome
<1>3. CASE Concludes
  <2>1. PICK ok \in BOOLEAN : Concluding(ok)
    BY <1>3 DEF Concludes
  <2>2. CASE ok /\ ToNext /\ ~(SkipblockEnabled /\ off + ChunkMax < Op.n)
    <3>1. CASE ProgramDone
      <4>1. Covered
        BY <2>1, <2>2, <3>1, RegionDone DEF Concluding, ProgramDone, ReadDone, AfterErase, AfterPatch,
           AfterBootable, ResetDone
      <4> QED
        BY <1>1, <2>2, <4>1, LastRegion, OutcomeProgress
    <3>2. CASE AfterErase \/ AfterPatch
      <4>1. hpc = "after" /\ step \in {"erase", "patch"} /\ resp = "ACK"
        BY <2>1, <2>2, <3>2 DEF Concluding, ProgramDone, ReadDone, AfterErase, AfterPatch,
           AfterBootable, ResetDone
      <4>2. Covered
        BY <4>1 DEF PromptInv, Response
      <4> QED
        BY <1>1, <2>2, <4>2, LastRegion, OutcomeProgress
    <3>3. CASE ReadDone \/ AfterBootable \/ ResetDone
      <4>1. step \in {"read", "bootable", "resetting", "refused"}
        BY <3>3 DEF ReadDone, AfterBootable, ResetDone
      <4> QED
        BY <1>1, <2>2, <4>1, NoEffect, OutcomeProgress
    <3> QED
      BY <2>1, <3>1, <3>2, <3>3 DEF Concluding
  <2>3. CASE ToRegion \/ ToEnd
    BY <1>1, <2>3, OutcomeProgress
  <2> QED
    BY <2>1, <2>2, <2>3, ConcludingOutcome
<1> QED
  BY <1>2, <1>3

LEMMA WriteProgress ==
  ASSUME Base, WriteCommand \/ WriteTimesOut \/ WriteFails
  PROVE  Stays \/ Advances \/ GivesUp
<1>1. hpc = "write"
  BY DEF WriteCommand, WriteTimesOut, WriteFails
<1>2. CASE WriteCommand \/ WriteTimesOut
  BY <1>2 DEF WriteCommand, WriteTimesOut, Stays
<1>3. CASE WriteFails /\ step = "bootable"
  <2>1. NextOp /\ result' = result
    BY <1>3 DEF WriteFails, Probes
  <2>2. Effects(opi) \subseteq flash
    BY <1>1, <1>3, NoEffect
  <2> QED
    BY <1>1, <2>1, <2>2 DEF NextOp, Advances
<1>4. CASE WriteFails /\ step \in {"configure", "reconfigure", "table", "digest"} \cup Probes
  BY <1>4 DEF WriteFails, Probes, Stays
<1>5. CASE WriteFails /\ step \notin {"configure", "reconfigure", "table", "digest", "bootable"} \cup Probes
  BY <1>1, <1>5 DEF WriteFails, Probes, Fail, GivesUp
<1> QED
  BY <1>2, <1>3, <1>4, <1>5

LEMMA DataProgress ==
  ASSUME Base, AfterProbe \/ ProgramSetup \/ ReadSetup \/ AfterReset \/ StreamChunk \/ RecvSector
               \/ TransferFails
  PROVE  Stays \/ Advances \/ GivesUp
<1>1. hpc \in {"after", "stream", "recv"}
  BY DEF AfterProbe, ProgramSetup, ReadSetup, AfterReset, StreamChunk, RecvSector, TransferFails
<1>2. step \in Probes => Effects(opi) \subseteq flash
  BY <1>1, NoEffect
<1>3. CASE AfterProbe
  <2>1. step \in Probes
    BY <1>3 DEF AfterProbe
  <2>2. CASE resp = "ACK"
    BY <1>3, <2>2 DEF AfterProbe, Stays
  <2>3. CASE resp # "ACK"
    <3>1. NextProbe
      BY <1>3, <2>3 DEF AfterProbe
    <3> QED
      BY <1>1, <1>2, <2>1, <3>1, NextProbeOutcome, OutcomeProgress, StepNames
  <2> QED
    BY <2>2, <2>3
<1>4. CASE ProgramSetup \/ ReadSetup
  BY <1>1, <1>4 DEF ProgramSetup, ReadSetup, SetUp, Fail, Stays, GivesUp
<1>5. CASE AfterReset
  BY <1>1, <1>5 DEF AfterReset, Fail, Stays, GivesUp
<1>6. CASE StreamChunk \/ RecvSector
  BY <1>6 DEF StreamChunk, RecvSector, Stays
<1>7. CASE TransferFails
  <2>1. CASE step \in Probes
    BY <1>1, <1>2, <1>7, <2>1, NextProbeOutcome, OutcomeProgress, StepNames DEF TransferFails
  <2>2. CASE step \notin Probes
    BY <1>1, <1>7, <2>2 DEF TransferFails, Fail, GivesUp
  <2> QED
    BY <2>1, <2>2
<1> QED
  BY <1>3, <1>4, <1>5, <1>6, <1>7

LEMMA StartProgress ==
  ASSUME Base, StartOp
  PROVE  Stays \/ Succeeds
<1>1. CASE opi > Len(ops)
  <2>1. ~(opi <= Len(ops))
    BY <1>1, OpsFacts DEF Base, TypeOK, HostTypes
  <2> QED
    BY <1>1, <2>1 DEF StartOp, Succeeds
<1>2. CASE ~(opi > Len(ops))
  BY <1>2 DEF StartOp, Stays
<1> QED
  BY <1>1, <1>2

LEMMA HostProgress ==
  ASSUME Base, PromptInv, Host
  PROVE  Stays \/ Advances \/ GivesUp \/ Succeeds
<1>1. ReadMessage \/ ReadTimesOut \/ ReadFails => Stays
  BY DEF ReadMessage, ReadTimesOut, ReadFails, Stays
<1> QED
  BY <1>1, StartProgress, WriteProgress, ConfiguringProgress, ConcludingProgress, DataProgress,
     WhatConcludes DEF Host

\* What a step of the programmer does to the device.
LEMMA DeviceProgress ==
  ASSUME Base, PromptInv, Device \/ DevGone
  PROVE  \/ flash' = flash
         \/ /\ flash' = flash \cup Region
            /\ Purpose /\ hpc \notin {"op", "end"} /\ Region \subseteq Effects(opi)
<1>1. CASE DevStart \/ DevGone
  BY <1>1 DEF DevStart, DevGone
<1>2. CASE DevCommand
  <2>1. /\ hpc = "read" /\ Purpose /\ Head(toDev) = Command /\ Command.cmd = step
    BY <1>2, CommandTaken
  <2>2. CASE DevObey(Command) /\ step \in {"erase", "patch"}
    <3>1. flash' = flash \cup Sectors(Command) /\ Sectors(Command) = Region
      BY <1>2, <2>1, <2>2, CarriedOut, CommandRegion
    <3>2. Op.type \in {"erase", "patch"}
      BY <2>1, <2>2 DEF Purpose, OneCommand
    <3>3. Region \subseteq Effects(opi)
      BY <2>1, <3>2, EffectsOf
    <3> QED
      BY <2>1, <3>1, <3>3
  <2>3. CASE DevObey(Command) /\ step \notin {"erase", "patch"}
    BY <2>1, <2>3 DEF DevObey
  <2>4. DevObey(Command) \/ flash' = flash
    BY <1>2, <2>1, CommandChoice DEF DevRefuse
  <2> QED
    BY <2>2, <2>3, <2>4
<1>3. CASE DevData
  <2>1. /\ step = "program" /\ Purpose /\ hpc \in {"stream", "final"}
    BY <1>3, DataTaken
  <2>2. Sectors(dcmd) = Region
    BY <1>3, DataRegion
  <2>3. Region \subseteq Effects(opi)
    BY <2>1, EffectsOf DEF Purpose, OneCommand
  <2>4. flash' = flash \/ flash' = flash \cup Sectors(dcmd)
    BY <1>3 DEF DevData
  <2> QED
    BY <2>1, <2>2, <2>3, <2>4
<1> QED
  BY <1>1, <1>2, <1>3 DEF Device

\* FlashRun's variables.
Todo    == [i \in DOMAIN ops |-> Effects(i)]
At      == IF run.late = 0 THEN opi ELSE 1
Present == IF run.late = 0 THEN flash ELSE {}
Outcome == IF run.late = 0 THEN result ELSE "none"

LEMMA TodoFacts ==
  ASSUME run \in Runs
  PROVE  /\ DOMAIN Todo = DOMAIN ops /\ Len(Todo) = Len(ops)
         /\ \A i \in DOMAIN ops : Todo[i] = Effects(i)
<1>1. DOMAIN ops = 1 .. Len(ops) /\ Len(ops) \in Nat
  BY OpsFacts
<1>2. Todo \in [1 .. Len(ops) -> {Effects(i) : i \in 1 .. Len(ops)}]
  BY <1>1 DEF Todo
<1>3. Len(Todo) = Len(ops)
  BY <1>1, <1>2, IsSequence
<1> QED
  BY <1>3 DEF Todo

LEMMA InitImplements == Init => Abstract!Init
<1> SUFFICES ASSUME Init  PROVE  Abstract!Init
  OBVIOUS
<1>1. run \in Runs /\ opi = 1 /\ result = "none"
  BY DEF Init
<1>2. AllEffects = UNION {Todo[i] : i \in DOMAIN Todo}
  BY <1>1, TodoFacts DEF AllEffects
<1>3. Present \subseteq AllEffects
  BY DEF Init, Present
<1>4. At = 1 /\ Outcome = "none"
  BY <1>1 DEF At, Outcome
<1> QED
  BY <1>2, <1>3, <1>4 DEF Abstract!Init, Todo, At, Present, Outcome

LEMMA StepImplements ==
  ASSUME Inv, [Next]_vars
  PROVE  Abstract!Next \/ UNCHANGED <<Todo, At, Present, Outcome>>
<1>1. Base /\ run \in Runs /\ opi \in Nat
  BY DEF Inv, Base, TypeOK, HostTypes
<1>2. run' = run
  <2>1. CASE Host
    BY <2>1, HostFrame
  <2>2. CASE Device \/ DevGone
    BY <2>2, DeviceFrame DEF hostVars
  <2>3. CASE UNCHANGED vars
    BY <2>3 DEF vars, hostVars
  <2> QED
    BY <2>1, <2>2, <2>3 DEF Next, Done
<1>3. Todo' = Todo
  BY <1>2 DEF Todo, Effects, ops
<1>4. CASE run.late # 0
  BY <1>2, <1>3, <1>4 DEF At, Present, Outcome
<1>5. CASE run.late = 0
  <2>1. PromptInv /\ (hpc # "end" => result = "none")
    <3>1. late \in Nat /\ late <= 0
      BY <1>5 DEF Inv, StepInv, TypeOK, DeviceTypes
    <3> QED
      BY <3>1 DEF Inv, StepInv
  <2>2. /\ At = opi /\ Present = flash /\ Outcome = result
        /\ At' = opi' /\ Present' = flash' /\ Outcome' = result'
    BY <1>2, <1>5 DEF At, Present, Outcome
  <2>3. DOMAIN Todo = DOMAIN ops /\ Len(Todo) = Len(ops) /\ \A i \in DOMAIN ops : Todo[i] = Effects(i)
    BY <1>1, TodoFacts
  <2>4. hpc \notin {"op", "end"} => opi \in DOMAIN ops /\ opi <= Len(ops)
    BY <1>1, WhatFor DEF Base, StepInv
  <2>5. CASE Host
    <3>1. flash' = flash
      BY <2>5, HostFrame
    <3>2. Stays \/ Advances \/ GivesUp \/ Succeeds
      BY <1>1, <2>1, <2>5, HostProgress
    <3>3. CASE Stays
      BY <1>3, <2>2, <3>1, <3>3 DEF Stays
    <3>4. CASE Advances
      <4>1. /\ Outcome = "none" /\ At <= Len(Todo) /\ Todo[At] \subseteq Present
            /\ At' = At + 1 /\ UNCHANGED <<Todo, Present, Outcome>>
        BY <1>3, <2>1, <2>2, <2>3, <2>4, <3>1, <3>4 DEF Advances
      <4>2. Abstract!Advance
        BY <4>1 DEF Abstract!Advance, Todo, At, Present, Outcome
      <4> QED
        BY <4>2 DEF Abstract!Next
    <3>5. CASE GivesUp
      <4>1. /\ Outcome = "none" /\ At <= Len(Todo) /\ Outcome' = "failed"
            /\ UNCHANGED <<Todo, At, Present>>
        BY <1>3, <2>1, <2>2, <2>3, <2>4, <3>1, <3>5 DEF GivesUp
      <4>2. Abstract!GiveUp
        BY <4>1 DEF Abstract!GiveUp, Todo, At, Present, Outcome
      <4> QED
        BY <4>2 DEF Abstract!Next
    <3>6. CASE Succeeds
      <4>1. /\ Outcome = "none" /\ At > Len(Todo) /\ Outcome' = "ok"
            /\ UNCHANGED <<Todo, At, Present>>
        BY <1>3, <2>1, <2>2, <2>3, <3>1, <3>6 DEF Succeeds
      <4>2. Abstract!Succeed
        BY <4>1 DEF Abstract!Succeed, Todo, At, Present, Outcome
      <4> QED
        BY <4>2 DEF Abstract!Next
    <3> QED
      BY <3>2, <3>3, <3>4, <3>5, <3>6
  <2>6. CASE Device \/ DevGone
    <3>1. UNCHANGED <<opi, result>>
      BY <2>6, DeviceFrame DEF hostVars
    <3>2. CASE flash' = flash
      BY <1>3, <2>2, <3>1, <3>2
    <3>3. CASE /\ flash' = flash \cup Region
               /\ Purpose /\ hpc \notin {"op", "end"} /\ Region \subseteq Effects(opi)
      <4>1. /\ At <= Len(Todo) /\ Region \in SUBSET Todo[At] /\ Present' = Present \cup Region
            /\ UNCHANGED <<Todo, At, Outcome>>
        BY <1>3, <2>2, <2>3, <2>4, <3>1, <3>3
      <4>2. Abstract!TakeEffect
        BY <4>1 DEF Abstract!TakeEffect, Todo, At, Present, Outcome
      <4> QED
        BY <4>2 DEF Abstract!Next
    <3> QED
      BY <1>1, <2>1, <2>6, <3>2, <3>3, DeviceProgress
  <2>7. CASE UNCHANGED vars
    <3>1. UNCHANGED <<opi, result, flash>>
      BY <2>7 DEF vars, hostVars, devVars
    <3> QED
      BY <1>3, <2>2, <3>1
  <2> QED
    BY <2>5, <2>6, <2>7 DEF Next, Done
<1> QED
  BY <1>4, <1>5

\* With prompt answers a run is one of FlashRun: its operations take effect in order,
\* none before all that was before it, and it succeeds only when all of them have.
THEOREM FlashRunImplemented == Spec => ImplementsFlashRun
<1>1. Init => Abstract!Init
  BY InitImplements
<1>2. Inv /\ [Next]_vars => [Abstract!Next]_<<Todo, At, Present, Outcome>>
  BY StepImplements
<1> QED
  BY <1>1, <1>2, Inductive, PTL
  DEF Spec, ImplementsFlashRun, Abstract!Spec, Todo, At, Present, Outcome

-----------------------------------------------------------------------------
(* What a run that reports success leaves behind.                          *)

\* The operations before the one in progress have taken effect.
Finished ==
  late = 0 /\ result # "failed" =>
    /\ \A i \in DOMAIN ops : i < opi => Effects(i) \subseteq flash
    /\ result = "ok" => opi > Len(ops)

LEMMA FinishedKept ==
  ASSUME Inv, [Next]_vars, Finished
  PROVE  Finished'
<1> SUFFICES ASSUME late' = 0, result' # "failed"
             PROVE  /\ \A i \in DOMAIN ops' : i < opi' => Effects(i)' \subseteq flash'
                    /\ result' = "ok" => opi' > Len(ops')
  BY DEF Finished
<1>1. Base /\ run \in Runs /\ opi \in Nat /\ (hpc # "end" <=> result = "none")
  BY DEF Inv, Base, TypeOK, HostTypes, StepInv
<1>2. DOMAIN ops = 1 .. Len(ops) /\ Len(ops) \in Nat
  BY <1>1, OpsFacts
<1>3. CASE Host
  <2>1. run' = run /\ flash' = flash /\ late = 0
    <3>1. late \in Nat
      BY DEF Inv, TypeOK, DeviceTypes
    <3> QED
      BY <1>3, <3>1, HostFrame
  <2>2. PromptInv /\ ops' = ops /\ \A i \in DOMAIN ops : Effects(i)' = Effects(i)
    BY <2>1 DEF Inv, ops, Effects
  <2>3. Stays \/ Advances \/ GivesUp \/ Succeeds
    BY <1>1, <1>3, <2>2, HostProgress
  <2>4. CASE Stays
    BY <2>1, <2>2, <2>4 DEF Stays, Finished
  <2>5. CASE Advances
    <3>1. result = "none" /\ result' = "none" /\ opi' = opi + 1 /\ Effects(opi) \subseteq flash
      BY <1>1, <2>5 DEF Advances
    <3>2. \A i \in DOMAIN ops : i < opi' => i < opi \/ i = opi
      BY <1>1, <1>2, <3>1
    <3> QED
      BY <2>1, <2>2, <3>1, <3>2 DEF Finished
  <2>6. CASE Succeeds
    BY <1>1, <2>1, <2>2, <2>6 DEF Succeeds, Finished
  <2> QED
    BY <2>3, <2>4, <2>5, <2>6 DEF GivesUp
<1>4. CASE Device \/ DevGone
  <2>1. UNCHANGED <<run, opi, result>> /\ late = 0
    BY <1>4, DeviceFrame DEF hostVars
  <2>2. PromptInv /\ ops' = ops /\ \A i \in DOMAIN ops : Effects(i)' = Effects(i)
    BY <2>1 DEF Inv, ops, Effects
  <2>3. flash \subseteq flash'
    BY <1>1, <1>4, <2>2, DeviceProgress
  <2> QED
    BY <2>1, <2>2, <2>3 DEF Finished
<1>5. CASE UNCHANGED vars
  <2>1. UNCHANGED <<run, opi, result, flash, late>>
    BY <1>5 DEF vars, hostVars, devVars
  <2>2. ops' = ops /\ \A i \in DOMAIN ops : Effects(i)' = Effects(i)
    BY <2>1 DEF ops, Effects
  <2> QED
    BY <2>1, <2>2 DEF Finished
<1> QED
  BY <1>3, <1>4, <1>5 DEF Next, Done

\* A run that reports success has left all of its operations on the device, as long as
\* no read gave up on an answer that was still to come; logs may come late.
THEOREM SuccessIsComplete == Spec => []FlashComplete
<1>1. Init => Finished
  <2> SUFFICES ASSUME Init  PROVE  Finished
    OBVIOUS
  <2>1. run \in Runs /\ opi = 1 /\ result = "none"
    BY DEF Init
  <2>2. DOMAIN ops = 1 .. Len(ops)
    BY <2>1, OpsFacts
  <2> QED
    BY <2>1, <2>2 DEF Finished
<1>2. Inv /\ Finished => FlashComplete
  <2> SUFFICES ASSUME Inv, Finished, late = 0, result = "ok"
               PROVE  AllEffects \subseteq flash
    BY DEF FlashComplete, Prompt
  <2>1. opi \in Nat /\ DOMAIN ops = 1 .. Len(ops) /\ Len(ops) \in Nat
    BY OpsFacts DEF Inv, TypeOK, HostTypes
  <2>2. \A i \in DOMAIN ops : Effects(i) \subseteq flash
    BY <2>1 DEF Finished
  <2> QED
    BY <2>2 DEF AllEffects
<1> QED
  BY <1>1, <1>2, FinishedKept, Inductive, PTL DEF Spec

-----------------------------------------------------------------------------
(* What goes to a programmer that has been given the signed table.         *)

\* The command is the packet of the tables at p.
Fits(c, p) == p.op \in DOMAIN ops /\ PacketAt(p) = Packet(c.re.op, c.cmd, c.n)

\* The packets on their way are the next ones in the tables; where one is behind them.
InOrder ==
  /\ Len(toDev) <= 2
  /\ Len(toDev) >= 1 => Fits(toDev[1], dnext)
  /\ Len(toDev) = 2 => Fits(toDev[2], After(dnext))
Ahead ==
  CASE Len(toDev) = 0 -> dnext
    [] Len(toDev) = 1 -> After(dnext)
    [] OTHER -> After(After(dnext))

\* The packet of the tables that the host sends next.
DataAt(k) == [op |-> opi, begun |-> TRUE, at |-> k]
HostPlace ==
  IF hpc \in {"op", "write", "drain", "end"} \/ step = "startup" THEN Position(opi)
  ELSE IF hpc = "stream" THEN DataAt(Op.n - left)
  ELSE IF step = "program" /\ hpc \in {"read", "after"} THEN DataAt(0)
  ELSE Position(opi + 1)

NoTable    == \A k \in 1 .. Len(toDev) : toDev[k].cmd # "table"
NoResponse == \A j \in 1 .. Len(toHost) : toHost[j].t # "resp"

-----------------------------------------------------------------------------
(* The state of a session.                                                 *)

\* The table has not been sent, ...
Prepared ==
  /\ ~dtable /\ toDev = <<>> /\ opi = 1 /\ dnext = Position(1) /\ NoResponse /\ dpc # "in"
  /\ hpc # "op" => single
  /\ \/ hpc = "op"
     \/ hpc \in {"read", "after"} /\ step = "startup"
     \/ hpc = "write" /\ step = "table" /\ requires
     \/ hpc \in {"read", "after"} /\ step = "configure" /\ resp # "ACK" /\ dpc = "gone"
     \/ hpc = "end" /\ result = "failed"

\* ... is not sent, because the programmer did not ask for it, ...
Without == ~dtable /\ NoTable /\ step # "table"

\* ... has been sent, but nothing behind it, ...
Offered ==
  /\ opi = 1 /\ dnext = Position(1) /\ dpc # "in"
  /\ toDev = <<>> \/ (~dtable /\ Len(toDev) = 1 /\ toDev[1].cmd = "table")
  /\ \A j \in 1 .. Len(toHost) : toHost[j].t = "resp" =>
       toHost[j].size = 0 /\ (toHost[j].v = "ACK" => dtable)
  /\ \/ hpc \in {"read", "after"} /\ step = "table" /\ (resp = "ACK" => dtable)
     \/ hpc \in {"read", "after"} /\ step = "configure" /\ resp # "ACK"
     \/ hpc = "end" /\ result = "failed"

\* ... or has been accepted.  What the host has sent is then on its way or has been
\* compared; ...
Reached == dnext = HostPlace
Stuck ==
  /\ hpc \in {"read", "after", "stream", "final", "done"}
  /\ step \notin {"startup", "resetting", "refused"}
  /\ NoResponse /\ (hpc # "stream" => resp \notin {"ACK", "NAK"})
Ignored == \E i \in DOMAIN ops : ops[i].type = "bootable"

\* ... if the programmer has gone, and did not answer what was not, the host gets no
\* further.
Underway ==
  /\ dtable /\ NoTable /\ step # "table"
  /\ dmax = HostPayload =>
       /\ InOrder
       /\ result # "failed" =>
            IF dpc # "gone" THEN Ahead = HostPlace
                            ELSE late = 0 /\ ~Ignored => Reached \/ Stuck

Tabled == requires /\ single /\ step \notin Probes \cup {"digest"}

Session ==
  /\ vip = "INIT" => Prepared
  /\ vip = "DISABLED" => Without
  /\ vip = "SEND_DATA" => Tabled /\ (Offered \/ Underway)

\* The programmer asked for it; and it has compared what was in the tables.
DeviceSession ==
  /\ dpc = "gone" => toDev = <<>>
  /\ requires \/ (\E j \in 1 .. Len(toHost) : toHost[j].t = "marker") => dvip
  /\ dmax = HostPayload => ~dwrong

\* No other payload size is proposed where the two agree from the beginning.
Proposals ==
  /\ \A j \in 1 .. Len(toHost) : toHost[j].size \in {0, dmax}
  /\ rsize \in {0, dmax} /\ payload \in {HostPayload, dmax}
  /\ dmax = HostPayload => step # "reconfigure"

\* The operation in progress is one of the list, until it has been walked.
Walked ==
  /\ opi <= Len(ops) + 1
  /\ result = "ok" => opi = Len(ops) + 1

SessionInv == Walked /\ Proposals /\ DeviceSession /\ Session

-----------------------------------------------------------------------------
(* What a step of the host leaves alone.                                   *)

LEMMA HostLeaves ==
  ASSUME Host
  PROVE  /\ UNCHANGED <<run, dnext, dwrong, dvip, dtable, dpc, dmax>> /\ ops' = ops
         /\ toDev' = toDev \/ WriteCommand \/ StreamChunk
         /\ toHost' = toHost \/ (toHost # <<>> /\ toHost' = Tail(toHost))
         /\ requires' = requires \/ ReadMessage
<1> DEFINE Same == UNCHANGED <<dnext, dwrong>>
           Rest == UNCHANGED <<toDev, toHost, requires>>
<1>1. UNCHANGED devVars => Same
  BY DEF devVars, tableVars
<1>2. Frame => Same /\ Rest
  BY <1>1 DEF Frame, exchangeRest
<1>3. AfterStartup \/ AfterTable \/ AfterConfigure \/ AfterReconfigure \/ ProbeDone \/ AfterDigest
        => Same /\ Rest
  BY <1>2, AfterStartupOutcome, AfterTableOutcome, AfterConfigureOutcome, AfterReconfigureOutcome,
     ProbeDoneOutcome, AfterDigestOutcome DEF Plain
<1>4. Concludes => Same /\ Rest
  BY <1>2, ConcludingOutcome DEF Plain, Concludes
<1>5. StartOp \/ WriteTimesOut \/ WriteFails \/ ReadTimesOut \/ ReadFails \/ TransferFails
        => Same /\ Rest
  BY <1>1 DEF StartOp, WriteTimesOut, WriteFails, ReadTimesOut, ReadFails, TransferFails
<1>6. AfterProbe \/ ProgramSetup \/ ReadSetup \/ AfterReset => Same /\ Rest
  BY <1>1 DEF AfterProbe, ProgramSetup, ReadSetup, SetUp, AfterReset, exchangeRest
<1>7. WriteCommand \/ StreamChunk => Same /\ UNCHANGED <<toHost, requires>>
  BY <1>1 DEF WriteCommand, StreamChunk
<1>8. ReadMessage => Same /\ toHost # <<>> /\ toHost' = Tail(toHost) /\ toDev' = toDev
  BY <1>1 DEF ReadMessage
<1>9. RecvSector => Same /\ toHost # <<>> /\ toHost' = Tail(toHost) /\ UNCHANGED <<toDev, requires>>
  BY DEF RecvSector, tableVars
<1>10. UNCHANGED <<run, dvip, dtable, dpc, dmax>> /\ ops' = ops
  BY HostFrame DEF ops
<1> QED
  BY <1>3, <1>4, <1>5, <1>6, <1>7, <1>8, <1>9, <1>10, WhatConcludes DEF Host

\* What is left of the messages was there before.
LEMMA StillThere ==
  ASSUME TypeOK, Host, NEW j \in 1 .. Len(toHost')
  PROVE  \E i \in 1 .. Len(toHost) : toHost'[j] = toHost[i]
<1>1. toHost \in Seq(Msgs) /\ Len(toHost) \in Nat
  BY LenProperties DEF TypeOK, LinkTypes
<1>2. CASE toHost' = toHost
  BY <1>2
<1>3. CASE toHost # <<>> /\ toHost' = Tail(toHost)
  <2>1. /\ Len(toHost') = Len(toHost) - 1
        /\ \A i \in 1 .. Len(toHost') : toHost'[i] = toHost[i + 1]
    BY <1>1, <1>3, HeadIsFirst
  <2>2. j + 1 \in 1 .. Len(toHost) /\ toHost'[j] = toHost[j + 1]
    BY <1>1, <2>1
  <2> QED
    BY <2>2
<1> QED
  BY <1>2, <1>3, HostLeaves

LEMMA NoResponseStays ==
  ASSUME TypeOK, Host, NoResponse
  PROVE  NoResponse'
BY StillThere DEF NoResponse

LEMMA HostActs ==
  ASSUME Host
  PROVE  hpc # "end"
<1>1. StartOp \/ WriteCommand \/ WriteTimesOut \/ WriteFails => hpc # "end"
  BY DEF StartOp, WriteCommand, WriteTimesOut, WriteFails
<1>2. ReadMessage \/ ReadTimesOut \/ ReadFails => hpc # "end"
  BY DEF ReadMessage, ReadTimesOut, ReadFails, Reading
<1>3. AfterStartup \/ AfterTable \/ AfterConfigure \/ AfterReconfigure \/ AfterProbe \/ ProbeDone
        \/ AfterDigest => hpc # "end"
  BY DEF AfterStartup, AfterTable, AfterConfigure, AfterReconfigure, AfterProbe, ProbeDone,
         AfterDigest
<1>4. ProgramSetup \/ ReadSetup \/ ProgramDone \/ ReadDone \/ AfterErase \/ AfterPatch
        \/ AfterBootable \/ AfterReset \/ ResetDone => hpc # "end"
  BY DEF ProgramSetup, ReadSetup, ProgramDone, ReadDone, AfterErase, AfterPatch, AfterBootable,
         AfterReset, ResetDone
<1>5. StreamChunk \/ RecvSector \/ TransferFails => hpc # "end"
  BY DEF StreamChunk, RecvSector, TransferFails
<1> QED
  BY <1>1, <1>2, <1>3, <1>4, <1>5 DEF Host

\* How far the host gets in a step.
LEMMA HowFar ==
  ASSUME Base, Host
  PROVE  \/ Stays \/ GivesUp \/ Succeeds
         \/ hpc \notin {"op", "end"} /\ opi' = opi + 1 /\ result' = result
<1> DEFINE Far == \/ Stays \/ GivesUp \/ Succeeds
                  \/ hpc \notin {"op", "end"} /\ opi' = opi + 1 /\ result' = result
<1>1. Stays \/ Advances \/ GivesUp \/ Succeeds => Far
  BY DEF Advances
<1>2. StartOp \/ WriteCommand \/ WriteTimesOut \/ WriteFails => Far
  BY <1>1, StartProgress, WriteProgress
<1>3. ReadMessage \/ ReadTimesOut \/ ReadFails => Far
  BY DEF ReadMessage, ReadTimesOut, ReadFails, Stays
<1>4. AfterStartup \/ AfterTable \/ AfterConfigure \/ AfterReconfigure \/ ProbeDone => Far
  BY <1>1, ConfiguringProgress
<1>5. AfterProbe \/ ProgramSetup \/ ReadSetup \/ AfterReset \/ StreamChunk \/ RecvSector
        \/ TransferFails => Far
  BY <1>1, DataProgress
<1>6. ToNext \/ ToEnd \/ ToRegion \/ ToWrite("program") => hpc \in {"op", "end"} \/ Far
  BY DEF ToNext, NextOp, ToEnd, Fail, ToRegion, ToWrite, Stays, GivesUp
<1>7. AfterDigest => Far
  BY <1>6, AfterDigestOutcome DEF AfterDigest
<1>8. Concludes => Far
  <2> SUFFICES ASSUME NEW ok \in BOOLEAN, Concluding(ok)  PROVE  Far
    BY DEF Concludes
  <2>1. hpc \in {"after", "done"}
    BY DEF Concluding, ProgramDone, ReadDone, AfterErase, AfterPatch, AfterBootable, ResetDone
  <2> QED
    BY <1>6, <2>1, ConcludingOutcome
<1> QED
  BY <1>2, <1>3, <1>4, <1>5, <1>7, <1>8, WhatConcludes DEF Host

LEMMA WalkedStays ==
  ASSUME Base, Walked, Host
  PROVE  Walked'
<1>1. opi \in Nat /\ ops' = ops /\ Len(ops) \in Nat /\ DOMAIN ops = 1 .. Len(ops)
  BY HostLeaves, OpsFacts DEF Base, TypeOK, HostTypes
<1>2. hpc \notin {"op", "end"} => opi <= Len(ops) /\ result = "none"
  BY <1>1, WhatFor DEF Base, StepInv
<1> QED
  BY <1>1, <1>2, HowFar DEF Walked, Stays, GivesUp, Succeeds

-----------------------------------------------------------------------------
(* Payload sizes.                                                          *)

LEMMA ProposalsStay ==
  ASSUME Base, Proposals, Host
  PROVE  Proposals'
<1>1. dmax' = dmax /\ dmax \in Nat \ {0} /\ HostPayload \in Nat \ {0}
  BY HostLeaves, PayloadAssumption DEF Base, TypeOK, DeviceTypes
<1>2. \A j \in 1 .. Len(toHost') : toHost'[j].size \in {0, dmax}
  BY StillThere DEF Base, Proposals
<1>3. rsize' \in {0, dmax}
  <2>1. CASE ReadMessage
    <3>1. toHost # <<>> /\ rsize' \in {rsize, Head(toHost).size}
      BY <2>1 DEF ReadMessage
    <3>2. toHost \in Seq(Msgs) /\ Head(toHost) = toHost[1] /\ 1 \in 1 .. Len(toHost)
      BY <3>1, HeadIsFirst DEF Base, TypeOK, LinkTypes
    <3> QED
      BY <3>1, <3>2 DEF Proposals
  <2>2. CASE ~ReadMessage
    <3>1. rsize' = rsize
      <4>1. Frame => rsize' = rsize
        BY DEF Frame, exchangeRest
      <4>2. AfterStartup \/ AfterTable \/ AfterConfigure \/ AfterReconfigure \/ ProbeDone
              \/ AfterDigest => Frame
        BY AfterStartupOutcome, AfterTableOutcome, AfterConfigureOutcome,
           AfterReconfigureOutcome, ProbeDoneOutcome, AfterDigestOutcome DEF Plain
      <4>3. Concludes => Frame
        BY ConcludingOutcome DEF Plain, Concludes
      <4>4. StartOp \/ WriteCommand \/ WriteTimesOut \/ WriteFails \/ ReadTimesOut \/ ReadFails
              => rsize' = rsize
        BY DEF StartOp, WriteCommand, WriteTimesOut, WriteFails, ReadTimesOut, ReadFails
      <4>5. AfterProbe \/ ProgramSetup \/ ReadSetup \/ AfterReset => rsize' = rsize
        BY DEF AfterProbe, ProgramSetup, ReadSetup, SetUp, AfterReset, exchangeRest
      <4>6. StreamChunk \/ RecvSector \/ TransferFails => rsize' = rsize
        BY DEF StreamChunk, RecvSector, TransferFails
      <4> QED
        BY <2>2, <4>1, <4>2, <4>3, <4>4, <4>5, <4>6, WhatConcludes DEF Host
    <3> QED
      BY <3>1 DEF Proposals
  <2> QED
    BY <2>1, <2>2
<1>4. payload' \in {HostPayload, dmax} /\ (dmax = HostPayload => step' # "reconfigure")
  <2> DEFINE Kept == payload' = payload /\ (step' = "reconfigure" => step = "reconfigure")
  <2>1. CASE AfterConfigure
    <3>1. resp = "ACK" => rsize = dmax
      <4>1. hpc = "after" /\ step = "configure"
        BY <2>1 DEF AfterConfigure
      <4> QED
        BY <4>1 DEF Base, StepInv, Proposals
    <3>2. dmax = HostPayload /\ resp = "ACK" => rsize = payload
      BY <3>1 DEF Proposals
    <3>3. payload' = payload /\ (step' = "reconfigure" => ToWrite("reconfigure") \/ step = "reconfigure")
      BY <2>1, AfterConfigureOutcome DEF Plain, ToWrite, ToNext, ToEnd, Write
    <3>4. dmax = HostPayload => step' # "reconfigure"
      <4>1. dmax = HostPayload => step # "reconfigure"
        BY DEF Proposals
      <4> QED
        BY <2>1, <3>2, <4>1, AfterConfigureOutcome DEF ToWrite, ToNext, ToEnd, Write
    <3> QED
      BY <3>3, <3>4 DEF Proposals
  <2>2. CASE AfterReconfigure
    <3>1. hpc = "after" /\ step = "reconfigure" /\ rsize = dmax
      BY <2>2 DEF AfterReconfigure, Base, StepInv, Proposals
    <3> QED
      BY <1>1, <2>2, <3>1, AfterReconfigureOutcome DEF Proposals
  <2>3. CASE AfterStartup \/ AfterTable \/ ProbeDone
    BY <2>3, AfterStartupOutcome, AfterTableOutcome, ProbeDoneOutcome
    DEF Proposals, ToWrite, ToNext, ToEnd, Write
  <2>4. AfterDigest => Kept
    BY AfterDigestOutcome DEF Plain, ToWrite, ToNext, ToRegion, Write
  <2>5. Concludes => Kept
    BY ConcludingOutcome DEF Concludes, Plain, ToEnd, ToNext, ToRegion, Write
  <2>6. WriteCommand \/ WriteTimesOut \/ WriteFails \/ ReadMessage \/ ReadTimesOut \/ ReadFails
          => Kept
    BY DEF WriteCommand, WriteTimesOut, WriteFails, ReadMessage, ReadTimesOut, ReadFails, configVars
  <2>7. StartOp => Kept
    <3>1. StartOp /\ opi <= Len(ops) => Op.type # "reconfigure"
      BY OpsFacts DEF Base, TypeOK, HostTypes, Op
    <3> QED
      BY <3>1 DEF StartOp, Write
  <2>8. NextProbe => step' # "reconfigure" \/ step' = step
    BY NextProbeOutcome DEF ToWrite, Write, ToNext, ToEnd
  <2>9. AfterProbe \/ TransferFails => Kept
    BY <2>8 DEF AfterProbe, TransferFails
  <2>10. ProgramSetup \/ ReadSetup \/ AfterReset \/ StreamChunk \/ RecvSector => Kept
    BY DEF ProgramSetup, ReadSetup, SetUp, AfterReset, StreamChunk, RecvSector, configVars
  <2>11. Kept => payload' \in {HostPayload, dmax} /\ (dmax = HostPayload => step' # "reconfigure")
    BY DEF Proposals
  <2> QED
    BY <2>1, <2>2, <2>3, <2>4, <2>5, <2>6, <2>7, <2>9, <2>10, <2>11, WhatConcludes DEF Host
<1> QED
  BY <1>1, <1>2, <1>3, <1>4 DEF Proposals

-----------------------------------------------------------------------------
(* The place of the host in the tables.                                    *)

\* What a step keeps that sends no packet.
Settles ==
  /\ vip' = vip /\ single' /\ step' \notin Probes \cup {"digest", "table"}
  /\ dmax = HostPayload => result' = "failed" \/ HostPlace' = HostPlace

\* One attempt, and no sector size to be probed.
LEMMA ConfiguredOnce ==
  ASSUME single, NEW ret, Configured(ret)
  PROVE  (ret = "ACK" /\ ToNext) \/ (ret # "ACK" /\ ToEnd)
<1>1. CASE ret = "ACK"
  BY <1>1, Zenon DEF Configured, ToNext
<1>2. CASE ret # "ACK"
  <2>1. \/ /\ ~single /\ ret = "TIMEDOUT" /\ tries < run.tries
           /\ Write("configure") /\ UNCHANGED <<opi, off, tries, result>>
        \/ Fail /\ UNCHANGED <<opi, off, step, tries>>
    BY <1>2, Zenon DEF Configured
  <2> QED
    BY <1>2, <2>1 DEF ToEnd
<1> QED
  BY <1>1, <1>2

LEMMA AfterConfigureOnce ==
  ASSUME single, vip # "DISABLED", AfterConfigure
  PROVE  /\ Plain
         /\ \/ resp = "ACK" /\ rsize # payload /\ ToWrite("reconfigure")
            \/ resp = "ACK" /\ rsize = payload /\ ToNext
            \/ resp # "ACK" /\ ToEnd
<1>1. Plain
  BY AfterConfigureOutcome
<1>2. CASE resp = "ACK" /\ rsize = payload
  <2>1. Configured("ACK")
    BY <1>2 DEF AfterConfigure, Probe
  <2> QED
    BY <1>1, <1>2, <2>1, ConfiguredOnce
<1>3. CASE resp # "ACK"
  <2>1. Configured(resp)
    BY <1>3 DEF AfterConfigure
  <2> QED
    BY <1>1, <1>3, <2>1, ConfiguredOnce
<1>4. CASE resp = "ACK" /\ rsize # payload
  <2>1. Write("reconfigure") /\ UNCHANGED <<opi, off, tries, result>>
    BY <1>4, Zenon DEF AfterConfigure
  <2> QED
    BY <1>1, <1>4, <2>1 DEF ToWrite
<1> QED
  BY <1>1, <1>2, <1>3, <1>4

LEMMA AfterReconfigureOnce ==
  ASSUME single, vip # "DISABLED", AfterReconfigure
  PROVE  Frame /\ vip' = vip /\ ((resp = "ACK" /\ ToNext) \/ ToEnd)
<1>1. Frame /\ vip' = vip
  BY AfterReconfigureOutcome
<1>2. CASE resp = "ACK"
  <2>1. Configured("ACK")
    BY <1>2 DEF AfterReconfigure, Probe
  <2> QED
    BY <1>1, <1>2, <2>1, ConfiguredOnce
<1>3. CASE resp # "ACK"
  <2>1. Configured("failed")
    BY <1>3 DEF AfterReconfigure
  <2> QED
    BY <1>1, <2>1, ConfiguredOnce
<1> QED
  BY <1>2, <1>3

\* What the end of an exchange means for the place.
LEMMA OutcomeSettles ==
  ASSUME Base, Tabled, step # "table", vip' = vip, single' = single, run' = run,
         \/ ToEnd
         \/ ToNext /\ hpc \in {"after", "done"} /\ step # "startup"
              /\ (step = "program" => hpc = "done")
  PROVE  Settles
<1>1. step' = step
  BY DEF ToEnd, ToNext
<1>2. CASE ToEnd
  BY <1>1, <1>2 DEF ToEnd, Fail, Settles, Tabled
<1>3. CASE ToNext /\ hpc \in {"after", "done"} /\ step # "startup"
             /\ (step = "program" => hpc = "done")
  <2>1. HostPlace = Position(opi + 1)
    BY <1>3 DEF HostPlace
  <2>2. hpc' = "op" /\ opi' = opi + 1
    BY <1>3 DEF ToNext, NextOp
  <2>3. HostPlace' = Position(opi')
    BY <2>2 DEF HostPlace
  <2>4. HostPlace' = HostPlace
    BY <2>1, <2>2, <2>3
  <2> QED
    BY <1>1, <2>4 DEF Settles, Tabled
<1> QED
  BY <1>2, <1>3

LEMMA BeginningSettles ==
  ASSUME Base, vip = "SEND_DATA", Tabled, step # "table", StartOp
  PROVE  Settles
<1>1. hpc = "op" /\ UNCHANGED <<run, opi, vip>>
  BY DEF StartOp
<1>2. HostPlace = Position(opi)
  BY <1>1 DEF HostPlace
<1>3. CASE opi > Len(ops)
  <2>1. hpc' = "end" /\ UNCHANGED <<step, single>>
    BY <1>3, OpsFacts DEF StartOp, Base, TypeOK, HostTypes
  <2>2. HostPlace' = Position(opi')
    BY <2>1 DEF HostPlace
  <2> QED
    BY <1>1, <1>2, <2>1, <2>2 DEF Settles, Tabled
<1>4. CASE opi <= Len(ops)
  <2>1. /\ ~SkipblockEnabled
        /\ Op.type \in {"configure", "program", "read", "erase", "patch", "bootable", "reset"}
    BY <1>4, OpsFacts DEF SkipblockEnabled, Op, Base, TypeOK, HostTypes
  <2>2. single'
    BY <1>1, <1>4, OpsFacts DEF StartOp, Tabled, Base, TypeOK, HostTypes
  <2>3. \/ hpc' = "read" /\ step' = "startup"
        \/ hpc' = "write" /\ step' = Op.type
    BY <1>3, <1>4, <2>1, OpsFacts DEF StartOp, Write, Read, Base, TypeOK, HostTypes
  <2>4. HostPlace' = Position(opi')
    BY <2>3 DEF HostPlace
  <2> QED
    BY <1>1, <1>2, <2>1, <2>2, <2>3, <2>4 DEF Settles, Probes
<1> QED
  BY <1>3, <1>4, OpsFacts DEF Base, TypeOK, HostTypes

LEMMA ReadingSettles ==
  ASSUME Base, vip = "SEND_DATA", Tabled, step # "table",
         ReadMessage \/ ReadTimesOut \/ ReadFails \/ WriteTimesOut
  PROVE  Settles
<1>1. UNCHANGED <<run, opi, step, left, vip, single>>
  BY DEF ReadMessage, ReadTimesOut, ReadFails, WriteTimesOut, configVars
<1>2. \/ hpc \in {"write", "drain"} /\ hpc' \in {"write", "drain"}
      \/ hpc = "read" /\ hpc' \in {"read", "after"}
      \/ hpc = "final" /\ hpc' \in {"final", "done"}
  BY DEF ReadMessage, ReadTimesOut, ReadFails, WriteTimesOut, Reading, ReturnTo, Read
<1>3. HostPlace' = HostPlace
  BY <1>1, <1>2 DEF HostPlace, Position, DataAt
<1> QED
  BY <1>1, <1>3 DEF Settles, Tabled

LEMMA OutcomesSettle ==
  ASSUME Base, Proposals, vip = "SEND_DATA", Tabled, step # "table", Host,
         \/ AfterStartup \/ AfterConfigure \/ AfterReconfigure \/ AfterProbe \/ ProbeDone
         \/ AfterDigest \/ Concludes
  PROVE  Settles
<1>1. run' = run /\ ~ToRegion /\ ~SkipblockEnabled
  BY HostFrame DEF ToRegion, SkipblockEnabled
<1>2. CASE AfterStartup
  <2>1. hpc = "after" /\ step = "startup" /\ vip' = vip /\ single' = single /\ opi' = opi
    BY <1>2 DEF AfterStartup, Tabled
  <2>2. hpc' = "write" /\ step' = "configure"
    BY <1>2, <2>1 DEF AfterStartup, Write
  <2>3. HostPlace' = HostPlace
    BY <2>1, <2>2 DEF HostPlace, Position
  <2> QED
    BY <2>1, <2>2, <2>3 DEF Settles, Tabled, Probes
<1>3. CASE AfterConfigure
  <2>1. hpc = "after" /\ step = "configure" /\ single' = single /\ vip' = vip
    BY <1>3 DEF AfterConfigure
  <2>2. CASE ToNext \/ ToEnd
    BY <1>1, <2>1, <2>2, OutcomeSettles
  <2>3. CASE resp = "ACK" /\ rsize # payload /\ ToWrite("reconfigure")
    <3>1. rsize = dmax
      BY <2>1, <2>3 DEF Base, StepInv, Proposals
    <3>2. dmax # HostPayload
      BY <2>3, <3>1 DEF Proposals
    <3> QED
      BY <2>1, <2>3, <3>2 DEF Settles, Tabled, Probes, ToWrite, Write
  <2> QED
    BY <1>3, <2>2, <2>3, AfterConfigureOnce DEF Tabled
<1>4. CASE AfterReconfigure
  <2>1. hpc = "after" /\ step = "reconfigure" /\ single' = single
    BY <1>4 DEF AfterReconfigure
  <2> QED
    BY <1>1, <1>4, <2>1, AfterReconfigureOnce, OutcomeSettles DEF Tabled
<1>5. ~(AfterProbe \/ ProbeDone \/ AfterDigest)
  BY DEF AfterProbe, ProbeDone, AfterDigest, Tabled
<1>6. CASE Concludes
  <2>1. PICK ok \in BOOLEAN : Concluding(ok)
    BY <1>6 DEF Concludes
  <2>2. /\ hpc \in {"after", "done"} /\ step # "startup" /\ (step = "program" => hpc = "done")
    BY <2>1 DEF Concluding, ProgramDone, ReadDone, AfterErase, AfterPatch, AfterBootable, ResetDone
  <2>3. Plain /\ (ToNext \/ ToEnd)
    BY <1>1, <2>1, ConcludingOutcome
  <2> QED
    BY <1>1, <2>2, <2>3, OutcomeSettles DEF Plain, Frame
<1> QED
  BY <1>2, <1>3, <1>4, <1>5, <1>6

LEMMA TransferSettles ==
  ASSUME Base, vip = "SEND_DATA", Tabled, step # "table", Host,
         ProgramSetup \/ ReadSetup \/ AfterReset \/ RecvSector \/ TransferFails
  PROVE  Settles
<1>1. run' = run /\ ops' = ops
  BY HostLeaves
<1>2. CASE ProgramSetup \/ ReadSetup
  <2>1. /\ hpc = "after" /\ step \in {"program", "read"}
        /\ UNCHANGED <<opi, step, off, vip, single>>
    BY <1>2 DEF ProgramSetup, ReadSetup, SetUp, configVars
  <2>2. CASE resp # "ACK"
    BY <1>2, <2>1, <2>2 DEF ProgramSetup, ReadSetup, SetUp, Fail, Settles, Tabled
  <2>3. CASE resp = "ACK" /\ ProgramSetup
    <3>1. hpc' = "stream" /\ left' = RegionSectors /\ step = "program"
      BY <2>3 DEF ProgramSetup, SetUp
    <3>2. RegionSectors = Op.n /\ Op.n \in Nat
      <4>1. Purpose
        BY <2>1 DEF Base, StepInv
      <4> QED
        BY <4>1, OpsFacts DEF Purpose, RegionSectors, SkipblockEnabled, Op, Base, TypeOK, HostTypes
    <3>3. Op' = Op
      BY <1>1, <2>1 DEF Op
    <3>4. HostPlace' = DataAt(0)
      <4>1. HostPlace' = [op |-> opi', begun |-> TRUE, at |-> Op'.n - left']
        BY <2>1, <3>1 DEF HostPlace, DataAt
      <4>2. Op'.n - left' = 0
        BY <3>1, <3>2, <3>3
      <4> QED
        BY <2>1, <4>1, <4>2 DEF DataAt
    <3>5. HostPlace = DataAt(0)
      BY <2>1, <3>1 DEF HostPlace
    <3> QED
      BY <2>1, <3>4, <3>5 DEF Settles, Tabled
  <2>4. CASE resp = "ACK" /\ ReadSetup
    <3>1. hpc' = "recv" /\ step = "read"
      BY <2>4 DEF ReadSetup, SetUp
    <3>2. HostPlace' = HostPlace
      BY <2>1, <3>1 DEF HostPlace, Position
    <3> QED
      BY <2>1, <3>2 DEF Settles, Tabled
  <2> QED
    BY <1>2, <2>2, <2>3, <2>4
<1>3. CASE AfterReset
  <2>1. hpc = "after" /\ step = "reset" /\ UNCHANGED <<opi, vip, single>>
    BY <1>3 DEF AfterReset, configVars
  <2>2. CASE hpc' = "end" /\ result' = "failed" /\ step' = step
    BY <2>1, <2>2 DEF Settles, Tabled
  <2>3. CASE hpc' = "final" /\ step' \in {"resetting", "refused"}
    <3>1. HostPlace' = HostPlace
      BY <2>1, <2>3 DEF HostPlace, Position
    <3> QED
      BY <2>1, <2>3, <3>1 DEF Settles, Tabled, Probes
  <2> QED
    BY <1>3, <2>2, <2>3 DEF AfterReset, Read, Fail
<1>4. CASE RecvSector
  <2>1. hpc = "recv" /\ hpc' \in {"recv", "final"} /\ UNCHANGED <<opi, step, vip, single>>
    BY <1>4 DEF RecvSector, Read, configVars
  <2>2. step \notin {"startup", "program"}
    BY <2>1 DEF Base, StepInv, RawSteps, Probes
  <2>3. HostPlace' = HostPlace
    BY <2>1, <2>2 DEF HostPlace, Position
  <2> QED
    BY <2>1, <2>3 DEF Settles, Tabled
<1>5. CASE TransferFails
  <2>1. ToEnd /\ UNCHANGED <<vip, single>>
    BY <1>5 DEF TransferFails, Tabled, ToEnd
  <2> QED
    BY <1>1, <2>1, OutcomeSettles
<1> QED
  BY <1>2, <1>3, <1>4, <1>5

\* No step but these makes the host pass a packet of the tables.
LEMMA PlaceStays ==
  ASSUME Base, Proposals, vip = "SEND_DATA", Tabled, step # "table", Host,
         ~WriteCommand, ~WriteFails, ~StreamChunk
  PROVE  Settles
<1>1. ~AfterTable
  BY DEF AfterTable
<1> QED
  BY <1>1, BeginningSettles, ReadingSettles, OutcomesSettle, TransferSettles, WhatConcludes
  DEF Host

-----------------------------------------------------------------------------
(* Packets that are sent.                                                  *)

LEMMA OrderStays ==
  ASSUME UNCHANGED <<run, toDev, dnext>>
  PROVE  (InOrder' <=> InOrder) /\ Ahead' = Ahead
<1> DEFINE a == After(dnext)
<1>1. /\ dnext' = dnext /\ a' = a /\ After(a)' = After(a)
      /\ Fits(toDev[1], dnext)' = Fits(toDev[1], dnext) /\ Fits(toDev[2], a)' = Fits(toDev[2], a)
  BY DEF ops, Fits, After, PacketAt, Packet, Position
<1>2. InOrder' <=> InOrder
  BY <1>1 DEF InOrder
<1>3. Ahead' = Ahead
  BY <1>1 DEF Ahead
<1> QED
  BY <1>2, <1>3

\* A packet is put behind the others.
LEMMA OrderGrows ==
  ASSUME UNCHANGED <<run, dnext>>, toDev \in Seq(Commands), Len(toDev) < 2, InOrder,
         NEW c \in Commands, toDev' = Append(toDev, c), Fits(c, Ahead)
  PROVE  InOrder' /\ Ahead' = After(Ahead)
<1>1. /\ Len(toDev') = Len(toDev) + 1 /\ Len(toDev) \in {0, 1}
      /\ \A j \in 1 .. Len(toDev) : toDev'[j] = toDev[j]
      /\ toDev'[Len(toDev) + 1] = c
  <2> DEFINE k == Len(toDev)
  <2>1. k \in Nat /\ k < 2
    BY LenProperties
  <2> HIDE DEF k
  <2>2. k \in {0, 1}
    BY <2>1
  <2> QED
    BY <2>2, FlightAppend DEF k
<1> DEFINE d == dnext
           a == After(d)
           b == After(a)
<1>2. /\ dnext' = d /\ After(dnext)' = a /\ After(After(dnext))' = b
      /\ Fits(toDev[1], dnext)' = Fits(toDev'[1], d)
      /\ Fits(toDev[2], After(dnext))' = Fits(toDev'[2], a)
  BY DEF ops, Fits, After, PacketAt, Packet, Position
<1>3. CASE Len(toDev) = 0
  <2>1. Ahead = d /\ Ahead' = a /\ toDev'[1] = c
    BY <1>1, <1>2, <1>3 DEF Ahead
  <2>2. InOrder'
    BY <1>1, <1>2, <1>3, <2>1 DEF InOrder
  <2> QED
    BY <2>1, <2>2
<1>4. CASE Len(toDev) = 1
  <2>1. Ahead = a /\ Ahead' = b /\ toDev'[1] = toDev[1] /\ toDev'[2] = c
    BY <1>1, <1>2, <1>4 DEF Ahead
  <2>2. InOrder'
    BY <1>1, <1>2, <1>4, <2>1 DEF InOrder
  <2> QED
    BY <2>1, <2>2
<1> QED
  BY <1>1, <1>3, <1>4

\* What the host writes is the packet at its place.
LEMMA CommandFits ==
  ASSUME Base, Proposals, vip = "SEND_DATA", Tabled, step # "table", hpc = "write",
         dmax = HostPayload
  PROVE  /\ Fits(Command, HostPlace) /\ HostPlace = Position(opi)
         /\ After(HostPlace) = IF step = "program" THEN DataAt(0) ELSE Position(opi + 1)
<1>1. Purpose /\ step \notin {"startup", "resetting", "refused"} /\ ~SkipblockEnabled
  BY DEF Base, StepInv, SkipblockEnabled
<1>2. step = Op.type /\ opi \in DOMAIN ops /\ opi \in Nat
  BY <1>1, WhatFor DEF Purpose, Tabled, Proposals, Configuring, OneCommand, Probes, Steps,
     Base, TypeOK, HostTypes
<1>3. RegionSectors = Op.n /\ Op.n \in Nat /\ (step = "program" => 0 < Op.n) /\ payload = HostPayload
  BY <1>1, <1>2, OpsFacts DEF RegionSectors, Op, Proposals, Base, TypeOK, HostTypes
<1>4. HostPlace = Position(opi)
  BY DEF HostPlace
<1>5. /\ Command.re.op = opi /\ Command.cmd = Op.type
      /\ Command.n = CASE Op.type = "configure" -> HostPayload
                       [] Op.type \in {"program", "read"} -> Op.n
                       [] OTHER -> 1
  BY <1>1, <1>2, <1>3, OpsFacts DEF Command, Exchange, Proposals, Tabled, Op, Base, TypeOK, HostTypes
<1>6. Fits(Command, Position(opi))
  BY <1>2, <1>5 DEF Fits, PacketAt, Position, Packet, Op
<1>7. After(Position(opi)) = IF step = "program" THEN DataAt(0) ELSE Position(opi + 1)
  BY <1>2, <1>3 DEF After, Position, DataAt, Op
<1> QED
  BY <1>4, <1>6, <1>7

LEMMA ChunkFits ==
  ASSUME Base, Proposals, hpc = "stream", dmax = HostPayload, NEW n, n = Lesser(payload, left)
  PROVE  /\ Fits([cmd |-> "data", re |-> Exchange(step), n |-> n], HostPlace)
         /\ After(HostPlace) = IF n < left THEN DataAt(Op.n - (left - n)) ELSE Position(opi + 1)
<1>1. /\ step = "program" /\ Op.type = "program" /\ opi \in DOMAIN ops /\ opi \in Nat
      /\ left \in Nat /\ Op.n \in Nat /\ payload = HostPayload /\ payload \in Nat \ {0}
  BY OpsFacts DEF Base, StepInv, Purpose, OneCommand, Proposals, TypeOK, HostTypes, Op
<1>2. n \in Nat /\ n <= left
  BY <1>1, LesserFacts
<1> DEFINE k == Op.n - left
<1>3. HostPlace = DataAt(k)
  BY <1>1 DEF HostPlace
<1>4. Op.n - k = left /\ k + n = Op.n - (left - n) /\ (k + n < Op.n <=> n < left)
  BY <1>1, <1>2
<1> HIDE DEF k
<1>5. PacketAt(DataAt(k)) = Packet(opi, "data", n)
  BY <1>1, <1>4 DEF PacketAt, DataAt, Op
<1>6. Fits([cmd |-> "data", re |-> Exchange(step), n |-> n], DataAt(k))
  BY <1>1, <1>5 DEF Fits, DataAt, Exchange
<1>7. PacketAt(DataAt(k)).n = n
  BY <1>5 DEF Packet
<1>8. After(DataAt(k)) = IF k + n < Op.n THEN DataAt(k + n) ELSE Position(opi + 1)
  BY <1>1, <1>7 DEF After, DataAt, Op
<1> QED
  BY <1>3, <1>4, <1>6, <1>8

\* The host goes on while the programmer is there.
LEMMA UnderwayGoesOn ==
  ASSUME Base, Proposals, vip = "SEND_DATA", Tabled, Underway, dpc # "gone", Host
  PROVE  vip' = "SEND_DATA" /\ Tabled' /\ Underway'
<1>1. /\ UNCHANGED <<run, dnext, dwrong, dvip, dtable, dpc, dmax>> /\ ops' = ops
      /\ toDev' = toDev \/ WriteCommand \/ StreamChunk
      /\ requires'
  <2>1. ReadMessage => requires'
    BY DEF ReadMessage, Tabled
  <2> QED
    BY <2>1, HostLeaves DEF Tabled
<1>2. toDev \in Seq(Commands) /\ Len(toDev) \in Nat
  BY LenProperties DEF Base, TypeOK, LinkTypes
<1>3. CASE WriteCommand
  <2>1. /\ hpc = "write" /\ Len(toDev) < 2 /\ toDev' = Append(toDev, Command) /\ hpc' = "read"
        /\ UNCHANGED <<opi, step, single, result, vip>> /\ Command \in Commands
        /\ Command.cmd # "table" /\ step # "startup"
    BY <1>3, WriteCommandIs, CommandTyped DEF WriteCommand, Read, Underway, Command, Base, StepInv
  <2>2. NoTable'
    BY <1>2, <2>1, FlightAppend DEF NoTable, Underway
  <2>3. ASSUME dmax = HostPayload, result # "failed"  PROVE InOrder' /\ Ahead' = HostPlace'
    <3>1. /\ Fits(Command, HostPlace) /\ Ahead = HostPlace /\ InOrder
          /\ After(HostPlace) = IF step = "program" THEN DataAt(0) ELSE Position(opi + 1)
      BY <2>1, <2>3, CommandFits DEF Underway
    <3>2. InOrder' /\ Ahead' = After(HostPlace)
      BY <1>1, <1>2, <2>1, <3>1, OrderGrows
    <3>3. HostPlace' = IF step = "program" THEN DataAt(0) ELSE Position(opi + 1)
      BY <2>1 DEF HostPlace, DataAt, Position
    <3> QED
      BY <3>1, <3>2, <3>3
  <2>4. result # "failed"
    BY <2>1 DEF Base, StepInv
  <2> QED
    BY <1>1, <2>1, <2>2, <2>3, <2>4 DEF Underway, Tabled
<1>4. CASE StreamChunk
  <2> DEFINE n == Lesser(payload, left)
             c == [cmd |-> "data", re |-> Exchange(step), n |-> n]
  <2>1. /\ hpc = "stream" /\ Len(toDev) < 2 /\ toDev' = Append(toDev, c) /\ left' = left - n
        /\ IF left = n THEN hpc' = "final" ELSE hpc' = hpc
        /\ UNCHANGED <<opi, step, single, result, vip>>
    BY <1>4 DEF StreamChunk, Read, configVars
  <2>2. /\ c \in Commands /\ n \in Nat /\ n <= left /\ left \in Nat /\ step = "program" /\ result # "failed"
        /\ Op' = Op /\ c.cmd = "data"
    <3>1. payload \in Nat /\ left \in Nat /\ step = "program" /\ step \in AllSteps /\ result # "failed"
      BY <2>1 DEF Base, TypeOK, HostTypes, StepInv
    <3>2. Exchange(step) \in Exchanges /\ n \in Nat /\ n <= left
      BY <3>1, ExchangeTyped, LesserFacts DEF Base
    <3> QED
      BY <1>1, <2>1, <3>1, <3>2 DEF Commands, Op
  <2> HIDE DEF c, n
  <2>3. NoTable'
    BY <1>2, <2>1, <2>2, FlightAppend DEF NoTable, Underway
  <2>4. ASSUME dmax = HostPayload  PROVE InOrder' /\ Ahead' = HostPlace'
    <3>1. /\ Fits(c, HostPlace) /\ Ahead = HostPlace /\ InOrder
          /\ After(HostPlace) = IF n < left THEN DataAt(Op.n - (left - n)) ELSE Position(opi + 1)
      BY <2>1, <2>2, <2>4, ChunkFits DEF Underway, c, n
    <3>2. InOrder' /\ Ahead' = After(HostPlace)
      BY <1>1, <1>2, <2>1, <2>2, <3>1, OrderGrows
    <3>3. HostPlace' = IF n < left THEN DataAt(Op.n - (left - n)) ELSE Position(opi + 1)
      <4>1. CASE n < left
        <5>1. hpc' = "stream"
          BY <2>1, <2>2, <4>1
        <5>2. HostPlace' = [op |-> opi', begun |-> TRUE, at |-> Op'.n - left']
          BY <2>1, <2>2, <5>1 DEF HostPlace, DataAt
        <5>3. Op'.n - left' = Op.n - (left - n) /\ opi' = opi
          BY <2>1, <2>2
        <5> QED
          BY <4>1, <5>2, <5>3 DEF DataAt
      <4>2. CASE n = left
        BY <2>1, <2>2, <4>2 DEF HostPlace, Position
      <4> QED
        BY <2>2, <4>1, <4>2
    <3> QED
      BY <3>1, <3>2, <3>3
  <2> QED
    BY <1>1, <2>1, <2>2, <2>3, <2>4 DEF Underway, Tabled
<1>5. CASE ~WriteCommand /\ ~StreamChunk
  <2>1. ~WriteFails /\ step # "table"
    BY DEF WriteFails, Underway
  <2>2. Settles
    BY <1>5, <2>1, PlaceStays
  <2>3. toDev' = toDev
    BY <1>1, <1>5
  <2>4. (InOrder' <=> InOrder) /\ Ahead' = Ahead
    BY <1>1, <2>3, OrderStays
  <2>5. NoTable'
    BY <2>3 DEF NoTable, Underway
  <2>6. result = "failed" => result' = "failed"
    <3>1. result = "failed" => hpc = "end"
      BY DEF Base, StepInv
    <3>2. hpc # "end"
      BY HostActs
    <3> QED
      BY <3>1, <3>2
  <2> QED
    BY <1>1, <2>2, <2>4, <2>5, <2>6 DEF Underway, Settles, Tabled
<1> QED
  BY <1>3, <1>4, <1>5

-----------------------------------------------------------------------------
(* Nobody answers a programmer that has gone.                              *)

\* The host does not get far with what was not answered.
LEMMA StuckStays ==
  ASSUME Base, Proposals, vip = "SEND_DATA", Tabled, step # "table", Stuck, Host,
         dpc = "gone", ~Ignored
  PROVE  result' = "failed" \/ Stuck'
<1>1. NoResponse' /\ run' = run
  BY NoResponseStays, HostLeaves DEF Stuck, Base
<1>2. /\ hpc \in {"read", "after", "stream", "final", "done"}
      /\ step \notin {"startup", "resetting", "refused", "table"} /\ NoResponse
      /\ hpc # "stream" => resp \notin {"ACK", "NAK"}
  BY DEF Stuck
<1>3. CASE ReadMessage
  <2>1. Head(toHost).t # "resp"
    <3>1. toHost # <<>> /\ toHost \in Seq(Msgs)
      BY <1>3 DEF ReadMessage, Base, TypeOK, LinkTypes
    <3>2. Head(toHost) = toHost[1] /\ 1 \in 1 .. Len(toHost)
      BY <3>1, HeadIsFirst
    <3> QED
      BY <1>2, <3>2 DEF NoResponse
  <2>2. UNCHANGED <<hpc, step, resp>>
    BY <1>3, <2>1 DEF ReadMessage, Accepts
  <2> QED
    BY <1>1, <1>2, <2>2 DEF Stuck
<1>4. CASE ReadTimesOut \/ ReadFails
  <2>1. /\ hpc \in {"read", "final"} /\ hpc' = ReturnTo /\ step' = step
        /\ resp' = resp \/ resp' \in {"TIMEDOUT", "EIO"}
    BY <1>2, <1>4 DEF ReadTimesOut, ReadFails, Reading
  <2>2. hpc' \in {"after", "done"}
    BY <2>1 DEF ReturnTo
  <2> QED
    BY <1>1, <1>2, <2>1, <2>2 DEF Stuck
<1>5. CASE AfterConfigure \/ AfterReconfigure
  <2>1. ToEnd
    BY <1>2, <1>5, AfterConfigureOnce, AfterReconfigureOnce
    DEF Tabled, AfterConfigure, AfterReconfigure
  <2> QED
    BY <2>1 DEF ToEnd, Fail
<1>6. CASE ProgramSetup \/ ReadSetup \/ AfterReset
  BY <1>2, <1>6 DEF ProgramSetup, ReadSetup, SetUp, AfterReset, Fail
<1>7. CASE Concludes
  <2>1. PICK ok \in BOOLEAN : Concluding(ok)
    BY <1>7 DEF Concludes
  <2>2. ~AfterBootable
    <3> SUFFICES ASSUME AfterBootable  PROVE FALSE
      OBVIOUS
    <3>1. hpc = "after" /\ step = "bootable"
      BY DEF AfterBootable
    <3>2. opi \in DOMAIN ops /\ ops[opi].type = "bootable"
      BY <3>1 DEF Base, StepInv, Purpose, OneCommand, Op
    <3> QED
      BY <3>2 DEF Ignored
  <2>3. ~ok
    BY <1>2, <2>1, <2>2
    DEF Concluding, ProgramDone, ReadDone, AfterErase, AfterPatch, ResetDone
  <2>4. ToEnd
    BY <2>1, <2>3, ConcludingOutcome
  <2> QED
    BY <2>4 DEF ToEnd, Fail
<1>8. CASE TransferFails
  BY <1>8 DEF TransferFails, Tabled, Fail
<1>9. ~(StartOp \/ WriteCommand \/ WriteTimesOut \/ WriteFails)
  BY <1>2 DEF StartOp, WriteCommand, WriteTimesOut, WriteFails
<1>10. ~(AfterStartup \/ AfterTable \/ AfterProbe \/ ProbeDone \/ AfterDigest)
  BY <1>2 DEF AfterStartup, AfterTable, AfterProbe, ProbeDone, AfterDigest, Tabled
<1>11. ~(StreamChunk \/ RecvSector)
  BY <1>2 DEF StreamChunk, RecvSector
<1> QED
  BY <1>3, <1>4, <1>5, <1>6, <1>7, <1>8, <1>9, <1>10, <1>11, WhatConcludes DEF Host

\* A command cannot be written: only that of a setbootablestoragedrive is passed over.
LEMMA WriteFailsStuck ==
  ASSUME Base, PromptInv, vip = "SEND_DATA", Tabled, step # "table", WriteFails, ~Ignored
  PROVE  result' = "failed" \/ Stuck'
<1>1. hpc = "write" /\ toHost' = toHost /\ NoResponse
  <2>1. hpc = "write" /\ toHost' = toHost
    BY DEF WriteFails
  <2>2. Quiet(toHost)
    BY <2>1 DEF PromptInv, Flow, Idle
  <2> QED
    BY <2>1, <2>2 DEF Quiet, NoResponse, IsLog
<1>2. step # "bootable" /\ step # "startup"
  <2>1. step = "bootable" => opi \in DOMAIN ops /\ ops[opi].type = "bootable"
    BY <1>1 DEF Base, StepInv, Purpose, OneCommand, Op
  <2> QED
    BY <1>1, <2>1 DEF Ignored, Base, StepInv
<1>3. CASE step \in {"configure", "reconfigure"}
  <2>1. hpc' = "read" /\ resp' = "none" /\ step' = step
    BY <1>3 DEF WriteFails, Read, Probes
  <2> QED
    BY <1>1, <1>3, <2>1 DEF Stuck, NoResponse
<1>4. CASE step \notin {"configure", "reconfigure"}
  <2>1. step \notin {"table", "bootable"} /\ step \notin Probes \cup {"digest"}
    BY <1>2 DEF Tabled
  <2>2. Fail
    BY <1>4, <2>1 DEF WriteFails
  <2> QED
    BY <2>2 DEF Fail
<1> QED
  BY <1>3, <1>4

LEMMA UnderwayGoneOn ==
  ASSUME Inv, Proposals, vip = "SEND_DATA", Tabled, Underway, dpc = "gone", toDev = <<>>, Host
  PROVE  vip' = "SEND_DATA" /\ Tabled' /\ Underway'
<1>1. /\ UNCHANGED <<run, dnext, dwrong, dvip, dtable, dpc, dmax>> /\ ops' = ops
      /\ requires' /\ ~WriteCommand /\ ~StreamChunk
  <2>1. ReadMessage => requires'
    BY DEF ReadMessage, Tabled
  <2> QED
    BY <2>1, HostLeaves DEF Tabled, WriteCommand, StreamChunk
<1>2. Base /\ toDev' = toDev /\ step # "table"
  BY <1>1, HostLeaves DEF Inv, Base, Underway
<1>3. (InOrder' <=> InOrder) /\ NoTable'
  BY <1>1, <1>2, OrderStays DEF NoTable, Underway
<1>4. vip' = "SEND_DATA" /\ single' /\ step' \notin Probes \cup {"digest", "table"}
  <2>1. CASE WriteFails
    <3>1. UNCHANGED <<vip, single>>
      BY <2>1 DEF WriteFails
    <3>2. step' = step
      BY <1>2, <2>1, Zenon DEF WriteFails, NextOp, Fail
    <3> QED
      BY <1>2, <3>1, <3>2 DEF Tabled
  <2>2. CASE ~WriteFails
    BY <1>1, <1>2, <2>2, PlaceStays DEF Settles
  <2> QED
    BY <2>1, <2>2
<1>5. ASSUME dmax = HostPayload, result' # "failed", late' = 0, ~Ignored
      PROVE  Reached' \/ Stuck'
  <2>1. late = 0 /\ PromptInv
    <3>1. late \in Nat /\ (late' = late \/ late' = late + 1)
      BY HostFrame DEF Inv, TypeOK, DeviceTypes
    <3>2. late = 0
      BY <1>5, <3>1
    <3> QED
      BY <3>2 DEF Inv
  <2>2. result # "failed"
    BY HostActs DEF Inv, StepInv
  <2>3. Reached \/ Stuck
    BY <1>5, <2>1, <2>2 DEF Underway
  <2>4. CASE Stuck
    BY <1>2, <1>5, <2>4, StuckStays
  <2>5. CASE WriteFails
    BY <1>2, <1>5, <2>1, <2>5, WriteFailsStuck
  <2>6. CASE Reached /\ ~WriteFails
    <3>1. HostPlace' = HostPlace
      BY <1>1, <1>2, <1>5, <2>6, PlaceStays DEF Settles
    <3> QED
      BY <1>1, <2>6, <3>1 DEF Reached
  <2> QED
    BY <2>3, <2>4, <2>5, <2>6
<1>6. Ignored' <=> Ignored
  BY <1>1 DEF Ignored
<1> QED
  BY <1>1, <1>3, <1>4, <1>5, <1>6 DEF Underway, Tabled

-----------------------------------------------------------------------------
(* What the programmer says in a session.                                  *)

\* A new message: it announces VIP only if the programmer insists on it, answers only when
\* it has started, proposes only its own payload size, and nothing with a table.
New(m) ==
  /\ m.size \in {0, dmax}
  /\ m.t = "marker" => dvip
  /\ m.t = "resp" => dpc # "boot"
  /\ dpc = "xml" /\ Head(toDev).cmd = "table" => m.size = 0 /\ (m.v = "ACK" => dtable')

LEMMA Heard ==
  ASSUME toHost \in Seq(Msgs), NEW re \in Exchanges, NEW ms \in Seq(Msgs),
         Say(re, ms) \/ SayRaw(re, ms), NEW j \in 1 .. Len(toHost')
  PROVE  \/ \E i \in 1 .. Len(toHost) : toHost'[j] = toHost[i]
         \/ \E i \in 1 .. Len(ms) : toHost'[j] = ms[i]
         \/ toHost'[j] = Log("log", re)
<1>1. PICK b, a \in Nat : Extends(toHost', toHost, b, ms, a, re)
  BY Saying
<1> QED
  BY <1>1, Members

LEMMA MessageSizes ==
  ASSUME NEW t \in {"log", "marker", "data"}, NEW re, NEW v, NEW same
  PROVE  /\ Log(t, re).t = t /\ Log(t, re).size = 0 /\ Log(t, re).v = "none"
         /\ Reply(re, v).t = "resp" /\ Reply(re, v).size = 0 /\ Reply(re, v).v = v
         /\ RawReply(re).t = "resp" /\ RawReply(re).size = 0
         /\ SizedReply(re, v).t = "resp" /\ SizedReply(re, v).size = dmax
         /\ DigestLog(re, same).t = "log" /\ DigestLog(re, same).size = 0
         /\ DigestLog(re, same).v = "none"
BY DEF Log, Reply, RawReply, SizedReply, DigestLog

\* Of what there is in ms nothing is out of place.
LEMMA NewsOnly ==
  ASSUME Base, NEW re \in Exchanges, NEW ms \in Seq(Msgs), Say(re, ms) \/ SayRaw(re, ms),
         \A i \in 1 .. Len(ms) : New(ms[i]), NEW j \in 1 .. Len(toHost')
  PROVE  (\E i \in 1 .. Len(toHost) : toHost'[j] = toHost[i]) \/ New(toHost'[j])
<1>1. toHost \in Seq(Msgs)
  BY DEF Base, TypeOK, LinkTypes
<1>2. New(Log("log", re))
  BY MessageSizes DEF New
<1> QED
  BY <1>1, <1>2, Heard

LEMMA CommandNews ==
  ASSUME Base, DevCommand, NEW j \in 1 .. Len(toHost')
  PROVE  (\E i \in 1 .. Len(toHost) : toHost'[j] = toHost[i]) \/ New(toHost'[j])
<1> DEFINE c == Head(toDev)
           v == IF c.n <= dmax THEN "ACK" ELSE "NAK"
           same == Sectors(c) \subseteq flash
<1>1. /\ dpc = "xml" /\ toDev # <<>> /\ c \in Commands /\ c.re \in Exchanges /\ c.n \in Nat
      /\ Head(toDev) = c
  <2>1. dpc = "xml" /\ toDev # <<>>
    BY DEF DevCommand
  <2>2. c \in Commands
    BY <2>1, EmptySeq, HeadTailProperties DEF Base, TypeOK, LinkTypes
  <2> QED
    BY <2>1, <2>2 DEF Commands
<1>2. v \in {"ACK", "NAK"} /\ same \in BOOLEAN /\ dmax \in Nat /\ TypeOK /\ "NAK" \in {"ACK", "NAK"}
  BY DEF Base, TypeOK, DeviceTypes
<1>3. toHost' = toHost \/ DevRefuse(c) \/ DevObey(c)
  BY CommandChoice
<1> HIDE DEF c, v, same
<1>4. CASE toHost' = toHost
  BY <1>4
<1>5. CASE DevRefuse(c)
  <2> DEFINE m == Reply(c.re, "NAK")
  <2>1. Say(c.re, <<m>>)
    BY <1>5 DEF DevRefuse
  <2>2. <<m>> \in Seq(Msgs) /\ Len(<<m>>) = 1 /\ <<m>>[1] = m
    BY <1>1, <1>2, MessagesTyped, OneMessage
  <2>3. New(m)
    BY <1>1, MessageSizes DEF New
  <2> HIDE DEF m
  <2>4. \A i \in 1 .. Len(<<m>>) : New(<<m>>[i])
    BY <2>2, <2>3
  <2> QED
    BY <1>1, <2>1, <2>2, <2>4, NewsOnly
<1>6. CASE DevObey(c)
  <2> DEFINE Fine(ms) == /\ ms \in Seq(Msgs)
                         /\ Say(c.re, ms) \/ SayRaw(c.re, ms)
                         /\ \A i \in 1 .. Len(ms) : New(ms[i])
  <2>1. c.cmd = "table" => dtable'
    BY <1>6 DEF DevObey
  <2>2. AnswerTo(c)
    BY <1>6 DEF DevObey
  <2>3. ASSUME NEW m \in Msgs, New(m), Say(c.re, <<m>>) \/ SayRaw(c.re, <<m>>)
        PROVE  Fine(<<m>>)
    <3>1. \A i \in 1 .. Len(<<m>>) : New(<<m>>[i])
      BY <2>3, OneMessage
    <3> QED
      BY <2>3, <3>1, OneMessage
  <2>4. \E ms : Fine(ms)
    <3>1. CASE /\ c.cmd \in {"table", "erase", "patch", "bootable", "reset"}
               /\ Say(c.re, <<Reply(c.re, "ACK")>>)
      <4>1. Reply(c.re, "ACK") \in Msgs /\ New(Reply(c.re, "ACK"))
        BY <1>1, <1>2, <2>1, MessagesTyped, MessageSizes DEF New
      <4> QED
        BY <2>3, <3>1, <4>1
    <3>2. CASE c.cmd \in {"configure", "reconfigure"} /\ Say(c.re, <<SizedReply(c.re, v)>>)
      <4>1. SizedReply(c.re, v) \in Msgs /\ New(SizedReply(c.re, v))
        BY <1>1, <1>2, <3>2, MessagesTyped, MessageSizes DEF New
      <4> QED
        BY <2>3, <3>2, <4>1
    <3>3. CASE c.cmd = "digest" /\ Say(c.re, <<DigestLog(c.re, same), Reply(c.re, "ACK")>>)
      <4>1. /\ DigestLog(c.re, same) \in Msgs /\ New(DigestLog(c.re, same))
            /\ Reply(c.re, "ACK") \in Msgs /\ New(Reply(c.re, "ACK"))
        BY <1>1, <1>2, <3>3, MessagesTyped, MessageSizes DEF New
      <4> DEFINE d == DigestLog(c.re, same)
                 m == Reply(c.re, "ACK")
      <4> HIDE DEF d, m
      <4>2. <<d, m>> \in Seq(Msgs) /\ \A i \in 1 .. Len(<<d, m>>) : New(<<d, m>>[i])
        BY <4>1, TwoMessages DEF d, m
      <4> QED
        BY <3>3, <4>2 DEF d, m
    <3>4. CASE c.cmd = "program" /\ SayRaw(c.re, <<RawReply(c.re)>>)
      <4>1. RawReply(c.re) \in Msgs /\ New(RawReply(c.re))
        BY <1>1, <1>2, <3>4, MessagesTyped, MessageSizes DEF New
      <4> QED
        BY <2>3, <3>4, <4>1
    <3>5. CASE c.cmd \in Probes \cup {"read"} /\ Say(c.re, Transfer(c))
      <4>1. New(RawReply(c.re)) /\ New(Reply(c.re, "ACK")) /\ New(Log("data", c.re))
        BY <1>1, <3>5, MessageSizes DEF New, Probes
      <4>2. \A i \in 1 .. Len(Transfer(c)) : New(Transfer(c)[i])
        <5>1. \A i \in 1 .. Len(Transfer(c)) : i = 1 \/ i = c.n + 2 \/ i \in 2 .. c.n + 1
          BY <1>1, <1>2, TransferShape
        <5> QED
          BY <1>1, <1>2, <4>1, <5>1, TransferShape
      <4> QED
        BY <1>1, <1>2, <3>5, <4>2, TransferShape
    <3> QED
      BY <2>2, <3>1, <3>2, <3>3, <3>4, <3>5 DEF AnswerTo, v, same
  <2> QED
    BY <1>1, <2>4, NewsOnly
<1> QED
  BY <1>3, <1>4, <1>5, <1>6

LEMMA DeviceNews ==
  ASSUME Base, Device \/ DevGone, NEW j \in 1 .. Len(toHost')
  PROVE  (\E i \in 1 .. Len(toHost) : toHost'[j] = toHost[i]) \/ New(toHost'[j])
<1>1. CASE DevGone
  <2>1. toHost' = toHost \/ (toHost' = <<>> /\ Len(toHost') = 0)
    BY <1>1 DEF DevGone
  <2> QED
    BY <2>1
<1>2. CASE DevStart
  <2> DEFINE m == Log("marker", NoExchange)
             ms == IF dvip THEN <<m>> ELSE <<>>
  <2>1. Say(NoExchange, ms) /\ NoExchange \in Exchanges /\ dpc = "boot"
    BY <1>2, StepNames DEF DevStart
  <2>2. m \in Msgs /\ m.t = "marker" /\ m.size = 0
    BY <2>1, MessageFields, MessageSizes DEF Base, TypeOK, DeviceTypes
  <2>3. dvip => New(m)
    BY <2>1, <2>2 DEF New
  <2> HIDE DEF m
  <2>4. ms \in Seq(Msgs) /\ \A i \in 1 .. Len(ms) : New(ms[i])
    <3>1. CASE dvip
      BY <2>2, <2>3, <3>1, OneMessage
    <3>2. CASE ~dvip
      <4>1. ms = <<>> /\ ms \in Seq(Msgs) /\ Len(ms) = 0
        BY <3>2, EmptySeq
      <4> QED
        BY <4>1
    <3> QED
      BY <3>1, <3>2
  <2> QED
    BY <2>1, <2>4, NewsOnly
<1>3. CASE DevCommand
  BY <1>3, CommandNews
<1>4. CASE DevData
  <2>1. dpc = "in" /\ dcmd.re \in Exchanges
    BY <1>4 DEF DevData, Base, Given, Commands
  <2>2. \/ toHost' = toHost
        \/ \E v \in {"ACK", "NAK"} : Say(dcmd.re, <<Reply(dcmd.re, v)>>)
    BY <1>4 DEF DevData
  <2>3. ASSUME NEW v \in {"ACK", "NAK"}, Say(dcmd.re, <<Reply(dcmd.re, v)>>)
        PROVE  (\E i \in 1 .. Len(toHost) : toHost'[j] = toHost[i]) \/ New(toHost'[j])
    <3> DEFINE m == Reply(dcmd.re, v)
    <3>1. <<m>> \in Seq(Msgs) /\ Len(<<m>>) = 1 /\ <<m>>[1] = m
      BY <2>1, MessageFields, OneMessage DEF Base, TypeOK, DeviceTypes
    <3>2. New(m)
      BY <2>1, MessageSizes DEF New
    <3> HIDE DEF m
    <3>3. \A i \in 1 .. Len(<<m>>) : New(<<m>>[i])
      BY <3>1, <3>2
    <3>4. Say(dcmd.re, <<m>>)
      BY <2>3 DEF m
    <3> QED
      BY <2>1, <3>1, <3>3, <3>4, NewsOnly
  <2> QED
    BY <2>2, <2>3
<1> QED
  BY <1>1, <1>2, <1>3, <1>4 DEF Device

-----------------------------------------------------------------------------
(* Steps of the programmer in a session.                                   *)

LEMMA DeviceLeaves ==
  ASSUME Device \/ DevGone
  PROVE  /\ UNCHANGED <<hostVars, late, dmax, dvip>> /\ HostPlace' = HostPlace
         /\ UNCHANGED <<run, opi, hpc, step, resp, requires, single, vip, result, rsize, payload>>
         /\ ops' = ops /\ (dtable => dtable')
         /\ \/ DevStart /\ toDev' = toDev /\ UNCHANGED <<dtable, dnext, dwrong>> /\ dpc' = "xml"
            \/ /\ DevCommand /\ toDev # <<>> /\ dpc = "xml" /\ Verify(Head(toDev))
               /\ toDev' = IF dpc' = "gone" THEN <<>> ELSE Tail(toDev)
               /\ dtable' = dtable \/ dtable' = (dtable \/ Head(toDev).cmd = "table")
            \/ /\ DevData /\ toDev # <<>> /\ dpc = "in" /\ Verify(Head(toDev)) /\ dtable' = dtable
               /\ toDev' = Tail(toDev) /\ dpc' \in {"in", "xml"}
            \/ DevGone /\ toDev' = <<>> /\ dpc' = "gone" /\ UNCHANGED <<dtable, dnext, dwrong>>
<1>1. UNCHANGED <<hostVars, late, dmax, dvip>>
  <2>1. UNCHANGED <<hostVars, late>>
    BY DeviceFrame
  <2>2. DevStart \/ DevGone \/ DevData => UNCHANGED <<dmax, dvip>>
    BY DEF DevStart, DevGone, DevData, tableVars
  <2>3. DevCommand => UNCHANGED <<dmax, dvip>>
    BY CommandChoice DEF DevRefuse, DevObey, devRest
  <2> QED
    BY <2>1, <2>2, <2>3 DEF Device
<1>2. UNCHANGED <<run, opi, hpc, step, resp, left, requires, single, vip, result, rsize, payload>>
  BY <1>1 DEF hostVars
<1>3. ops' = ops /\ Op' = Op
  BY <1>2 DEF ops, Op
<1>4. HostPlace' = HostPlace
  BY <1>2, <1>3 DEF HostPlace, Position, DataAt
<1>5. DevStart => toDev' = toDev /\ UNCHANGED <<dtable, dnext, dwrong>> /\ dpc' = "xml"
  BY DEF DevStart, tableVars
<1>6. DevCommand => /\ toDev # <<>> /\ dpc = "xml" /\ Verify(Head(toDev))
                    /\ toDev' = IF dpc' = "gone" THEN <<>> ELSE Tail(toDev)
                    /\ dtable' = dtable \/ dtable' = (dtable \/ Head(toDev).cmd = "table")
  <2>1. DevCommand => dtable' = dtable \/ dtable' = (dtable \/ Head(toDev).cmd = "table")
    BY CommandChoice DEF DevRefuse, DevObey, devRest
  <2> QED
    BY <2>1 DEF DevCommand
<1>7. DevData => /\ toDev # <<>> /\ dpc = "in" /\ Verify(Head(toDev)) /\ dtable' = dtable
                 /\ toDev' = Tail(toDev) /\ dpc' \in {"in", "xml"}
  BY DEF DevData
<1>8. DevGone => toDev' = <<>> /\ dpc' = "gone" /\ UNCHANGED <<dtable, dnext, dwrong>>
  BY DEF DevGone, tableVars
<1>9. dtable => dtable'
  BY <1>5, <1>6, <1>7, <1>8 DEF Device
<1>10. DevStart \/ DevCommand \/ DevData \/ DevGone
  BY DEF Device
<1> QED
  BY <1>1, <1>2, <1>3, <1>4, <1>5, <1>6, <1>7, <1>8, <1>9, <1>10

\* A command that has not been taken is the last thing the host did.
LEMMA OnTheWayStuck ==
  ASSUME Base, PromptInv, toDev # <<>>
  PROVE  Stuck
<1>1. ~Idle /\ ~Settled /\ \A n : ~Receiving(n)
  BY DEF Idle, Settled, Receiving
<1>2. /\ hpc \in {"read", "stream", "final"}
      /\ hpc = "read" => step # "startup" /\ Quiet(toHost) /\ resp = "none"
      /\ hpc = "stream" => toHost = <<>> /\ step = "program"
      /\ hpc = "final" => step = "program" /\ toHost = <<>> /\ resp = "none"
  <2>1. hpc \in {"read", "stream", "final"}
    BY <1>1 DEF PromptInv, Flow, Returned, RawSteps, Probes, Base, TypeOK, HostTypes
  <2>2. hpc = "read" => step # "startup" /\ Quiet(toHost) /\ resp = "none"
    BY <1>1 DEF PromptInv, Flow, Waiting
  <2>3. hpc = "stream" => toHost = <<>> /\ step = "program"
    BY DEF PromptInv, Flow, Base, StepInv
  <2>4. hpc = "final" => step = "program" /\ toHost = <<>> /\ resp = "none"
    BY <1>1 DEF PromptInv, Flow, Finishing
  <2> QED
    BY <2>1, <2>2, <2>3, <2>4
<1>3. Quiet(toHost) => NoResponse
  BY DEF Quiet, IsLog, NoResponse
<1>4. toHost = <<>> => NoResponse
  BY EmptySeq DEF NoResponse
<1>5. hpc = "read" => step \notin {"resetting", "refused"}
  BY DEF Base, StepInv
<1> QED
  BY <1>2, <1>3, <1>4, <1>5 DEF Stuck

\* The packet that is taken is the one to be compared next.
LEMMA Compared ==
  ASSUME toDev \in Seq(Commands), toDev # <<>>, InOrder, NoTable, dvip, dtable,
         Verify(Head(toDev)), run' = run
  PROVE  /\ dwrong' = dwrong /\ dnext' = After(dnext)
         /\ toDev' = Tail(toDev) => InOrder' /\ Ahead' = Ahead
         /\ Len(toDev) = 1 => Ahead = After(dnext)
<1>1. /\ Head(toDev) = toDev[1] /\ Len(toDev) \in 1 .. 2 /\ Len(Tail(toDev)) = Len(toDev) - 1
      /\ \A j \in 1 .. Len(Tail(toDev)) : Tail(toDev)[j] = toDev[j + 1]
  BY FlightTail DEF InOrder
<1>2. Fits(Head(toDev), dnext) /\ Head(toDev).cmd # "table"
  BY <1>1 DEF InOrder, NoTable
<1>3. dwrong' = dwrong /\ dnext' = After(dnext)
  BY <1>2 DEF Verify, Fits
<1>4. ASSUME toDev' = Tail(toDev)  PROVE InOrder' /\ Ahead' = Ahead
  <2> DEFINE a == After(dnext)
             b == After(a)
  <2>1. /\ dnext' = a /\ After(dnext)' = b
        /\ Fits(toDev[1], dnext)' = Fits(toDev'[1], a)
    BY <1>3, <1>4 DEF ops, Fits, After, PacketAt, Packet, Position
  <2>2. CASE Len(toDev) = 1
    <3>1. Len(toDev') = 0
      BY <1>1, <1>4, <2>2
    <3> QED
      BY <2>1, <2>2, <3>1 DEF InOrder, Ahead
  <2>3. CASE Len(toDev) = 2
    <3>1. Len(toDev') = 1 /\ toDev'[1] = toDev[2]
      <4>1. Len(toDev') = 1
        BY <1>1, <1>4, <2>3
      <4>2. Len(Tail(toDev)) = 1
        BY <1>1, <2>3
      <4> DEFINE u == Tail(toDev)
      <4>3. Len(u) = 1 /\ \A j \in 1 .. Len(u) : u[j] = toDev[j + 1]
        BY <1>1, <4>2
      <4> HIDE DEF u
      <4>4. u[1] = toDev[2]
        BY <4>3
      <4> QED
        BY <1>4, <4>1, <4>4 DEF u
    <3>2. Fits(toDev[2], a)
      BY <2>3 DEF InOrder
    <3> HIDE DEF a, b
    <3>3. Ahead' = b /\ Ahead = b
      BY <2>1, <2>3, <3>1 DEF Ahead, a, b
    <3> QED
      BY <2>1, <3>1, <3>2, <3>3 DEF InOrder
  <2> QED
    BY <1>1, <2>2, <2>3
<1>5. Len(toDev) = 1 => Ahead = After(dnext)
  BY DEF Ahead
<1> QED
  BY <1>3, <1>4, <1>5

LEMMA NoTableStays ==
  ASSUME toDev \in Seq(Commands), NoTable,
         toDev' = toDev \/ toDev' = <<>> \/ (toDev # <<>> /\ toDev' = Tail(toDev))
  PROVE  NoTable'
<1>1. CASE toDev' = toDev
  BY <1>1 DEF NoTable
<1>2. CASE toDev' = <<>>
  BY <1>2, EmptySeq DEF NoTable
<1>3. CASE toDev # <<>> /\ toDev' = Tail(toDev)
  <2>1. /\ Len(toDev') = Len(toDev) - 1 /\ Len(toDev) \in Nat
        /\ \A j \in 1 .. Len(toDev') : toDev'[j] = toDev[j + 1]
    BY <1>3, HeadIsFirst
  <2>2. \A j \in 1 .. Len(toDev') : j + 1 \in 1 .. Len(toDev)
    BY <2>1
  <2> QED
    BY <2>1, <2>2 DEF NoTable
<1> QED
  BY <1>1, <1>2, <1>3

LEMMA UnderwayDevice ==
  ASSUME Inv, DeviceSession, vip = "SEND_DATA", Tabled, Underway, Device \/ DevGone
  PROVE  Underway' /\ (dmax = HostPayload => dwrong' = dwrong)
<1>1. /\ UNCHANGED <<run, step, result, late, dmax>> /\ HostPlace' = HostPlace /\ ops' = ops
      /\ dtable' /\ dvip /\ (Ignored' <=> Ignored)
  <2>1. /\ UNCHANGED <<hostVars, late, dmax>> /\ HostPlace' = HostPlace /\ ops' = ops
        /\ (dtable => dtable')
    BY DeviceLeaves
  <2>2. UNCHANGED <<run, step, result>>
    BY DeviceLeaves
  <2>3. dvip /\ dtable
    BY DEF DeviceSession, Tabled, Underway
  <2> QED
    BY <2>1, <2>2, <2>3 DEF Ignored
<1>2. toDev \in Seq(Commands) /\ Base
  BY DEF Inv, Base, TypeOK, LinkTypes
<1>3. \/ toDev' = toDev \/ toDev' = <<>> \/ (toDev # <<>> /\ toDev' = Tail(toDev))
  BY DeviceLeaves, Zenon
<1>4. NoTable' /\ step' # "table"
  BY <1>1, <1>2, <1>3, NoTableStays DEF Underway
<1>5. ASSUME dmax = HostPayload
      PROVE  /\ dwrong' = dwrong /\ InOrder'
             /\ result # "failed" => IF dpc' # "gone" THEN Ahead' = HostPlace'
                                     ELSE late = 0 /\ ~Ignored => Reached' \/ Stuck'
  <2>1. InOrder /\ (result # "failed" /\ dpc # "gone" => Ahead = HostPlace)
    BY <1>5 DEF Underway
  <2>2. CASE DevStart
    <3>1. /\ UNCHANGED <<run, toDev, dnext, dwrong>> /\ dpc = "boot" /\ dpc' = "xml"
      BY <1>1, <2>2 DEF DevStart, tableVars
    <3> QED
      BY <1>1, <2>1, <3>1, OrderStays
  <2>3. CASE DevCommand
    <3>1. /\ toDev # <<>> /\ dpc = "xml" /\ Verify(Head(toDev))
          /\ toDev' = IF dpc' = "gone" THEN <<>> ELSE Tail(toDev)
      BY <2>3 DEF DevCommand
    <3>2. /\ dwrong' = dwrong /\ dnext' = After(dnext)
          /\ toDev' = Tail(toDev) => InOrder' /\ Ahead' = Ahead
          /\ Len(toDev) = 1 => Ahead = After(dnext)
      BY <1>1, <1>2, <2>1, <3>1, Compared DEF Underway
    <3>3. CASE dpc' # "gone"
      BY <1>1, <2>1, <3>1, <3>2, <3>3
    <3>4. CASE dpc' = "gone"
      <4>1. InOrder'
        <5>1. toDev' = <<>> /\ Len(toDev') = 0
          BY <3>1, <3>4
        <5> QED
          BY <5>1 DEF InOrder
      <4>2. ASSUME result # "failed", late = 0  PROVE  Reached'
        <5>1. toDev = <<Command>> /\ Len(<<Command>>) = 1
          BY <1>2, <2>3, <4>2, CommandTaken DEF Inv
        <5>2. Ahead = After(dnext) /\ Ahead = HostPlace
          BY <2>1, <3>1, <3>2, <4>2, <5>1
        <5> QED
          BY <1>1, <3>2, <5>2 DEF Reached
      <4> QED
        BY <3>2, <3>4, <4>1, <4>2
    <3> QED
      BY <3>3, <3>4
  <2>4. CASE DevData
    <3>1. /\ toDev # <<>> /\ dpc = "in" /\ Verify(Head(toDev)) /\ toDev' = Tail(toDev)
          /\ dpc' # "gone"
      BY <2>4 DEF DevData
    <3>2. dwrong' = dwrong /\ InOrder' /\ Ahead' = Ahead
      BY <1>1, <1>2, <2>1, <3>1, Compared DEF Underway
    <3> QED
      BY <1>1, <2>1, <3>1, <3>2
  <2>5. CASE DevGone
    <3>1. /\ toDev' = <<>> /\ dpc # "gone" /\ dpc' = "gone" /\ UNCHANGED <<dnext, dwrong>>
          /\ toHost' \in {toHost, <<>>}
      BY <2>5 DEF DevGone, tableVars
    <3>2. InOrder'
      <4>1. Len(toDev') = 0
        BY <3>1
      <4> QED
        BY <4>1 DEF InOrder
    <3>3. ASSUME result # "failed", late = 0  PROVE  Reached' \/ Stuck'
      <4>1. CASE toDev = <<>>
        <5>1. Ahead = dnext
          BY <4>1 DEF Ahead
        <5> QED
          BY <1>1, <2>1, <3>1, <3>3, <5>1 DEF Reached
      <4>2. CASE toDev # <<>>
        <5>1. Stuck
          BY <1>2, <3>3, <4>2, OnTheWayStuck DEF Inv
        <5>2. UNCHANGED <<hpc, step, resp>>
          BY DeviceLeaves
        <5>3. NoResponse'
          <6>1. NoResponse /\ Len(<<>>) = 0
            BY <5>1 DEF Stuck
          <6> QED
            BY <3>1, <6>1 DEF NoResponse
        <5> QED
          BY <5>1, <5>2, <5>3 DEF Stuck
      <4> QED
        BY <4>1, <4>2
    <3> QED
      BY <3>1, <3>2, <3>3
  <2> QED
    BY <2>2, <2>3, <2>4, <2>5 DEF Device
<1> QED
  BY <1>1, <1>4, <1>5 DEF Underway

-----------------------------------------------------------------------------
(* Before the table has been accepted.                                     *)

\* What the host may do where it waits for an answer.
LEMMA WhatNext ==
  ASSUME Host
  PROVE  /\ hpc = "op" => StartOp
         /\ hpc = "write" => WriteCommand \/ WriteTimesOut \/ WriteFails
         /\ hpc = "read" => ReadMessage \/ ReadTimesOut \/ ReadFails
         /\ hpc = "after" /\ step = "startup" => AfterStartup
         /\ hpc = "after" /\ step = "table" => AfterTable
         /\ hpc = "after" /\ step = "configure" => AfterConfigure
<1>1. hpc \in {"op", "write", "read"} =>
        ~(AfterStartup \/ AfterTable \/ AfterConfigure \/ AfterReconfigure \/ AfterProbe
            \/ ProbeDone \/ AfterDigest \/ ProgramSetup \/ ReadSetup \/ ProgramDone \/ ReadDone
            \/ AfterErase \/ AfterPatch \/ AfterBootable \/ AfterReset \/ ResetDone)
  BY DEF AfterStartup, AfterTable, AfterConfigure, AfterReconfigure, AfterProbe, ProbeDone,
         AfterDigest, ProgramSetup, ReadSetup, ProgramDone, ReadDone, AfterErase, AfterPatch,
         AfterBootable, AfterReset, ResetDone
<1>2. hpc \in {"op", "write", "read", "after"} => ~(StreamChunk \/ RecvSector \/ TransferFails)
  BY DEF StreamChunk, RecvSector, TransferFails
<1>3. hpc # "op" => ~StartOp
  BY DEF StartOp
<1>4. hpc # "write" => ~(WriteCommand \/ WriteTimesOut \/ WriteFails)
  BY DEF WriteCommand, WriteTimesOut, WriteFails
<1>5. hpc \in {"op", "write", "after"} => ~(ReadMessage \/ ReadTimesOut \/ ReadFails)
  BY DEF ReadMessage, ReadTimesOut, ReadFails, Reading
<1>6. step \in {"startup", "table", "configure"} =>
        ~(AfterReconfigure \/ AfterProbe \/ ProbeDone \/ AfterDigest \/ ProgramSetup
            \/ ReadSetup \/ ProgramDone \/ ReadDone \/ AfterErase \/ AfterPatch \/ AfterBootable
            \/ AfterReset \/ ResetDone)
  BY DEF AfterReconfigure, AfterProbe, ProbeDone, AfterDigest, ProgramSetup, ReadSetup,
         ProgramDone, ReadDone, AfterErase, AfterPatch, AfterBootable, AfterReset, ResetDone, Probes
<1>7. /\ step = "startup" => ~(AfterTable \/ AfterConfigure)
      /\ step = "table" => ~(AfterStartup \/ AfterConfigure)
      /\ step = "configure" => ~(AfterStartup \/ AfterTable)
  BY DEF AfterStartup, AfterTable, AfterConfigure
<1> QED
  BY <1>1, <1>2, <1>3, <1>4, <1>5, <1>6, <1>7 DEF Host

\* Waiting for what does not come, or comes without the answer.
LEMMA WaitsInVain ==
  ASSUME Base, hpc = "read", ReadMessage \/ ReadTimesOut \/ ReadFails
  PROVE  /\ UNCHANGED <<opi, step, single, vip, result, dpc>> /\ hpc' \in {"read", "after"}
         /\ UNCHANGED <<toDev, dnext, dtable>>
         /\ \/ resp' = resp \/ resp' \in {"TIMEDOUT", "EIO"}
            \/ \E j \in 1 .. Len(toHost) :
                 /\ toHost[j].t = "resp"
                 /\ IF step = "configure" THEN toHost[j].size > 0 ELSE resp' \in {toHost[j].v, "ACK"}
                 /\ step = "table" => resp' = toHost[j].v
<1>1. /\ UNCHANGED <<opi, step, single, vip, result, dpc>> /\ UNCHANGED <<toDev, dnext, dtable>>
  BY DEF ReadMessage, ReadTimesOut, ReadFails, configVars, devVars, tableVars
<1>2. CASE ReadTimesOut \/ ReadFails
  BY <1>1, <1>2 DEF ReadTimesOut, ReadFails, ReturnTo
<1>3. CASE ReadMessage
  <2> DEFINE m == Head(toHost)
  <2>1. /\ toHost # <<>>
        /\ IF Accepts(m)
             THEN /\ resp' = IF ConfigureReply THEN "ACK" ELSE m.v
                  /\ hpc' = IF m.raw /\ ~ConfigureReply THEN ReturnTo ELSE hpc
             ELSE UNCHANGED <<resp, hpc>>
    BY <1>3 DEF ReadMessage
  <2>2. m = toHost[1] /\ 1 \in 1 .. Len(toHost)
    BY <2>1, HeadIsFirst DEF Base, TypeOK, LinkTypes
  <2> HIDE DEF m
  <2>3. hpc' \in {"read", "after"}
    BY <2>1 DEF ReturnTo
  <2>4. CASE Accepts(m)
    <3>1. /\ m.t = "resp" /\ resp' \in {m.v, "ACK"} /\ (step = "configure" => m.size > 0)
          /\ (step = "table" => resp' = m.v)
      BY <2>1, <2>4 DEF Accepts, ConfigureReply
    <3> QED
      BY <1>1, <2>2, <2>3, <3>1
  <2> QED
    BY <1>1, <2>1, <2>3, <2>4
<1> QED
  BY <1>2, <1>3

LEMMA PreparedHost ==
  ASSUME Base, vip = "INIT", Prepared, Host
  PROVE  Session'
<1>1. /\ UNCHANGED <<run, dnext, dtable, dpc>> /\ ~dtable /\ toDev = <<>> /\ opi = 1
      /\ dnext = Position(1) /\ NoResponse' /\ dpc # "in" /\ (hpc # "op" => single)
  BY HostLeaves, NoResponseStays DEF Prepared, Base
<1> DEFINE Goes == /\ UNCHANGED <<vip, toDev, opi>> /\ single'
                   /\ \/ hpc' \in {"read", "after"} /\ step' = "startup"
                      \/ hpc' = "write" /\ step' = "table" /\ requires'
                      \/ hpc' \in {"read", "after"} /\ step' = "configure" /\ resp' # "ACK" /\ dpc = "gone"
                      \/ hpc' = "end" /\ result' = "failed"
<1>3. Goes => Session'
  BY <1>1 DEF Session, Prepared
<1>4. CASE hpc = "op"
  <2>1. StartOp
    BY <1>4, WhatNext
  <2>2. opi <= Len(ops) /\ ~(opi > Len(ops)) /\ Op.type = "configure"
    BY <1>1, OpsFacts DEF Op, Base, TypeOK, HostTypes
  <2>3. UNCHANGED <<vip, toDev, opi>>
    BY <2>1 DEF StartOp
  <2>4. /\ single' /\ hpc' = "read" /\ step' = "startup"
    BY <2>1, <2>2 DEF StartOp, Read
  <2> QED
    BY <1>3, <2>3, <2>4
<1>5. CASE hpc = "read" /\ step \in {"startup", "configure"}
  <2>1. ReadMessage \/ ReadTimesOut \/ ReadFails
    BY <1>5, WhatNext
  <2>2. /\ UNCHANGED <<opi, step, single, vip, toDev>> /\ hpc' \in {"read", "after"}
        /\ resp' = resp \/ resp' \in {"TIMEDOUT", "EIO"}
    BY <1>1, <1>5, <2>1, WaitsInVain DEF NoResponse, Prepared
  <2> QED
    BY <1>1, <1>3, <1>5, <2>2 DEF Prepared
<1>6. CASE hpc = "after" /\ step = "startup"
  <2>1. AfterStartup /\ single
    BY <1>1, <1>6, WhatNext
  <2>2. CASE requires
    <3>1. hpc' = "write" /\ step' = "table" /\ requires' /\ UNCHANGED <<vip, toDev, opi, single>>
      BY <2>1, <2>2 DEF AfterStartup, Write, exchangeRest
    <3> QED
      BY <1>3, <2>1, <3>1
  <2>3. CASE ~requires
    <3>1. vip' = "DISABLED" /\ step' = "configure" /\ toDev' = toDev
      BY <2>1, <2>3 DEF AfterStartup, Write, exchangeRest
    <3>2. NoTable'
      BY <1>1, <3>1, EmptySeq DEF NoTable
    <3> QED
      BY <1>1, <3>1, <3>2 DEF Session, Without
  <2> QED
    BY <2>2, <2>3
<1>7. CASE hpc = "write" /\ step = "table"
  <2>1. WriteCommand \/ WriteFails
    BY <1>7, WhatNext DEF WriteTimesOut
  <2>2. CASE WriteFails
    <3>1. dpc = "gone" /\ UNCHANGED <<vip, toDev, single>>
      BY <2>2 DEF WriteFails
    <3>2. hpc' = "read" /\ step' = "configure" /\ resp' = "none" /\ opi' = opi
      BY <1>7, <2>2 DEF WriteFails, Read, Probes
    <3> QED
      BY <1>1, <1>3, <1>7, <3>1, <3>2
  <2>3. CASE WriteCommand
    <3>1. /\ hpc' = "read" /\ step' = "table" /\ resp' = "none" /\ vip' = "SEND_DATA"
          /\ UNCHANGED <<opi, single, requires>> /\ requires
      BY <1>7, <2>3 DEF WriteCommand, Read, Prepared
    <3>2. toDev' = <<Command>> /\ Command.cmd = "table"
      BY <1>1, <1>7, <2>3, WriteCommandIs DEF Command
    <3>3. Len(toDev') = 1 /\ toDev'[1].cmd = "table"
      BY <3>2
    <3> QED
      BY <1>1, <1>7, <3>1, <3>3 DEF Session, Offered, Tabled, NoResponse, Probes
  <2> QED
    BY <2>1, <2>2, <2>3
<1>8. CASE hpc = "after" /\ step = "configure"
  <2>1. AfterConfigure /\ resp # "ACK" /\ single
    BY <1>1, <1>8, WhatNext DEF Prepared
  <2>2. Plain /\ ToEnd
    BY <2>1, AfterConfigureOnce
  <2> QED
    BY <1>1, <1>3, <2>1, <2>2 DEF Plain, Frame, ToEnd, Fail, exchangeRest
<1>9. hpc # "end"
  BY HostActs
<1> QED
  BY <1>4, <1>5, <1>6, <1>7, <1>8, <1>9 DEF Prepared

LEMMA OfferedHost ==
  ASSUME Base, vip = "SEND_DATA", Tabled, Offered, Host
  PROVE  vip' = "SEND_DATA" /\ Tabled' /\ (Offered' \/ Underway')
<1>1. /\ UNCHANGED <<run, dnext, dtable, dpc>> /\ opi = 1 /\ dnext = Position(1) /\ dpc # "in"
      /\ toDev = <<>> \/ (~dtable /\ Len(toDev) = 1 /\ toDev[1].cmd = "table")
      /\ requires'
  <2>1. ReadMessage => requires'
    BY DEF ReadMessage, Tabled
  <2> QED
    BY <2>1, HostLeaves DEF Offered, Tabled
<1>2. \A j \in 1 .. Len(toHost') : toHost'[j].t = "resp" =>
        toHost'[j].size = 0 /\ (toHost'[j].v = "ACK" => dtable)
  BY StillThere DEF Base, Offered
<1> DEFINE Goes == /\ UNCHANGED <<vip, toDev, opi, single>>
                   /\ \/ hpc' \in {"read", "after"} /\ step' = "table" /\ (resp' = "ACK" => dtable)
                      \/ hpc' \in {"read", "after"} /\ step' = "configure" /\ resp' # "ACK"
                      \/ hpc' = "end" /\ result' = "failed" /\ step' = step
<1>3. Goes => vip' = "SEND_DATA" /\ Tabled' /\ Offered'
  <2>1. Goes => step' \notin Probes \cup {"digest"}
    BY DEF Tabled, Probes
  <2> QED
    BY <1>1, <1>2, <2>1 DEF Offered, Tabled
<1>4. CASE hpc = "read" /\ step \in {"table", "configure"}
  <2>1. ReadMessage \/ ReadTimesOut \/ ReadFails
    BY <1>4, WhatNext
  <2>2. UNCHANGED <<opi, step, single, vip, toDev>> /\ hpc' \in {"read", "after"}
    BY <1>4, <2>1, WaitsInVain
  <2>3. \A j \in 1 .. Len(toHost) : toHost[j].t = "resp" =>
           ~(toHost[j].size > 0) /\ (toHost[j].v = "ACK" => dtable)
    BY DEF Offered
  <2>4. \/ resp' = resp \/ resp' \in {"TIMEDOUT", "EIO"}
        \/ step = "table" /\ (resp' = "ACK" => dtable)
    BY <1>4, <2>1, <2>3, WaitsInVain
  <2> QED
    BY <1>3, <1>4, <2>2, <2>4 DEF Offered
<1>5. CASE hpc = "after" /\ step = "table"
  <2>1. AfterTable
    BY <1>5, WhatNext
  <2>2. UNCHANGED <<vip, toDev, opi, single, run, dtable, dnext, dpc, result>>
    BY <1>1, <2>1 DEF AfterTable, exchangeRest, configVars
  <2>3. CASE resp = "ACK"
    <3>1. hpc' = "write" /\ step' = "configure" /\ dtable /\ toDev = <<>>
      BY <1>1, <1>5, <2>1, <2>3 DEF AfterTable, Write, Offered
    <3>2. NoTable' /\ Len(toDev') = 0
      <4>1. toDev' = <<>> /\ Len(<<>>) = 0
        BY <2>2, <3>1
      <4> QED
        BY <4>1 DEF NoTable
    <3>3. InOrder' /\ Ahead' = Position(1) /\ HostPlace' = Position(1)
      BY <1>1, <2>2, <3>1, <3>2 DEF InOrder, Ahead, HostPlace, Position
    <3>4. Reached'
      BY <1>1, <2>2, <3>3 DEF Reached, Position
    <3>5. dtable'
      BY <2>2, <3>1
    <3>6. Underway'
      BY <3>1, <3>2, <3>3, <3>4, <3>5 DEF Underway
    <3> QED
      BY <1>1, <2>2, <3>1, <3>6 DEF Tabled, Probes
  <2>4. CASE resp # "ACK"
    <3>1. hpc' = "read" /\ step' = "configure" /\ resp' = "none"
      BY <2>1, <2>4 DEF AfterTable, Read
    <3> QED
      BY <1>3, <2>2, <3>1
  <2> QED
    BY <2>3, <2>4
<1>6. CASE hpc = "after" /\ step = "configure"
  <2>1. AfterConfigure /\ resp # "ACK" /\ single
    BY <1>6, WhatNext DEF Offered, Tabled
  <2>2. Plain /\ ToEnd
    BY <2>1, AfterConfigureOnce
  <2> QED
    BY <1>3, <2>1, <2>2 DEF Plain, Frame, ToEnd, Fail, exchangeRest
<1>7. hpc # "end"
  BY HostActs
<1> QED
  BY <1>4, <1>5, <1>6, <1>7 DEF Offered

\* The table is written only by a session that has been prepared, and no transfer begins
\* later.
LEMMA NoTableLater ==
  ASSUME Base, vip = "DISABLED", step # "table", Host
  PROVE  vip' = "DISABLED" /\ step' # "table"
<1> DEFINE Kept == vip' = "DISABLED" /\ step' # "table"
<1>1. Plain /\ (ToEnd \/ ToNext \/ (\E s \in Steps \ {"table"} : ToWrite(s))) => Kept
  BY DEF Plain, ToEnd, ToNext, ToWrite, Write
<1>2. AfterStartup => Kept
  BY DEF AfterStartup, Write
<1>3. ~AfterTable
  BY DEF AfterTable
<1>4. CASE AfterConfigure \/ AfterReconfigure \/ ProbeDone \/ AfterDigest
  BY <1>4, AfterConfigureOutcome, AfterReconfigureOutcome, ProbeDoneOutcome, AfterDigestOutcome
  DEF Plain, ToEnd, ToNext, ToRegion, ToWrite, Write
<1>5. Concludes => Kept
  BY ConcludingOutcome DEF Concludes, Plain, ToEnd, ToNext, ToRegion, Write
<1>6. WriteCommand \/ WriteTimesOut \/ ReadMessage \/ ReadTimesOut \/ ReadFails => Kept
  BY DEF WriteCommand, WriteTimesOut, ReadMessage, ReadTimesOut, ReadFails, configVars
<1>7. WriteFails => Kept
  <2>1. WriteFails => vip' = vip /\ step' = step
    BY Zenon DEF WriteFails, NextOp, Fail
  <2> QED
    BY <2>1
<1>8. StartOp => Kept
  <2>1. StartOp /\ opi <= Len(ops) => Op.type # "table"
    BY OpsFacts DEF Base, TypeOK, HostTypes, Op
  <2> QED
    BY <2>1 DEF StartOp, Write
<1>9. NextProbe => step' # "table"
  BY NextProbeOutcome DEF ToWrite, Write, ToNext, ToEnd
<1>10. AfterProbe \/ TransferFails => Kept
  BY <1>9 DEF AfterProbe, TransferFails
<1>11. ProgramSetup \/ ReadSetup \/ AfterReset \/ StreamChunk \/ RecvSector => Kept
  BY DEF ProgramSetup, ReadSetup, SetUp, AfterReset, StreamChunk, RecvSector, configVars
<1> QED
  BY <1>2, <1>3, <1>4, <1>5, <1>6, <1>7, <1>8, <1>10, <1>11, WhatConcludes DEF Host

LEMMA WithoutHost ==
  ASSUME Base, vip = "DISABLED", Without, Host
  PROVE  vip' = "DISABLED" /\ Without'
<1>1. vip' = "DISABLED" /\ step' # "table" /\ dtable' = dtable /\ ~dtable /\ NoTable
      /\ step # "table"
  BY NoTableLater, HostLeaves DEF Without
<1>2. toDev \in Seq(Commands)
  BY DEF Base, TypeOK, LinkTypes
<1>3. \/ toDev' = toDev
      \/ \E c \in Commands : c.cmd # "table" /\ Len(toDev) < 2 /\ toDev' = Append(toDev, c)
  <2>1. CASE WriteCommand
    <3>1. hpc = "write" /\ Len(toDev) < 2 /\ toDev' = Append(toDev, Command)
      BY <2>1, WriteCommandIs DEF WriteCommand
    <3>2. Command \in Commands /\ Command.cmd # "table"
      BY <1>1, <3>1, CommandTyped DEF Base, StepInv, Command
    <3> QED
      BY <3>1, <3>2
  <2>2. CASE StreamChunk
    <3> DEFINE n == Lesser(payload, left)
               c == [cmd |-> "data", re |-> Exchange(step), n |-> n]
    <3>1. Len(toDev) < 2 /\ toDev' = Append(toDev, c) /\ hpc = "stream"
      BY <2>2 DEF StreamChunk
    <3>2. payload \in Nat /\ left \in Nat /\ step \in AllSteps
      BY DEF Base, TypeOK, HostTypes
    <3>3. Exchange(step) \in Exchanges /\ n \in Nat
      BY <3>2, ExchangeTyped, LesserFacts DEF Base
    <3>4. c \in Commands /\ c.cmd # "table"
      BY <3>3 DEF Commands
    <3> QED
      BY <3>1, <3>4
  <2> QED
    BY <2>1, <2>2, HostLeaves
<1>4. NoTable'
  <2>1. CASE toDev' = toDev
    BY <1>1, <2>1 DEF NoTable
  <2>2. ASSUME NEW c \in Commands, c.cmd # "table", Len(toDev) < 2, toDev' = Append(toDev, c)
        PROVE  NoTable'
    <3>1. /\ Len(toDev') = Len(toDev) + 1 /\ Len(toDev) \in Nat
          /\ \A j \in 1 .. Len(toDev) : toDev'[j] = toDev[j]
          /\ toDev'[Len(toDev) + 1] = c
      BY <1>2, <2>2, FlightAppend, LenProperties
    <3> QED
      BY <1>1, <2>2, <3>1 DEF NoTable
  <2> QED
    BY <1>3, <2>1, <2>2
<1> QED
  BY <1>1, <1>4 DEF Without

LEMMA SessionHost ==
  ASSUME Inv, SessionInv, Host
  PROVE  Session'
<1>1. Base /\ vip \in {"DISABLED", "INIT", "SEND_DATA"}
  BY DEF Inv, Base, TypeOK, HostTypes
<1>2. CASE vip = "INIT"
  BY <1>1, <1>2, PreparedHost DEF SessionInv, Session
<1>3. CASE vip = "DISABLED"
  BY <1>1, <1>3, WithoutHost DEF SessionInv, Session
<1>4. CASE vip = "SEND_DATA"
  <2>1. Tabled /\ (Offered \/ Underway) /\ Proposals /\ (dpc = "gone" => toDev = <<>>)
    BY <1>4 DEF SessionInv, Session, DeviceSession
  <2> QED
    BY <1>1, <1>4, <2>1, OfferedHost, UnderwayGoesOn, UnderwayGoneOn DEF Session
<1> QED
  BY <1>1, <1>2, <1>3, <1>4

\* The programmer in a session that has not got as far as the table, or has not got further.
LEMMA PreparedDevice ==
  ASSUME Base, Prepared, Device \/ DevGone
  PROVE  Prepared' /\ dwrong' = dwrong
<1>1. /\ UNCHANGED <<opi, hpc, step, resp, requires, single, result>> /\ toDev' = <<>>
      /\ UNCHANGED <<dtable, dnext, dwrong>> /\ (dpc' = dpc \/ dpc' \in {"xml", "gone"})
      /\ (dpc = "gone" => dpc' = "gone")
  <2>1. toDev = <<>>
    BY DEF Prepared
  <2>2. dpc = "gone" => ~DevStart /\ ~DevGone
    BY DEF DevStart, DevGone
  <2> QED
    BY <2>1, <2>2, DeviceLeaves
<1>2. toDev = <<>> /\ dpc # "in" /\ NoResponse /\ Position(1)' = Position(1)
  BY DEF Prepared, Position
<1>3. NoResponse'
  <2>1. DevStart \/ DevGone
    BY <1>2 DEF Device, DevCommand, DevData
  <2>2. CASE DevGone
    <3>1. toHost' = toHost \/ (toHost' = <<>> /\ Len(toHost') = 0)
      BY <2>2 DEF DevGone
    <3> QED
      BY <1>2, <3>1 DEF NoResponse
  <2>3. CASE DevStart
    <3>1. dpc = "boot"
      BY <2>3 DEF DevStart
    <3>2. \A m : New(m) => m.t # "resp"
      BY <3>1 DEF New
    <3> QED
      BY <1>2, <2>3, <3>2, DeviceNews DEF NoResponse, Device
  <2> QED
    BY <2>1, <2>2, <2>3
<1> QED
  BY <1>1, <1>2, <1>3 DEF Prepared

LEMMA OfferedDevice ==
  ASSUME Base, DeviceSession, Tabled, Offered, Device \/ DevGone
  PROVE  Offered' /\ dwrong' = dwrong
<1>1. /\ UNCHANGED <<opi, hpc, step, resp, result>> /\ (dtable => dtable')
      /\ Position(1)' = Position(1) /\ dpc # "in"
  BY DeviceLeaves DEF Offered, Position
<1>2. /\ UNCHANGED <<dnext, dwrong>> /\ dpc' # "in"
      /\ toDev' = <<>> \/ (~dtable' /\ Len(toDev') = 1 /\ toDev'[1].cmd = "table")
  <2>1. CASE DevStart
    <3>1. toDev' = toDev /\ UNCHANGED <<dtable, dnext, dwrong>> /\ dpc' = "xml"
      BY <2>1 DEF DevStart, tableVars
    <3> QED
      BY <3>1 DEF Offered
  <2>2. CASE DevGone
    BY <2>2 DEF DevGone, tableVars
  <2>3. CASE DevCommand
    <3>1. /\ toDev # <<>> /\ dpc = "xml" /\ Verify(Head(toDev))
          /\ toDev' = IF dpc' = "gone" THEN <<>> ELSE Tail(toDev)
      BY <2>3 DEF DevCommand
    <3>2. /\ Len(toDev) = 1 /\ Head(toDev).cmd = "table" /\ Tail(toDev) = <<>>
      <4>1. Len(toDev) = 1 /\ toDev[1].cmd = "table" /\ toDev \in Seq(Commands)
        BY <3>1 DEF Offered, Base, TypeOK, LinkTypes
      <4>2. Head(toDev) = toDev[1] /\ Tail(toDev) \in Seq(Commands) /\ Len(Tail(toDev)) = 0
        BY <3>1, <4>1, FlightTail
      <4>3. Tail(toDev) = <<>>
        BY <4>2, EmptySeq
      <4> QED
        BY <4>1, <4>2, <4>3
    <3>3. UNCHANGED <<dnext, dwrong>>
      BY <3>1, <3>2 DEF Verify
    <3>4. dpc' # "in"
      <4>1. DevObey(Head(toDev)) => dpc' = dpc
        BY <3>2 DEF DevObey
      <4>2. DevRefuse(Head(toDev)) => dpc' = dpc
        BY DEF DevRefuse
      <4> QED
        BY <2>3, <3>1, <4>1, <4>2, CommandChoice
    <3> QED
      BY <3>1, <3>2, <3>3, <3>4
  <2>4. ~DevData
    BY <1>1 DEF DevData
  <2> QED
    BY <2>1, <2>2, <2>3, <2>4 DEF Device
<1>3. ASSUME NEW j \in 1 .. Len(toHost'), toHost'[j].t = "resp"
      PROVE  toHost'[j].size = 0 /\ (toHost'[j].v = "ACK" => dtable')
  <2>1. CASE \E i \in 1 .. Len(toHost) : toHost'[j] = toHost[i]
    BY <1>1, <1>3, <2>1 DEF Offered
  <2>2. CASE New(toHost'[j]) /\ ~\E i \in 1 .. Len(toHost) : toHost'[j] = toHost[i]
    <3>1. ~DevGone /\ ~DevStart
      <4>1. DevStart => dpc = "boot"
        BY DEF DevStart
      <4>2. DevStart => FALSE
        BY <1>3, <2>2, <4>1 DEF New
      <4>3. DevGone => toHost' = toHost \/ (toHost' = <<>> /\ Len(toHost') = 0)
        BY DEF DevGone
      <4> QED
        BY <2>2, <4>2, <4>3
    <3>2. DevCommand
      BY <1>1, <3>1 DEF Device, DevData
    <3>3. dpc = "xml" /\ toDev # <<>>
      BY <3>2 DEF DevCommand
    <3>4. Head(toDev).cmd = "table"
      <4>1. toDev[1].cmd = "table" /\ toDev \in Seq(Commands)
        BY <3>3 DEF Offered, Base, TypeOK, LinkTypes
      <4> QED
        BY <3>3, <4>1, HeadIsFirst
    <3> QED
      BY <2>2, <3>3, <3>4 DEF New
  <2> QED
    BY <2>1, <2>2, DeviceNews
<1> QED
  BY <1>1, <1>2, <1>3 DEF Offered

LEMMA WithoutDevice ==
  ASSUME Base, Without, Device \/ DevGone
  PROVE  Without' /\ dwrong' = dwrong
<1>1. /\ step' = step /\ ~dtable /\ NoTable /\ step # "table" /\ toDev \in Seq(Commands)
  BY DeviceLeaves DEF Without, Base, TypeOK, LinkTypes
<1>2. toDev # <<>> => Head(toDev).cmd # "table"
  <2>1. toDev # <<>> => Head(toDev) = toDev[1] /\ 1 \in 1 .. Len(toDev)
    BY <1>1, HeadIsFirst
  <2> QED
    BY <1>1, <2>1 DEF NoTable
<1>3. \A c : Verify(c) => dwrong' = dwrong
  BY <1>1 DEF Verify
<1>4. dtable' = dtable /\ dwrong' = dwrong
  BY <1>1, <1>2, <1>3, DeviceLeaves DEF Base, TypeOK, DeviceTypes
<1>5. \/ toDev' = toDev \/ toDev' = <<>> \/ (toDev # <<>> /\ toDev' = Tail(toDev))
  BY DeviceLeaves, Zenon
<1>6. NoTable'
  BY <1>1, <1>5, NoTableStays
<1> QED
  BY <1>1, <1>4, <1>6 DEF Without

LEMMA SessionDevice ==
  ASSUME Inv, SessionInv, Device \/ DevGone
  PROVE  Session' /\ (dmax = HostPayload => dwrong' = dwrong)
<1>1. /\ Base /\ DeviceSession /\ Session /\ vip \in {"DISABLED", "INIT", "SEND_DATA"}
  BY DEF Inv, Base, TypeOK, HostTypes, SessionInv
<1>2. UNCHANGED <<vip, requires, single, step>>
  BY DeviceLeaves
<1>3. CASE vip = "INIT"
  BY <1>1, <1>2, <1>3, PreparedDevice DEF Session
<1>4. CASE vip = "DISABLED"
  BY <1>1, <1>2, <1>4, WithoutDevice DEF Session
<1>5. CASE vip = "SEND_DATA"
  <2>1. Tabled /\ (Offered \/ Underway)
    BY <1>1, <1>5 DEF Session
  <2>2. (Offered' \/ Underway') /\ (dmax = HostPayload => dwrong' = dwrong)
    BY <1>1, <1>5, <2>1, OfferedDevice, UnderwayDevice
  <2> QED
    BY <1>2, <1>5, <2>1, <2>2 DEF Session, Tabled
<1> QED
  BY <1>1, <1>3, <1>4, <1>5

-----------------------------------------------------------------------------
(* The sessions of a run.                                                  *)

LEMMA SessionInit == Init => SessionInv
<1> SUFFICES ASSUME Init  PROVE SessionInv
  OBVIOUS
<1>1. /\ opi = 1 /\ hpc = "op" /\ step = "none" /\ rsize = 0 /\ payload = HostPayload
      /\ vip = run.vip /\ requires = FALSE /\ result = "none" /\ dpc = "boot"
      /\ dtable = FALSE /\ dnext = Position(1) /\ dwrong = FALSE /\ toDev = <<>> /\ toHost = <<>>
      /\ run \in Runs
  BY DEF Init
<1>2. Len(ops) \in Nat \ {0} /\ run.vip \in {"DISABLED", "INIT"}
  BY <1>1, OpsFacts
<1>3. NoTable /\ NoResponse /\ \A j \in 1 .. Len(toHost) : FALSE
  BY <1>1, EmptySeq DEF NoTable, NoResponse
<1>4. Walked
  BY <1>1, <1>2 DEF Walked
<1>5. Proposals
  BY <1>1, <1>3 DEF Proposals
<1>6. DeviceSession
  BY <1>1, <1>3 DEF DeviceSession
<1>7. Session
  BY <1>1, <1>2, <1>3 DEF Session, Prepared, Without
<1> QED
  BY <1>4, <1>5, <1>6, <1>7 DEF SessionInv

LEMMA SessionHostStep ==
  ASSUME Inv, SessionInv, Host
  PROVE  SessionInv'
<1>1. Base /\ Walked /\ Proposals /\ DeviceSession
  BY DEF Inv, Base, SessionInv
<1>2. DeviceSession'
  <2>1. UNCHANGED <<dpc, dvip, dmax, dwrong>>
    BY HostLeaves
  <2>2. dpc = "gone" => toDev' = <<>>
    <3>1. dpc = "gone" => ~WriteCommand /\ ~StreamChunk
      BY DEF WriteCommand, StreamChunk
    <3> QED
      BY <1>1, <3>1, HostLeaves DEF DeviceSession
  <2>3. \A j \in 1 .. Len(toHost') : toHost'[j].t = "marker" => dvip
    BY <1>1, StillThere DEF Base, DeviceSession
  <2>4. requires' => dvip
    <3>1. CASE ReadMessage
      <4>1. toHost # <<>> /\ requires' = (requires \/ Head(toHost).t = "marker")
        BY <3>1 DEF ReadMessage
      <4>2. Head(toHost) = toHost[1] /\ 1 \in 1 .. Len(toHost)
        BY <4>1, HeadIsFirst DEF Inv, TypeOK, LinkTypes
      <4> QED
        BY <1>1, <4>1, <4>2 DEF DeviceSession
    <3>2. CASE ~ReadMessage
      BY <1>1, <3>2, HostLeaves DEF DeviceSession
    <3> QED
      BY <3>1, <3>2
  <2> QED
    BY <1>1, <2>1, <2>2, <2>3, <2>4 DEF DeviceSession
<1> QED
  BY <1>1, <1>2, WalkedStays, ProposalsStay, SessionHost DEF SessionInv

LEMMA SessionDeviceStep ==
  ASSUME Inv, SessionInv, Device \/ DevGone
  PROVE  SessionInv'
<1>1. Base /\ Walked /\ Proposals /\ DeviceSession
  BY DEF Inv, Base, SessionInv
<1>2. /\ UNCHANGED <<opi, result, dmax, dvip, requires, rsize, payload, step>> /\ ops' = ops
  BY DeviceLeaves
<1>3. Walked'
  BY <1>1, <1>2 DEF Walked
<1>4. Proposals'
  <2>1. \A j \in 1 .. Len(toHost') : toHost'[j].size \in {0, dmax}
    BY <1>1, DeviceNews DEF New, Proposals
  <2> QED
    BY <1>1, <1>2, <2>1 DEF Proposals
<1>5. DeviceSession'
  <2>1. dpc' = "gone" => toDev' = <<>>
    <3>1. dpc = "gone" => FALSE
      BY DEF Device, DevStart, DevCommand, DevData, DevGone
    <3> QED
      BY <3>1, DeviceLeaves
  <2>2. \A j \in 1 .. Len(toHost') : toHost'[j].t = "marker" => dvip
    BY <1>1, DeviceNews DEF New, DeviceSession
  <2>3. dmax = HostPayload => dwrong' = dwrong
    BY SessionDevice
  <2> QED
    BY <1>1, <1>2, <2>1, <2>2, <2>3 DEF DeviceSession
<1> QED
  BY <1>3, <1>4, <1>5, SessionDevice DEF SessionInv

LEMMA SessionStutter ==
  ASSUME SessionInv, UNCHANGED vars
  PROVE  SessionInv'
<1>1. /\ UNCHANGED <<run, opi, hpc, step, resp, rsize, left, payload, vip, requires, single, result>>
      /\ UNCHANGED <<dpc, dmax, dvip, dtable, dnext, dwrong, toDev, toHost, late>>
  BY DEF vars, hostVars, devVars, tableVars
<1>2. ops' = ops /\ Op' = Op
  BY <1>1 DEF ops, Op
<1>3. HostPlace' = HostPlace
  BY <1>1, <1>2 DEF HostPlace, Position, DataAt
<1>4. (InOrder' <=> InOrder) /\ Ahead' = Ahead
  BY <1>1, OrderStays
<1>5. (NoTable' <=> NoTable) /\ (NoResponse' <=> NoResponse) /\ (Ignored' <=> Ignored)
      /\ (Tabled' <=> Tabled)
  BY <1>1, <1>2 DEF NoTable, NoResponse, Ignored, Tabled
<1>6. (Reached' <=> Reached) /\ (Stuck' <=> Stuck)
  BY <1>1, <1>3, <1>5 DEF Reached, Stuck
<1>7. (Prepared' <=> Prepared) /\ (Without' <=> Without) /\ (Offered' <=> Offered)
  BY <1>1, <1>5 DEF Prepared, Without, Offered, Position
<1>8. Underway' <=> Underway
  BY <1>1, <1>3, <1>4, <1>5, <1>6 DEF Underway
<1>9. Session'
  BY <1>1, <1>5, <1>7, <1>8 DEF SessionInv, Session
<1>10. DeviceSession' /\ Proposals' /\ Walked'
  BY <1>1, <1>2 DEF SessionInv, DeviceSession, Proposals, Walked
<1> QED
  BY <1>9, <1>10 DEF SessionInv

LEMMA SessionSound ==
  ASSUME Inv, SessionInv
  PROVE  SessionAsPrepared
<1>1. /\ DeviceSession /\ Session /\ Walked /\ vip \in {"DISABLED", "INIT", "SEND_DATA"}
      /\ DOMAIN toDev = 1 .. Len(toDev) /\ late \in Nat
  BY LenProperties DEF Inv, TypeOK, HostTypes, LinkTypes, DeviceTypes, SessionInv
<1>2. ASSUME NEW k \in DOMAIN toDev
      PROVE  IF toDev[k].cmd = "table" THEN dvip /\ ~dtable
             ELSE single /\ vip # "DISABLED" => dtable
  <2>1. CASE vip = "INIT"
    <3>1. toDev = <<>> /\ Len(<<>>) = 0
      BY <1>1, <2>1 DEF Session, Prepared
    <3> QED
      BY <1>1, <1>2, <3>1
  <2>2. CASE vip = "DISABLED"
    BY <1>1, <1>2, <2>2 DEF Session, Without, NoTable
  <2>3. CASE vip = "SEND_DATA"
    <3>1. dvip
      BY <1>1, <2>3 DEF Session, Tabled, DeviceSession
    <3>2. CASE Underway
      BY <1>1, <1>2, <3>2 DEF Underway, NoTable
    <3>3. CASE Offered
      <4>1. toDev # <<>>
        <5>1. Len(<<>>) = 0
          OBVIOUS
        <5> QED
          BY <1>1, <1>2, <5>1
      <4>2. ~dtable /\ Len(toDev) = 1 /\ toDev[1].cmd = "table"
        BY <3>3, <4>1 DEF Offered
      <4>3. k = 1
        BY <1>1, <1>2, <4>2
      <4> QED
        BY <3>1, <4>2, <4>3
    <3> QED
      BY <1>1, <2>3, <3>2, <3>3 DEF Session
  <2> QED
    BY <1>1, <2>1, <2>2, <2>3
<1>3. ASSUME dmax = HostPayload, result = "ok", dtable, toDev = <<>>,
             dpc = "gone" => late = 0 /\ ~Ignored
      PROVE  dnext = Position(Len(ops) + 1)
  <2>1. hpc = "end"
    BY <1>3 DEF Inv, StepInv
  <2>2. vip = "SEND_DATA" /\ Underway
    BY <1>1, <1>3, <2>1 DEF Session, Prepared, Without, Offered
  <2>3. HostPlace = Position(Len(ops) + 1)
    BY <1>1, <1>3, <2>1 DEF Walked, HostPlace
  <2>4. CASE dpc # "gone"
    <3>1. Ahead = HostPlace
      BY <1>3, <2>2, <2>4 DEF Underway
    <3>2. Ahead = dnext
      BY <1>3 DEF Ahead
    <3> QED
      BY <2>3, <3>1, <3>2
  <2>5. CASE dpc = "gone"
    <3>1. Reached \/ Stuck
      BY <1>3, <2>2, <2>5 DEF Underway
    <3> QED
      BY <2>1, <2>3, <3>1 DEF Reached, Stuck
  <2> QED
    BY <2>4, <2>5
<1>4. (\A i \in DOMAIN ops : ops[i].type # "bootable") => ~Ignored
  BY DEF Ignored
<1>5. dmax = HostPayload => ~dwrong
  BY <1>1 DEF DeviceSession
<1> QED
  BY <1>2, <1>3, <1>4, <1>5 DEF SessionAsPrepared, Prompt

\* A VIP session is the one that was prepared: the table goes out once and first, behind it
\* the packets of the dry run, none wrong and, when the run succeeds, none missing.
THEOREM SessionMatches == Spec => []SessionAsPrepared
<1>1. Inv /\ SessionInv /\ [Next]_vars => SessionInv'
  BY SessionHostStep, SessionDeviceStep, SessionStutter DEF Next, Done
<1>2. Inv /\ SessionInv => SessionAsPrepared
  BY SessionSound
<1> QED
  BY <1>1, <1>2, SessionInit, Inductive, PTL DEF Spec
=============================================================================
