---------------------------- MODULE TransportProof ----------------------------
(***************************************************************************)
(* What holds of Transport for every packet size, buffer, chunk, length of *)
(* message and number of transfers cut short: callers read the bytes that  *)
(* were sent, an empty packet is never taken for an answer, and the device *)
(* sees one message for each write.                                        *)
(* At the end, what holds of Opening, by which processes get at a device.  *)
(***************************************************************************)
EXTENDS Transport, Opening, SequenceTheorems, TLAPS

TypeOK ==
  /\ out_chunk_size \in Nat /\ (hpc # "open" => out_chunk_size > 0)
  /\ hpc \in {"open", "idle", "in", "give", "out", "zlp", "failed"} /\ mode \in {"xml", "raw"}
  /\ wire \in Seq(Seq(Nat)) /\ sent \in Seq(Nat) /\ buf \in Seq(Nat) /\ pending \in Seq(Nat)
  /\ got \in Seq(Nat) /\ lost \subseteq Nat
  /\ expect_zlp \in BOOLEAN /\ empty \in BOOLEAN
  /\ msgs \in Nat /\ len \in Nat /\ wdata \in Nat /\ wlen \in Nat /\ dmsg \in Nat
  /\ cut \in Nat /\ race \in Nat
  /\ dmsgs \in Seq(Nat) /\ wrote \in Seq(Nat)

\* Between writes the device has one message for each.  In a write it has full packets,
\* of which it makes no message yet, until a short one comes.
Framed == dmsgs = wrote /\ dmsg = 0

Framing ==
  /\ wlen > 0
  /\ ~Usb => Framed
  /\ Usb /\ (wdata > 0 \/ wlen % MaxPkt = 0) =>
       dmsgs = wrote /\ dmsg + wdata = wlen /\ dmsg % MaxPkt = 0
  /\ Usb /\ wdata = 0 /\ wlen % MaxPkt # 0 => dmsgs = Append(wrote, wlen) /\ dmsg = 0

FrameInv ==
  /\ hpc = "open" => out_chunk_size = 0
  /\ out_chunk_size % MaxPkt = 0 =>
       /\ hpc \notin {"out", "failed"} => Framed
       /\ hpc = "out" => Framing

-----------------------------------------------------------------------------
(* Empty packets.                                                          *)

\* Packets are not longer than they may be, and an empty one follows a full one.
Packeted(w) ==
  \A i \in 1 .. Len(w) :
    Len(w[i]) <= MaxPkt /\ (i > 1 /\ w[i] = <<>> => Len(w[i - 1]) = MaxPkt)

\* An empty packet at the head ends a transfer, in progress or finished, of which usb_read()
\* knows.
EmptyKnown ==
  wire # <<>> /\ wire[1] = <<>> => expect_zlp \/ (hpc = "in" /\ buf # <<>>)

ZlpInv ==
  /\ Usb => Packeted(wire)
  /\ Usb /\ hpc = "in" => Len(buf) % MaxPkt = 0
  /\ Usb /\ hpc # "failed" /\ cut = 0 => EmptyKnown
  /\ hpc = "in" => len > 0
  /\ NoPhantom

-----------------------------------------------------------------------------
(* Runs of bytes.                                                          *)

\* s has the bytes behind byte a.
Run(s, a) == \A i \in 1 .. Len(s) : s[i] = a + i

\* The packets of w have the bytes behind byte a, up to b.
Chain(w, a, b) ==
  \E f \in [0 .. Len(w) -> 0 .. b] :
    /\ f[0] = a /\ f[Len(w)] = b
    /\ \A i \in 1 .. Len(w) : Run(w[i], f[i - 1]) /\ f[i] = f[i - 1] + Len(w[i])

\* g has the bytes up to h, but for those in l.
Delivered(g, l, h) ==
  /\ l \subseteq 1 .. h /\ Range(g) = (1 .. h) \ l
  /\ Contract!InOrder(g)

\* What has been read and not been consumed.
Held == IF hpc \in {"in", "give"} THEN buf ELSE <<>>

\* What is held, what is pending and what is on its way follow what has been delivered.
Follows(h) ==
  LET p == h + Len(Held)
      w == p + Len(pending)
  IN Run(Held, h) /\ Run(pending, p) /\ Chain(wire, w, Len(sent))

\* What is pushed back goes behind nothing: an XML read takes all there is.
BufInv ==
  /\ hpc = "in" => pending = <<>> /\ Len(buf) <= len
  /\ hpc = "in" /\ mode = "xml" => len = XmlLen
  /\ hpc = "give" /\ mode = "xml" => pending = <<>> /\ Len(buf) <= XmlLen
  /\ Len(pending) <= XmlLen
  /\ ~Usb => Len(wire) <= 1
  /\ ~Usb /\ hpc = "in" => buf = <<>>

StreamInv ==
  /\ Run(sent, 0)
  /\ \E h \in 0 .. Len(sent) : Delivered(got, lost, h) /\ (hpc # "failed" => Follows(h))

-----------------------------------------------------------------------------
(* Arithmetic of packets.                                                  *)

LEMMA DivMod ==
  ASSUME NEW M \in Nat \ {0}, NEW a \in Nat
  PROVE  a = M * (a \div M) + (a % M)
  OBVIOUS

LEMMA ModRange ==
  ASSUME NEW M \in Nat \ {0}, NEW a \in Nat
  PROVE  a % M \in 0 .. M - 1
  OBVIOUS

LEMMA DivNat ==
  ASSUME NEW M \in Nat \ {0}, NEW a \in Nat
  PROVE  a \div M \in Nat
  OBVIOUS

LEMMA ModOf ==
  ASSUME NEW M \in Nat \ {0}, NEW q \in Nat, NEW r \in 0 .. M - 1
  PROVE  (M * q + r) % M = r
  OBVIOUS

\* What is added to full packets decides whether the last packet is full.
LEMMA ModAdd ==
  ASSUME NEW M \in Nat \ {0}, NEW a \in Nat, NEW b \in Nat, a % M = 0
  PROVE  (a + b) % M = b % M
<1> DEFINE p == a \div M
           q == b \div M
           r == b % M
<1>1. p \in Nat /\ q \in Nat /\ r \in 0 .. M - 1
  BY DivNat, ModRange
<1>2. a = M * p + 0
  BY DivMod
<1>3. b = M * q + r
  BY DivMod
<1>4. M * p + M * q = M * (p + q)
  <2> HIDE DEF p, q, r
  <2> QED  BY <1>1
<1>5. a + b = M * (p + q) + r
  <2> HIDE DEF p, q, r
  <2>1. M * p \in Nat /\ M * q \in Nat
    BY <1>1
  <2>2. a + b = (M * p + M * q) + r
    BY <1>1, <1>2, <1>3, <2>1
  <2> QED  BY <2>2, <1>4
<1>6. (M * (p + q) + r) % M = r
  <2> HIDE DEF p, q, r
  <2>1. p + q \in Nat
    BY <1>1
  <2> QED  BY <1>1, <2>1, ModOf
<1> QED  BY <1>5, <1>6

LEMMA ModSelf ==
  ASSUME NEW M \in Nat \ {0}
  PROVE  M % M = 0 /\ 0 % M = 0
<1>1. (M * 1 + 0) % M = 0
  BY ModOf
<1>2. (M * 0 + 0) % M = 0
  BY ModOf
<1> QED  BY <1>1, <1>2

-----------------------------------------------------------------------------
(* Runs and chains.                                                        *)

LEMMA RunConcat ==
  ASSUME NEW s \in Seq(Nat), NEW t \in Seq(Nat), NEW a \in Nat, Run(s, a), Run(t, a + Len(s))
  PROVE  s \o t \in Seq(Nat) /\ Len(s \o t) = Len(s) + Len(t) /\ Run(s \o t, a)
<1>1. /\ s \o t \in Seq(Nat) /\ Len(s \o t) = Len(s) + Len(t)
      /\ \A i \in 1 .. Len(s) + Len(t) :
           (s \o t)[i] = IF i <= Len(s) THEN s[i] ELSE t[i - Len(s)]
  BY ConcatProperties
<1>2. Len(s) \in Nat /\ Len(t) \in Nat
  BY LenProperties
<1>3. ASSUME NEW i \in 1 .. Len(s \o t)
      PROVE  (s \o t)[i] = a + i
  <2>1. CASE i <= Len(s)
    BY <2>1, <1>1, <1>2 DEF Run
  <2>2. CASE i > Len(s)
    <3>1. i - Len(s) \in 1 .. Len(t)
      BY <2>2, <1>1, <1>2
    <3>2. t[i - Len(s)] = (a + Len(s)) + (i - Len(s))
      BY <3>1 DEF Run
    <3>3. (s \o t)[i] = t[i - Len(s)]
      BY <2>2, <1>1, <1>2
    <3> QED  BY <3>2, <3>3, <1>2
  <2> QED  BY <2>1, <2>2, <1>1, <1>2
<1> QED  BY <1>1, <1>3 DEF Run

\* The first k bytes of a run, and the others.
LEMMA RunSplit ==
  ASSUME NEW s \in Seq(Nat), NEW a \in Nat, Run(s, a), NEW k \in 0 .. Len(s)
  PROVE  /\ SubSeq(s, 1, k) \in Seq(Nat) /\ Len(SubSeq(s, 1, k)) = k /\ Run(SubSeq(s, 1, k), a)
         /\ SubSeq(s, k + 1, Len(s)) \in Seq(Nat)
         /\ Len(SubSeq(s, k + 1, Len(s))) = Len(s) - k /\ Run(SubSeq(s, k + 1, Len(s)), a + k)
<1>1. Len(s) \in Nat /\ \A i \in 1 .. Len(s) : s[i] \in Nat
  BY LenProperties, ElementOfSeq
<1>2. /\ SubSeq(s, 1, k) \in Seq(Nat) /\ Len(SubSeq(s, 1, k)) = IF 1 <= k THEN k - 1 + 1 ELSE 0
      /\ \A i \in 1 .. k - 1 + 1 : SubSeq(s, 1, k)[i] = s[1 + i - 1]
  <2>1. \A i \in 1 .. k : s[i] \in Nat
    BY <1>1
  <2> QED  BY <2>1, <1>1, SubSeqProperties
<1>3. PICK m \in Int : m = k + 1
  BY <1>1
<1>4. /\ SubSeq(s, m, Len(s)) \in Seq(Nat)
      /\ Len(SubSeq(s, m, Len(s))) = IF m <= Len(s) THEN Len(s) - m + 1 ELSE 0
      /\ \A i \in 1 .. Len(s) - m + 1 : SubSeq(s, m, Len(s))[i] = s[m + i - 1]
  <2>1. \A i \in m .. Len(s) : s[i] \in Nat
    BY <1>1, <1>3
  <2> QED  BY <2>1, <1>1, <1>3, SubSeqProperties
<1>5. Len(SubSeq(s, 1, k)) = k /\ Run(SubSeq(s, 1, k), a)
  <2>1. Len(SubSeq(s, 1, k)) = k
    BY <1>1, <1>2
  <2>2. ASSUME NEW i \in 1 .. k
        PROVE  SubSeq(s, 1, k)[i] = a + i
    <3>1. i \in 1 .. Len(s) /\ 1 + i - 1 = i /\ i \in 1 .. k - 1 + 1
      BY <1>1
    <3> QED  BY <3>1, <1>2 DEF Run
  <2> QED  BY <2>1, <2>2 DEF Run
<1>6. Len(SubSeq(s, m, Len(s))) = Len(s) - k /\ Run(SubSeq(s, m, Len(s)), a + k)
  <2>1. Len(SubSeq(s, m, Len(s))) = Len(s) - k
    BY <1>1, <1>3, <1>4
  <2>2. ASSUME NEW i \in 1 .. Len(s) - k
        PROVE  SubSeq(s, m, Len(s))[i] = a + k + i
    <3>1. k + i \in 1 .. Len(s) /\ m + i - 1 = k + i /\ i \in 1 .. Len(s) - m + 1
      BY <1>1, <1>3
    <3>2. s[k + i] = a + (k + i)
      BY <3>1 DEF Run
    <3> QED  BY <3>1, <3>2, <1>4
  <2> QED  BY <2>1, <2>2 DEF Run
<1> QED  BY <1>2, <1>3, <1>4, <1>5, <1>6

LEMMA RunEmpty ==
  ASSUME NEW a
  PROVE  Run(<<>>, a)
  BY EmptySeq DEF Run

LEMMA ChainEmpty ==
  ASSUME NEW a \in Nat
  PROVE  Chain(<<>>, a, a) /\ \A b \in Nat : Chain(<<>>, a, b) => b = a
<1>1. Len(<<>>) = 0
  BY EmptySeq
<1>2. Chain(<<>>, a, a)
  <2>1. [i \in 0 .. 0 |-> a] \in [0 .. 0 -> 0 .. a] /\ [i \in 0 .. 0 |-> a][0] = a
    OBVIOUS
  <2>2. 1 .. 0 = {}
    OBVIOUS
  <2> QED  BY <2>1, <2>2, <1>1 DEF Chain
<1> QED  BY <1>1, <1>2 DEF Chain

LEMMA ChainOne ==
  ASSUME NEW s \in Seq(Nat), NEW a \in Nat, Run(s, a)
  PROVE  Chain(<<s>>, a, a + Len(s))
<1>1. Len(<<s>>) = 1 /\ <<s>>[1] = s
  OBVIOUS
<1>2. Len(s) \in Nat
  BY LenProperties
<1> DEFINE f == [i \in 0 .. 1 |-> IF i = 0 THEN a ELSE a + Len(s)]
<1>3. f \in [0 .. 1 -> 0 .. a + Len(s)] /\ f[0] = a /\ f[1] = a + Len(s)
  BY <1>2
<1>4. \A i \in 1 .. 1 : i = 1 /\ i - 1 = 0
  OBVIOUS
<1> HIDE DEF f
<1>5. \A i \in 1 .. 1 : Run(<<s>>[i], f[i - 1]) /\ f[i] = f[i - 1] + Len(<<s>>[i])
  BY <1>1, <1>3, <1>4
<1> QED  BY <1>1, <1>3, <1>5 DEF Chain

LEMMA ChainOrder ==
  ASSUME NEW w \in Seq(Seq(Nat)), NEW a, NEW b \in Nat, Chain(w, a, b)
  PROVE  a \in Nat /\ a <= b
<1>1. PICK f \in [0 .. Len(w) -> 0 .. b] : f[0] = a
  BY DEF Chain
<1>2. 0 \in 0 .. Len(w)
  BY LenProperties
<1>3. f[0] \in 0 .. b
  BY <1>1, <1>2
<1> QED  BY <1>1, <1>3

\* What the head of a chain has, and the others.
LEMMA ChainTail ==
  ASSUME NEW w \in Seq(Seq(Nat)), NEW a \in Nat, NEW b \in Nat, w # <<>>, Chain(w, a, b)
  PROVE  /\ w[1] \in Seq(Nat) /\ Run(w[1], a) /\ a + Len(w[1]) \in Nat
         /\ Chain(Tail(w), a + Len(w[1]), b)
<1>1. Len(w) \in Nat \ {0} /\ Tail(w) \in Seq(Seq(Nat)) /\ Len(Tail(w)) = Len(w) - 1
      /\ \A i \in 1 .. Len(Tail(w)) : Tail(w)[i] = w[i + 1]
  BY EmptySeq, HeadTailProperties
<1>2. PICK f \in [0 .. Len(w) -> 0 .. b] :
        /\ f[0] = a /\ f[Len(w)] = b
        /\ \A i \in 1 .. Len(w) : Run(w[i], f[i - 1]) /\ f[i] = f[i - 1] + Len(w[i])
  BY DEF Chain
<1>3. w[1] \in Seq(Nat)
  BY <1>1, ElementOfSeq
<1>4. Run(w[1], a) /\ f[1] = a + Len(w[1])
  <2>1. 1 \in 1 .. Len(w) /\ 1 - 1 = 0
    BY <1>1
  <2> QED  BY <2>1, <1>2
<1>5. PICK n \in Nat : n = Len(w) - 1 /\ n + 1 = Len(w)
  <2>1. Len(w) \in Nat \ {0}
    BY <1>1
  <2>2. Len(w) - 1 \in Nat /\ (Len(w) - 1) + 1 = Len(w)
    BY <2>1
  <2> QED  BY <2>2
<1> DEFINE g == [i \in 0 .. n |-> f[i + 1]]
<1>6. /\ g \in [0 .. n -> 0 .. b] /\ \A i \in 0 .. n : g[i] = f[i + 1]
  <2>1. \A i \in 0 .. n : i + 1 \in 0 .. Len(w)
    BY <1>5
  <2> QED  BY <2>1, <1>2
<1> HIDE DEF g
<1>7. g[0] = f[1] /\ g[n] = b
  BY <1>6, <1>5, <1>2
<1>8. ASSUME NEW i \in 1 .. n
      PROVE  Run(Tail(w)[i], g[i - 1]) /\ g[i] = g[i - 1] + Len(Tail(w)[i])
  <2>1. PICK j \in 1 .. Len(w) : j = i + 1
    BY <1>5
  <2>2. g[i] = f[j] /\ g[i - 1] = f[j - 1]
    <3>1. i \in 0 .. n /\ i - 1 \in 0 .. n /\ (i - 1) + 1 = j - 1
      BY <2>1
    <3> QED  BY <3>1, <2>1, <1>6
  <2>3. Tail(w)[i] = w[j]
    BY <2>1, <1>1, <1>5
  <2> QED  BY <2>2, <2>3, <1>2
<1>9. Chain(Tail(w), f[1], b)
  BY <1>1, <1>5, <1>6, <1>7, <1>8 DEF Chain
<1>10. f[1] \in Nat
  BY <1>1, <1>2
<1> QED  BY <1>3, <1>4, <1>9, <1>10

LEMMA ChainConcat ==
  ASSUME NEW v \in Seq(Seq(Nat)), NEW w \in Seq(Seq(Nat)), NEW a \in Nat, NEW b \in Nat,
         NEW c \in Nat, Chain(v, a, b), Chain(w, b, c)
  PROVE  Chain(v \o w, a, c)
<1>1. PICK n \in Nat, m \in Nat : n = Len(v) /\ m = Len(w)
  BY LenProperties
<1>2. Len(v \o w) = n + m
      /\ \A i \in 1 .. n + m : (v \o w)[i] = IF i <= n THEN v[i] ELSE w[i - n]
  BY <1>1, ConcatProperties
<1>3. PICK f \in [0 .. n -> 0 .. b] :
        /\ f[0] = a /\ f[n] = b
        /\ \A i \in 1 .. n : Run(v[i], f[i - 1]) /\ f[i] = f[i - 1] + Len(v[i])
  BY <1>1 DEF Chain
<1>4. PICK g \in [0 .. m -> 0 .. c] :
        /\ g[0] = b /\ g[m] = c
        /\ \A i \in 1 .. m : Run(w[i], g[i - 1]) /\ g[i] = g[i - 1] + Len(w[i])
  BY <1>1 DEF Chain
<1> DEFINE e == [i \in 0 .. n + m |-> IF i <= n THEN f[i] ELSE g[i - n]]
<1>5. e \in [0 .. n + m -> 0 .. c]
  <2>1. ASSUME NEW i \in 0 .. n + m
        PROVE  (IF i <= n THEN f[i] ELSE g[i - n]) \in 0 .. c
    <3>1. CASE i <= n
      <4>1. i \in 0 .. n
        BY <3>1
      <4>2. f[i] \in 0 .. b /\ b <= c
        <5>1. 0 \in 0 .. m
          OBVIOUS
        <5>2. g[0] \in 0 .. c
          BY <5>1, <1>4
        <5> QED  BY <4>1, <5>2, <1>3, <1>4
      <4>3. f[i] \in 0 .. c
        BY <4>2
      <4> QED  BY <3>1, <4>3
    <3>2. CASE ~(i <= n)
      <4>1. i - n \in 0 .. m
        BY <3>2
      <4>2. g[i - n] \in 0 .. c
        BY <4>1, <1>4
      <4> QED  BY <3>2, <4>2
    <3> QED  BY <3>1, <3>2
  <2> QED  BY <2>1
<1>6. \A i \in 0 .. n : e[i] = f[i]
  OBVIOUS
<1>7. ASSUME NEW i \in 0 .. m
      PROVE  e[n + i] = g[i]
  <2>1. CASE i = 0
    <3>1. e[n] = f[n]
      BY <1>6
    <3> QED  BY <2>1, <3>1, <1>3, <1>4
  <2>2. CASE i > 0
    <3>1. n + i \in 0 .. n + m /\ ~(n + i <= n) /\ (n + i) - n = i
      BY <2>2
    <3> QED  BY <3>1
  <2> QED  BY <2>1, <2>2
<1> HIDE DEF e
<1>8. e[0] = a /\ e[n + m] = c
  BY <1>3, <1>4, <1>6, <1>7
<1>9. ASSUME NEW i \in 1 .. n + m
      PROVE  Run((v \o w)[i], e[i - 1]) /\ e[i] = e[i - 1] + Len((v \o w)[i])
  <2>1. CASE i <= n
    <3>1. i \in 1 .. n /\ i \in 0 .. n /\ i - 1 \in 0 .. n
      BY <2>1
    <3> QED  BY <3>1, <2>1, <1>2, <1>3, <1>6
  <2>2. CASE ~(i <= n)
    <3>1. PICK j \in 1 .. m : j = i - n
      BY <2>2
    <3>2. e[i] = g[j] /\ e[i - 1] = g[j - 1]
      <4>1. j \in 0 .. m /\ j - 1 \in 0 .. m /\ n + j = i /\ n + (j - 1) = i - 1
        BY <3>1
      <4> QED  BY <4>1, <1>7
    <3>3. (v \o w)[i] = w[j]
      BY <2>2, <3>1, <1>2
    <3> QED  BY <3>2, <3>3, <1>4
  <2> QED  BY <2>1, <2>2
<1> QED  BY <1>2, <1>5, <1>8, <1>9 DEF Chain

-----------------------------------------------------------------------------
(* Deliveries.                                                             *)

LEMMA RunRange ==
  ASSUME NEW s \in Seq(Nat), NEW a \in Nat, Run(s, a)
  PROVE  Range(s) = a + 1 .. a + Len(s)
<1>1. Len(s) \in Nat
  BY LenProperties
<1>2. Range(s) = {s[i] : i \in 1 .. Len(s)}
  BY RangeEquality
<1>3. ASSUME NEW x \in Range(s)
      PROVE  x \in a + 1 .. a + Len(s)
  BY <1>1, <1>2 DEF Run
<1>4. ASSUME NEW x \in a + 1 .. a + Len(s)
      PROVE  x \in Range(s)
  <2>1. PICK i \in 1 .. Len(s) : x = a + i
    <3>1. x - a \in 1 .. Len(s) /\ x = a + (x - a)
      BY <1>1
    <3> QED  BY <3>1
  <2> QED  BY <2>1, <1>2 DEF Run
<1> QED  BY <1>3, <1>4

\* Delivering the run that follows.
LEMMA DeliverMore ==
  ASSUME NEW g \in Seq(Nat), NEW l, NEW h \in Nat, NEW s \in Seq(Nat),
         Delivered(g, l, h), Run(s, h)
  PROVE  Delivered(g \o s, l, h + Len(s))
<1>1. Len(s) \in Nat /\ Len(g) \in Nat
  BY LenProperties
<1>2. l \subseteq 1 .. h /\ Range(g) = (1 .. h) \ l
      /\ \A i, j \in DOMAIN g : i < j => g[i] < g[j]
  BY DEF Delivered, Contract!InOrder
<1>3. Range(g \o s) = Range(g) \cup (h + 1 .. h + Len(s))
  BY RangeConcatenation, RunRange
<1>4. Range(g \o s) = (1 .. h + Len(s)) \ l
  BY <1>1, <1>2, <1>3
<1>5. l \subseteq 1 .. h + Len(s)
  BY <1>1, <1>2
<1>6. DOMAIN g = 1 .. Len(g) /\ \A i \in 1 .. Len(g) : g[i] \in 1 .. h
  <2>1. DOMAIN g = 1 .. Len(g)
    BY LenProperties
  <2>2. \A i \in DOMAIN g : g[i] \in Range(g)
    BY DEF Range
  <2> QED  BY <1>2, <2>1, <2>2
<1>7. /\ g \o s \in Seq(Nat) /\ Len(g \o s) = Len(g) + Len(s)
      /\ \A i \in 1 .. Len(g) + Len(s) :
           (g \o s)[i] = IF i <= Len(g) THEN g[i] ELSE s[i - Len(g)]
  BY ConcatProperties
<1>8. DOMAIN (g \o s) = 1 .. Len(g) + Len(s)
  BY <1>7, LenProperties
<1>9. ASSUME NEW i \in 1 .. Len(g) + Len(s), NEW j \in 1 .. Len(g) + Len(s), i < j
      PROVE  (g \o s)[i] < (g \o s)[j]
  <2>1. CASE j <= Len(g)
    <3>1. i \in 1 .. Len(g) /\ j \in 1 .. Len(g) /\ i <= Len(g)
      BY <1>1, <1>9, <2>1
    <3> QED  BY <3>1, <2>1, <1>2, <1>6, <1>7, <1>9
  <2>2. CASE ~(j <= Len(g))
    <3>1. PICK q \in 1 .. Len(s) : q = j - Len(g)
      <4>1. j - Len(g) \in 1 .. Len(s)
        BY <1>1, <2>2
      <4> QED  BY <4>1
    <3>2. (g \o s)[j] = h + q
      BY <3>1, <2>2, <1>7 DEF Run
    <3>3. CASE i <= Len(g)
      <4>1. i \in 1 .. Len(g) /\ (g \o s)[i] = g[i]
        BY <1>1, <3>3, <1>7
      <4> QED  BY <4>1, <3>1, <3>2, <1>1, <1>6
    <3>4. CASE ~(i <= Len(g))
      <4>1. PICK p \in 1 .. Len(s) : p = i - Len(g)
        <5>1. i - Len(g) \in 1 .. Len(s)
          BY <1>1, <3>4
        <5> QED  BY <5>1
      <4>2. (g \o s)[i] = h + p
        BY <4>1, <3>4, <1>7 DEF Run
      <4> QED  BY <4>1, <4>2, <3>1, <3>2, <1>1, <1>9
    <3> QED  BY <3>3, <3>4
  <2> QED  BY <2>1, <2>2
<1> QED  BY <1>4, <1>5, <1>8, <1>9 DEF Delivered, Contract!InOrder

\* Losing it.
LEMMA LoseMore ==
  ASSUME NEW g \in Seq(Nat), NEW l, NEW h \in Nat, NEW s \in Seq(Nat),
         Delivered(g, l, h), Run(s, h)
  PROVE  /\ Delivered(g, l \cup Range(s), h + Len(s))
         /\ \A b \in Range(s) : b \notin l /\ \A i \in DOMAIN g : g[i] < b
<1>1. Len(s) \in Nat
  BY LenProperties
<1>2. l \subseteq 1 .. h /\ Range(g) = (1 .. h) \ l
  BY DEF Delivered
<1>3. Range(s) = h + 1 .. h + Len(s)
  BY RunRange
<1>4. /\ Range(g) = (1 .. h + Len(s)) \ (l \cup Range(s))
      /\ l \cup Range(s) \subseteq 1 .. h + Len(s)
  <2>1. 1 .. h + Len(s) = (1 .. h) \cup Range(s)
    BY <1>1, <1>3
  <2>2. (1 .. h) \cap Range(s) = {}
    BY <1>1, <1>3
  <2> QED  BY <2>1, <2>2, <1>2
<1>5. \A i \in DOMAIN g : g[i] \in Range(g)
  BY DEF Range
<1>6. \A b \in Range(s) : b \notin l /\ \A i \in DOMAIN g : g[i] < b
  BY <1>1, <1>2, <1>3, <1>5
<1> QED  BY <1>4, <1>6 DEF Delivered

LEMMA PrefixOfConcat ==
  ASSUME NEW s \in Seq(Nat), NEW t \in Seq(Nat)
  PROVE  IsPrefix(s, s \o t)
<1>1. /\ s \o t \in Seq(Nat) /\ Len(s \o t) = Len(s) + Len(t)
      /\ \A i \in 1 .. Len(s) + Len(t) :
           (s \o t)[i] = IF i <= Len(s) THEN s[i] ELSE t[i - Len(s)]
  BY ConcatProperties
<1>2. Len(s) \in Nat /\ Len(t) \in Nat
  BY LenProperties
<1>3. SubSeq(s, 1, Len(s)) = s
  BY SubSeqFull
<1>4. PICK n \in Nat : n = Len(s)
  BY <1>2
<1>5. \A i \in 1 .. n : (s \o t)[i] \in Nat /\ (s \o t)[i] = s[i]
  <2>1. \A i \in 1 .. n : i \in 1 .. Len(s) + Len(t) /\ i <= Len(s) /\ i \in 1 .. Len(s)
    BY <1>2, <1>4
  <2>2. \A i \in 1 .. Len(s) : s[i] \in Nat
    BY ElementOfSeq
  <2> QED  BY <1>1, <2>1, <2>2
<1>6. /\ SubSeq(s \o t, 1, n) \in Seq(Nat)
      /\ Len(SubSeq(s \o t, 1, n)) = IF 1 <= n THEN n - 1 + 1 ELSE 0
      /\ \A i \in 1 .. n - 1 + 1 : SubSeq(s \o t, 1, n)[i] = (s \o t)[1 + i - 1]
  <2>1. \A i \in 1 .. n : (s \o t)[i] \in Nat
    BY <1>5
  <2>2. 1 \in Int /\ n \in Int
    OBVIOUS
  <2>3. PICK u : u = s \o t
    OBVIOUS
  <2>4. \A i \in 1 .. n : u[i] \in Nat
    BY <2>1, <2>3
  <2>5. /\ SubSeq(u, 1, n) \in Seq(Nat)
        /\ Len(SubSeq(u, 1, n)) = IF 1 <= n THEN n - 1 + 1 ELSE 0
        /\ \A i \in 1 .. n - 1 + 1 : SubSeq(u, 1, n)[i] = u[1 + i - 1]
    BY <2>2, <2>4, SubSeqProperties
  <2> QED  BY <2>3, <2>5
<1>7. Len(SubSeq(s \o t, 1, n)) = n
  BY <1>6
<1>8. \A i \in 1 .. n : SubSeq(s \o t, 1, n)[i] = s[i]
  <2>1. \A i \in 1 .. n : 1 + i - 1 = i /\ i \in 1 .. n - 1 + 1
    OBVIOUS
  <2> QED  BY <2>1, <1>5, <1>6
<1>9. SubSeq(s \o t, 1, n) = s
  BY <1>4, <1>6, <1>7, <1>8, SeqEqual
<1> QED  BY <1>1, <1>2, <1>3, <1>4, <1>9 DEF IsPrefix

-----------------------------------------------------------------------------
(* What the device sends.                                                  *)

\* k bytes behind byte a + b.
LEMMA Numbered ==
  ASSUME NEW a \in Nat, NEW b \in Nat, NEW k \in Nat
  PROVE  /\ [j \in 1 .. k |-> a + (b + j)] \in Seq(Nat)
         /\ Len([j \in 1 .. k |-> a + (b + j)]) = k
         /\ Run([j \in 1 .. k |-> a + (b + j)], a + b)
<1> DEFINE s == [j \in 1 .. k |-> a + (b + j)]
<1>1. s \in Seq(Nat) /\ Len(s) = k
  OBVIOUS
<1>2. \A j \in 1 .. k : s[j] = (a + b) + j
  OBVIOUS
<1> HIDE DEF s
<1>3. Run(s, a + b)
  BY <1>1, <1>2 DEF Run
<1> QED  BY <1>1, <1>3 DEF s

FullPackets(M, a, q) == [i \in 1 .. q |-> [j \in 1 .. M |-> a + ((i - 1) * M + j)]]

LEMMA FullPacketsRight ==
  ASSUME NEW M \in Nat \ {0}, NEW a \in Nat, NEW q \in Nat
  PROVE  /\ FullPackets(M, a, q) \in Seq(Seq(Nat)) /\ Len(FullPackets(M, a, q)) = q
         /\ \A i \in 1 .. q : Len(FullPackets(M, a, q)[i]) = M
         /\ Chain(FullPackets(M, a, q), a, a + M * q)
<1> DEFINE w == FullPackets(M, a, q)
           f == [i \in 0 .. q |-> a + M * i]
<1>1. ASSUME NEW i \in 1 .. q
      PROVE  w[i] \in Seq(Nat) /\ Len(w[i]) = M /\ Run(w[i], a + M * (i - 1))
  <2>1. PICK b \in Nat : b = (i - 1) * M /\ b = M * (i - 1)
    <3>1. (i - 1) * M \in Nat /\ (i - 1) * M = M * (i - 1)
      OBVIOUS
    <3> QED  BY <3>1
  <2>2. w[i] = [j \in 1 .. M |-> a + (b + j)]
    BY <2>1 DEF FullPackets
  <2>3. /\ [j \in 1 .. M |-> a + (b + j)] \in Seq(Nat)
        /\ Len([j \in 1 .. M |-> a + (b + j)]) = M
        /\ Run([j \in 1 .. M |-> a + (b + j)], a + b)
    BY Numbered
  <2> QED  BY <2>1, <2>2, <2>3
<1>2. w \in Seq(Seq(Nat)) /\ Len(w) = q
  <2>1. w \in [1 .. q -> Seq(Nat)]
    <3>1. \A i \in 1 .. q : [j \in 1 .. M |-> a + ((i - 1) * M + j)] \in Seq(Nat)
      BY <1>1 DEF FullPackets
    <3> QED  BY <3>1 DEF FullPackets
  <2> HIDE DEF w
  <2> QED  BY <2>1
<1>3. f \in [0 .. q -> 0 .. a + M * q] /\ \A i \in 0 .. q : f[i] = a + M * i
  <2>1. ASSUME NEW i \in 0 .. q
        PROVE  a + M * i \in 0 .. a + M * q
    <3>1. PICK j \in Nat : j = q - i /\ q = i + j
      <4>1. q - i \in Nat /\ q = i + (q - i)
        OBVIOUS
      <4> QED  BY <4>1
    <3>2. M * i \in Nat /\ M * j \in Nat
      OBVIOUS
    <3>3. M * q = M * i + M * j
      BY <3>1
    <3> QED  BY <3>2, <3>3
  <2> QED  BY <2>1
<1>4. f[0] = a /\ f[q] = a + M * q
  <2>1. M * 0 = 0
    OBVIOUS
  <2>2. 0 \in 0 .. q /\ q \in 0 .. q
    OBVIOUS
  <2> HIDE DEF f
  <2> QED  BY <1>3, <2>1, <2>2
<1> HIDE DEF f, w
<1>5. ASSUME NEW i \in 1 .. q
      PROVE  Run(w[i], f[i - 1]) /\ f[i] = f[i - 1] + Len(w[i])
  <2>1. i - 1 \in 0 .. q /\ i \in 0 .. q
    OBVIOUS
  <2>2. f[i - 1] = a + M * (i - 1) /\ f[i] = a + M * i
    BY <2>1, <1>3
  <2>3. a + M * i = (a + M * (i - 1)) + M
    <3>1. M * i = M * (i - 1) + M
      OBVIOUS
    <3>2. M * i \in Nat /\ M * (i - 1) \in Nat
      OBVIOUS
    <3> QED  BY <3>1, <3>2
  <2> QED  BY <2>2, <2>3, <1>1
<1>6. Chain(w, a, a + M * q)
  BY <1>2, <1>3, <1>4, <1>5 DEF Chain
<1> QED  BY <1>1, <1>2, <1>6 DEF w

LEMMA OneMore ==
  ASSUME NEW S, NEW v \in Seq(S), NEW p \in S, NEW q \in Nat, Len(v) = q
  PROVE  /\ v \o <<p>> \in Seq(S) /\ Len(v \o <<p>>) = q + 1
         /\ \A i \in 1 .. q : (v \o <<p>>)[i] = v[i]
         /\ (v \o <<p>>)[q + 1] = p
<1>1. <<p>> \in Seq(S) /\ Len(<<p>>) = 1 /\ <<p>>[1] = p
  OBVIOUS
<1>2. /\ v \o <<p>> \in Seq(S) /\ Len(v \o <<p>>) = Len(v) + Len(<<p>>)
      /\ \A i \in 1 .. Len(v) + Len(<<p>>) :
           (v \o <<p>>)[i] = IF i <= Len(v) THEN v[i] ELSE <<p>>[i - Len(v)]
  BY <1>1, ConcatProperties
<1>3. \A i \in 1 .. q + 1 : (v \o <<p>>)[i] = IF i <= q THEN v[i] ELSE <<p>>[i - q]
  BY <1>1, <1>2
<1>4. q + 1 \in 1 .. q + 1 /\ ~(q + 1 <= q) /\ (q + 1) - q = 1
  OBVIOUS
<1>5. (v \o <<p>>)[q + 1] = p
  BY <1>1, <1>3, <1>4
<1> QED  BY <1>1, <1>2, <1>3, <1>5

LEMMA PacketsRight ==
  ASSUME NEW n \in Nat \ {0}, MaxPkt \in Nat \ {0}, sent \in Seq(Nat)
  PROVE  /\ Packets(n) \in Seq(Seq(Nat)) /\ Packets(n) # <<>> /\ Packets(n)[1] # <<>>
         /\ Packeted(Packets(n))
         /\ Chain(Packets(n), Len(sent), Len(sent) + n)
<1>1. PICK a \in Nat : a = Len(sent)
  BY LenProperties
<1>2. PICK M \in Nat \ {0} : M = MaxPkt
  OBVIOUS
<1>3. PICK q \in Nat, r \in 0 .. M - 1 : q = n \div M /\ r = n % M /\ n = M * q + r
  BY DivMod, DivNat, ModRange
<1>4. PICK b \in Nat : b = M * q /\ n = b + r /\ (q = 0 => b = 0)
  <2>1. M * q \in Nat /\ (q = 0 => M * q = 0)
    OBVIOUS
  <2> QED  BY <2>1, <1>3
<1>5. PICK v \in Seq(Seq(Nat)) :
        /\ v = FullPackets(M, a, q) /\ Len(v) = q /\ \A i \in 1 .. q : Len(v[i]) = M
        /\ Chain(v, a, a + b)
  BY <1>4, FullPacketsRight
<1>6. PICK last : last = [j \in 1 .. r |-> a + (b + j)]
  OBVIOUS
<1>7. last \in Seq(Nat) /\ Len(last) = r /\ Run(last, a + b)
  <2>1. r \in Nat
    OBVIOUS
  <2>2. /\ [j \in 1 .. r |-> a + (b + j)] \in Seq(Nat)
        /\ Len([j \in 1 .. r |-> a + (b + j)]) = r
        /\ Run([j \in 1 .. r |-> a + (b + j)], a + b)
    BY <2>1, Numbered
  <2> QED  BY <2>2, <1>6
<1>8. PICK w : w = IF r # 0 THEN <<last>> ELSE IF zlp THEN <<<<>>>> ELSE <<>>
  OBVIOUS
<1>9. Packets(n) = v \o w
  <2>1. (q + 1) - 1 = q /\ q * M = b
    BY <1>3, <1>4
  <2>2. [j \in 1 .. r |-> a + (((q + 1) - 1) * M + j)] = last
    BY <2>1, <1>6
  <2> QED  BY <1>1, <1>2, <1>3, <1>5, <1>8, <2>2 DEF Packets, FullPackets
<1>10. PICK u : u = v \o w /\ u = Packets(n)
  BY <1>9
<1>11. CASE r # 0
  <2>1. w = <<last>>
    BY <1>8, <1>11
  <2>2. Chain(w, a + b, a + n)
    <3>1. a + b \in Nat /\ (a + b) + r = a + n
      BY <1>4
    <3> QED  BY <2>1, <3>1, <1>7, ChainOne
  <2>3. w \in Seq(Seq(Nat))
    BY <2>1, <1>7
  <2>4. Chain(u, a, a + n)
    <3>1. a + b \in Nat /\ a + n \in Nat
      OBVIOUS
    <3> QED  BY <3>1, <2>2, <2>3, <1>5, <1>10, ChainConcat
  <2>5. /\ u \in Seq(Seq(Nat)) /\ Len(u) = q + 1
        /\ \A i \in 1 .. q : u[i] = v[i]
        /\ u[q + 1] = last
    <3>1. last \in Seq(Nat)
      BY <1>7
    <3>2. v \in Seq(Seq(Nat)) /\ Len(v) = q
      BY <1>5
    <3>3. /\ v \o <<last>> \in Seq(Seq(Nat)) /\ Len(v \o <<last>>) = q + 1
          /\ \A i \in 1 .. q : (v \o <<last>>)[i] = v[i]
          /\ (v \o <<last>>)[q + 1] = last
      <4> DEFINE S == Seq(Nat)
      <4>1. last \in S /\ v \in Seq(S)
        BY <3>1, <3>2
      <4> HIDE DEF S
      <4>2. /\ v \o <<last>> \in Seq(S) /\ Len(v \o <<last>>) = q + 1
            /\ \A i \in 1 .. q : (v \o <<last>>)[i] = v[i]
            /\ (v \o <<last>>)[q + 1] = last
        BY <3>2, <4>1, OneMore
      <4> QED  BY <4>2 DEF S
    <3> QED  BY <2>1, <3>3, <1>10
  <2>8. ASSUME NEW i \in 1 .. q + 1
        PROVE  Len(u[i]) \in 1 .. M
    <3>1. CASE i <= q
      <4>1. i \in 1 .. q
        BY <3>1
      <4>2. Len(u[i]) = M
        BY <4>1, <2>5, <1>5
      <4> QED  BY <4>2
    <3>2. CASE ~(i <= q)
      <4>1. i = q + 1
        BY <3>2
      <4> QED  BY <4>1, <2>5, <1>7, <1>11
    <3> QED  BY <3>1, <3>2
  <2>9. \A i \in 1 .. q + 1 : u[i] # <<>>
    <3> SUFFICES ASSUME NEW i \in 1 .. q + 1 PROVE u[i] # <<>>
      OBVIOUS
    <3>1. Len(<<>>) = 0
      BY EmptySeq
    <3>2. Len(u[i]) # 0
      BY <2>8
    <3> QED  BY <3>1, <3>2, Zenon
  <2>10. u # <<>>
    BY <2>5, EmptySeq
  <2>11. Packeted(u)
    BY <2>5, <2>8, <2>9, <1>2 DEF Packeted
  <2>12. 1 \in 1 .. q + 1
    OBVIOUS
  <2> QED  BY <2>4, <2>5, <2>9, <2>10, <2>11, <2>12, <1>1, <1>10
<1>12. CASE r = 0
  <2>1. q > 0 /\ b = n
    BY <1>4, <1>12
  <2>2. CASE zlp
    <3>1. w = <<<<>>>>
      BY <1>8, <1>12, <2>2
    <3>2. <<>> \in Seq(Nat) /\ Len(<<>>) = 0 /\ Run(<<>>, a + n)
      BY EmptySeq, RunEmpty
    <3>3. Chain(w, a + n, a + n)
      <4>1. a + n \in Nat /\ (a + n) + 0 = a + n
        OBVIOUS
      <4> QED  BY <3>1, <3>2, <4>1, ChainOne
    <3>4. w \in Seq(Seq(Nat))
      BY <3>1, <3>2
    <3>5. Chain(u, a, a + n)
      <4>1. Chain(v, a, a + n)
        BY <2>1, <1>5
      <4>2. a + n \in Nat
        OBVIOUS
      <4> QED  BY <4>1, <4>2, <3>3, <3>4, <1>5, <1>10, ChainConcat
    <3>6. /\ u \in Seq(Seq(Nat)) /\ Len(u) = q + 1
          /\ \A i \in 1 .. q : u[i] = v[i]
          /\ u[q + 1] = <<>>
      <4>1. /\ v \o <<<<>>>> \in Seq(Seq(Nat)) /\ Len(v \o <<<<>>>>) = q + 1
            /\ \A i \in 1 .. q : (v \o <<<<>>>>)[i] = v[i]
            /\ (v \o <<<<>>>>)[q + 1] = <<>>
        BY <3>2, <1>5, OneMore
      <4> QED  BY <3>1, <4>1, <1>10
    <3>9. ASSUME NEW i \in 1 .. q
          PROVE  Len(u[i]) = M /\ u[i] # <<>>
      <4>1. Len(u[i]) = M
        BY <3>6, <1>5
      <4> QED  BY <4>1, EmptySeq
    <3>10. ASSUME NEW i \in 1 .. q + 1
           PROVE  /\ Len(u[i]) <= M
                  /\ i > 1 /\ u[i] = <<>> => Len(u[i - 1]) = M
      <4>1. CASE i <= q
        <5>1. i \in 1 .. q
          BY <4>1
        <5>2. Len(u[i]) = M /\ u[i] # <<>>
          BY <5>1, <3>9
        <5>3. Len(u[i]) <= M
          BY <5>2
        <5> QED  BY <5>2, <5>3, Zenon
      <4>2. CASE ~(i <= q)
        <5>1. i = q + 1 /\ i - 1 = q /\ q \in 1 .. q
          BY <4>2, <2>1
        <5>2. Len(u[i - 1]) = M
          BY <5>1, <3>9
        <5>3. Len(u[i]) = 0
          BY <5>1, <3>6, <3>2
        <5> QED  BY <5>2, <5>3
      <4> QED  BY <4>1, <4>2
    <3>11. u # <<>>
      BY <3>6, EmptySeq
    <3>12. Packeted(u)
      BY <3>6, <3>10, <1>2 DEF Packeted
    <3>13. 1 \in 1 .. q
      BY <2>1
    <3> QED  BY <3>5, <3>6, <3>9, <3>11, <3>12, <3>13, <1>1, <1>10
  <2>3. CASE ~zlp
    <3>1. w = <<>>
      BY <1>8, <1>12, <2>3
    <3>2. u = v
      BY <3>1, <1>10, ConcatEmptySeq
    <3>3. \A i \in 1 .. q : v[i] # <<>>
      BY <1>5, EmptySeq
    <3>4. v # <<>>
      BY <2>1, <1>5, EmptySeq
    <3>5. Packeted(v)
      BY <3>3, <1>2, <1>5 DEF Packeted
    <3>6. 1 \in 1 .. q
      BY <2>1
    <3>7. Chain(v, a, a + n)
      BY <2>1, <1>5
    <3> QED  BY <3>2, <3>3, <3>4, <3>5, <3>6, <3>7, <1>1, <1>5, <1>10
  <2> QED  BY <2>2, <2>3
<1> QED  BY <1>11, <1>12

-----------------------------------------------------------------------------
(* Types.                                                                  *)

LEMMA Constants ==
  /\ MaxPkt \in Nat \ {0} /\ DefaultChunk \in Nat \ {0} /\ XmlLen \in Nat \ {0}
  /\ MsgLens \subseteq Nat \ {0} /\ RawLens \subseteq Nat \ {0} /\ WriteLens \subseteq Nat \ {0}
  /\ ChunkArgs \subseteq Nat /\ DefaultChunk % MaxPkt = 0
  BY TransportAssumption

LEMMA PartOf ==
  ASSUME NEW S, NEW s \in Seq(S), NEW a \in Nat \ {0}, NEW b \in Nat, b <= Len(s)
  PROVE  /\ SubSeq(s, a, b) \in Seq(S)
         /\ Len(SubSeq(s, a, b)) = IF a <= b THEN b - a + 1 ELSE 0
<1>1. Len(s) \in Nat /\ \A i \in 1 .. Len(s) : s[i] \in S
  BY LenProperties, ElementOfSeq
<1>2. \A i \in a .. b : s[i] \in S
  BY <1>1
<1> QED  BY <1>2, SubSeqProperties

LEMMA LowOf ==
  ASSUME NEW a \in Nat, NEW b \in Nat
  PROVE  /\ Low(a, b) \in Nat /\ Low(a, b) <= a /\ Low(a, b) <= b /\ Low(a, b) \in {a, b}
         /\ a > 0 /\ b > 0 => Low(a, b) > 0
  BY DEF Low

LEMMA ChunkSizes ==
  ASSUME NEW arg \in ChunkArgs
  PROVE  /\ ChunkSize(arg) \in Nat \ {0} /\ OpenedChunk(arg) \in Nat \ {0}
         /\ OpenedChunk(arg) % MaxPkt = 0
<1>1. arg \in Nat /\ arg % MaxPkt \in Int
  BY Constants, ModRange
<1>2. MaxPkt % MaxPkt = 0
  BY Constants, ModSelf
<1>3. CASE arg = 0
  BY <1>1, <1>3, Constants DEF ChunkSize, OpenedChunk
<1>4. CASE arg # 0 /\ arg % MaxPkt # 0
  BY <1>1, <1>2, <1>4, Constants DEF ChunkSize, OpenedChunk
<1>5. CASE arg # 0 /\ arg % MaxPkt = 0
  BY <1>1, <1>5, Constants DEF ChunkSize, OpenedChunk
<1> QED  BY <1>3, <1>4, <1>5

LEMMA FreshRight ==
  ASSUME sent \in Seq(Nat), NEW n \in Nat
  PROVE  Fresh(n) \in Seq(Nat) /\ Len(Fresh(n)) = n /\ Run(Fresh(n), Len(sent))
<1>1. PICK a \in Nat : a = Len(sent)
  BY LenProperties
<1> DEFINE s == [j \in 1 .. n |-> a + j]
<1>2. s \in Seq(Nat) /\ Len(s) = n /\ \A j \in 1 .. n : s[j] = a + j
  OBVIOUS
<1>3. Fresh(n) = s
  BY <1>1 DEF Fresh
<1> HIDE DEF s
<1> QED  BY <1>1, <1>2, <1>3 DEF Run

LEMMA StreamRight ==
  ASSUME wire \in Seq(Seq(Nat))
  PROVE  Stream \in Seq(Nat)
<1>1. CASE wire = <<>>
  BY <1>1, EmptySeq DEF Stream
<1>2. CASE wire # <<>>
  <2>1. 1 \in 1 .. Len(wire)
    BY <1>2, EmptySeq
  <2> QED  BY <1>2, <2>1, ElementOfSeq DEF Stream
<1> QED  BY <1>1, <1>2

\* A read is of XML or of raw data.
LEMMA Kinds ==
  ASSUME NEW mn \in {<<"xml", XmlLen>>} \cup ({"raw"} \X RawLens)
  PROVE  /\ mn[1] \in {"xml", "raw"} /\ mn[2] \in Nat \ {0}
         /\ mn[1] = "xml" => mn[2] = XmlLen
<1>1. CASE mn = <<"xml", XmlLen>>
  BY <1>1, Constants
<1>2. CASE mn \in {"raw"} \X RawLens
  <2>1. mn[1] = "raw" /\ mn[2] \in RawLens
    BY <1>2
  <2> QED  BY <2>1, Constants
<1> QED  BY <1>1, <1>2

LEMMA TakenEither ==
  ASSUME NEW k, Taken(k)
  PROVE  dmsg' \in {0, dmsg + k} /\ dmsgs' \in {dmsgs, Append(dmsgs, dmsg + k)}
<1>1. CASE k % MaxPkt = 0 /\ k > 0
  <2>1. dmsg' = dmsg + k /\ dmsgs' = dmsgs
    BY <1>1, Zenon DEF Taken
  <2> QED  BY <2>1
<1>2. CASE ~(k % MaxPkt = 0 /\ k > 0)
  <2>1. dmsg' = 0 /\ dmsgs' = Append(dmsgs, dmsg + k)
    BY <1>2, Zenon DEF Taken
  <2> QED  BY <2>1
<1> QED  BY <1>1, <1>2

LEMMA TypeStep == TypeOK /\ [Next]_vars => TypeOK'
<1> SUFFICES ASSUME TypeOK, [Next]_vars PROVE TypeOK'
  OBVIOUS
<1> USE DEF fixed, inVars, outVars
<1>1. CASE Open
  <2>1. PICK arg \in ChunkArgs : out_chunk_size' = ChunkSize(arg)
    BY <1>1 DEF Open
  <2>2. ChunkSize(arg) \in Nat \ {0}
    BY ChunkSizes
  <2> QED  BY <1>1, <2>1, <2>2 DEF TypeOK, Open
<1>2. CASE ReadPending
  <2>1. PICK mn \in {<<"xml", XmlLen>>} \cup ({"raw"} \X RawLens) :
          /\ Begin(mn[1], mn[2])
          /\ buf' = SubSeq(pending, 1, Low(mn[2], Len(pending)))
          /\ pending' = SubSeq(pending, mn[2] + 1, Len(pending))
    BY <1>2 DEF ReadPending
  <2>2. mn[1] \in {"xml", "raw"} /\ mn[2] \in Nat
    BY Kinds
  <2>3. Len(pending) \in Nat
    BY LenProperties DEF TypeOK
  <2>4. buf' \in Seq(Nat)
    <3>1. PICK k \in Nat : k = Low(mn[2], Len(pending)) /\ k <= Len(pending)
      BY <2>2, <2>3, LowOf
    <3>2. SubSeq(pending, 1, k) \in Seq(Nat)
      BY <3>1, PartOf DEF TypeOK
    <3> QED  BY <2>1, <3>1, <3>2
  <2>5. pending' \in Seq(Nat)
    <3>1. PICK k \in Nat \ {0} : k = mn[2] + 1
      BY <2>2
    <3>2. SubSeq(pending, k, Len(pending)) \in Seq(Nat)
      BY <2>3, PartOf DEF TypeOK
    <3> QED  BY <2>1, <3>1, <3>2
  <2>6. mode' \in {"xml", "raw"} /\ len' \in Nat
    BY <2>1, <2>2 DEF Begin
  <2>7. UNCHANGED <<fixed, out_chunk_size, wire, sent, msgs, lost, got, outVars, race>>
    BY <2>1 DEF Begin
  <2>8. hpc = "idle"
    BY <2>1 DEF Begin, Idle
  <2> QED  BY <1>2, <2>4, <2>5, <2>6, <2>7, <2>8 DEF TypeOK, ReadPending
<1>3. CASE ReadDevice
  <2>1. PICK mn \in {<<"xml", XmlLen>>} \cup ({"raw"} \X RawLens) : Begin(mn[1], mn[2])
    BY <1>3 DEF ReadDevice
  <2>2. mn[1] \in {"xml", "raw"} /\ mn[2] \in Nat
    BY Kinds
  <2>3. mode' \in {"xml", "raw"} /\ len' \in Nat
    BY <2>1, <2>2 DEF Begin
  <2>4. UNCHANGED <<fixed, out_chunk_size, wire, sent, msgs, lost, got, outVars, race>>
    BY <2>1 DEF Begin
  <2>5. hpc = "idle"
    BY <2>1 DEF Begin, Idle
  <2>6. buf' \in Seq(Nat)
    BY <1>3, EmptySeq DEF ReadDevice
  <2> QED  BY <1>3, <2>3, <2>4, <2>5, <2>6 DEF TypeOK, ReadDevice
<1>4. CASE UsbPacket
  <2>1. wire' \in Seq(Seq(Nat)) /\ Head(wire) \in Seq(Nat)
    BY <1>4, HeadTailProperties DEF TypeOK, UsbPacket
  <2>2. buf \o Head(wire) \in Seq(Nat)
    BY <2>1, ConcatProperties DEF TypeOK
  <2>3. /\ buf' \in {buf, buf \o Head(wire)} /\ empty' \in BOOLEAN /\ expect_zlp' \in BOOLEAN
        /\ hpc' \in {"in", "give", "failed"} /\ hpc = "in"
    BY <1>4 DEF TypeOK, UsbPacket, Return
  <2>4. UNCHANGED <<fixed, out_chunk_size, sent, msgs, mode, len, pending, lost, got, outVars,
                    cut, race>>
    BY <1>4 DEF UsbPacket
  <2>5. buf' \in Seq(Nat)
    BY <2>2, <2>3 DEF TypeOK
  <2> QED  BY <2>1, <2>3, <2>4, <2>5 DEF TypeOK
<1>5. CASE UsbTimeout
  <2>1. /\ buf' = buf /\ empty' \in BOOLEAN /\ expect_zlp' \in BOOLEAN
        /\ hpc' \in {"idle", "give"} /\ hpc = "in"
    BY <1>5 DEF TypeOK, UsbTimeout, Return, NothingCame
  <2>2. cut' \in {cut, cut + 1}
    BY <1>5 DEF UsbTimeout
  <2>3. cut' \in Nat
    BY <2>2 DEF TypeOK
  <2>4. UNCHANGED <<fixed, out_chunk_size, wire, sent, msgs, mode, len, pending, lost, got,
                    outVars, race>>
    BY <1>5 DEF UsbTimeout
  <2> QED  BY <2>1, <2>3, <2>4 DEF TypeOK
<1>6. CASE QudRead
  <2>1. PICK n \in 1 .. Low(len, Len(Stream)) :
          /\ wire' = <<SubSeq(Stream, n + 1, Len(Stream))>>
          /\ Return(SubSeq(Stream, 1, n))
    BY <1>6 DEF QudRead
  <2>2. Stream \in Seq(Nat) /\ Len(Stream) \in Nat /\ n \in Nat /\ n <= Len(Stream)
    <3>1. Stream \in Seq(Nat) /\ Len(Stream) \in Nat /\ len \in Nat
      BY StreamRight, LenProperties DEF TypeOK
    <3>2. Low(len, Len(Stream)) \in Nat /\ Low(len, Len(Stream)) <= Len(Stream)
      BY <3>1, LowOf
    <3> QED  BY <3>1, <3>2
  <2>3. SubSeq(Stream, 1, n) \in Seq(Nat)
    BY <2>2, PartOf
  <2>4. SubSeq(Stream, n + 1, Len(Stream)) \in Seq(Nat)
    <3>1. PICK k \in Nat \ {0} : k = n + 1
      BY <2>2
    <3>2. SubSeq(Stream, k, Len(Stream)) \in Seq(Nat)
      BY <2>2, PartOf
    <3> QED  BY <3>1, <3>2
  <2>5. wire' \in Seq(Seq(Nat))
    BY <2>1, <2>4
  <2>6. /\ buf' \in Seq(Nat) /\ empty' \in BOOLEAN /\ expect_zlp' \in BOOLEAN
        /\ hpc' = "give"
    BY <2>1, <2>3 DEF Return
  <2>7. /\ hpc = "in"
        /\ UNCHANGED <<fixed, out_chunk_size, sent, msgs, mode, len, pending, lost, got, outVars,
                       cut, race>>
    BY <1>6 DEF QudRead
  <2> QED  BY <2>5, <2>6, <2>7 DEF TypeOK
<1>7. CASE QudTimeout
  <2>1. PICK k \in Nat : k = Low(len, Len(Stream)) /\ k <= Len(Stream)
    <3>1. Len(Stream) \in Nat /\ len \in Nat
      BY StreamRight, LenProperties DEF TypeOK
    <3> QED  BY <3>1, LowOf
  <2>2. Stream \in Seq(Nat) /\ Len(Stream) \in Nat
    BY StreamRight, LenProperties DEF TypeOK
  <2>3. Range(SubSeq(Stream, 1, k)) \subseteq Nat
    <3>1. SubSeq(Stream, 1, k) \in Seq(Nat)
      BY <2>1, <2>2, PartOf
    <3> QED  BY <3>1, RangeOfSeq
  <2>4. SubSeq(Stream, k + 1, Len(Stream)) \in Seq(Nat)
    <3>1. PICK m \in Nat \ {0} : m = k + 1
      OBVIOUS
    <3>2. SubSeq(Stream, m, Len(Stream)) \in Seq(Nat)
      BY <2>2, PartOf
    <3> QED  BY <3>1, <3>2
  <2>5. \/ UNCHANGED <<wire, lost, race>>
        \/ /\ race' = race + 1 /\ lost' = lost \cup Range(SubSeq(Stream, 1, k))
           /\ wire' = <<SubSeq(Stream, k + 1, Len(Stream))>>
    BY <1>7, <2>1 DEF QudTimeout
  <2>6. wire' \in Seq(Seq(Nat)) /\ lost' \subseteq Nat
    <3>1. <<SubSeq(Stream, k + 1, Len(Stream))>> \in Seq(Seq(Nat))
      BY <2>4
    <3>2. wire' \in Seq(Seq(Nat))
      BY <3>1, <2>5 DEF TypeOK
    <3>3. lost' \subseteq Nat
      BY <2>3, <2>5 DEF TypeOK
    <3> QED  BY <3>2, <3>3
  <2>7. race' \in Nat
    BY <2>5 DEF TypeOK
  <2>8. /\ hpc = "in" /\ hpc' = "idle"
        /\ UNCHANGED <<fixed, out_chunk_size, sent, msgs, mode, len, buf, expect_zlp, pending,
                       got, empty, outVars, cut>>
    BY <1>7 DEF QudTimeout
  <2> QED  BY <2>6, <2>7, <2>8 DEF TypeOK
<1>8. CASE Give
  <2>1. PICK n \in 0 .. Len(buf) :
          /\ got' = got \o SubSeq(buf, 1, n)
          /\ pending' = IF n < Len(buf) THEN PushedBack(SubSeq(buf, n + 1, Len(buf)))
                        ELSE pending
    BY <1>8 DEF Give
  <2>2. Len(buf) \in Nat /\ n \in Nat /\ n <= Len(buf)
    <3>1. Len(buf) \in Nat
      BY LenProperties DEF TypeOK
    <3> QED  BY <3>1
  <2>3. got' \in Seq(Nat)
    <3>1. SubSeq(buf, 1, n) \in Seq(Nat)
      BY <2>2, PartOf DEF TypeOK
    <3> QED  BY <2>1, <3>1, ConcatProperties DEF TypeOK
  <2>4. pending' \in Seq(Nat)
    <3>1. PICK m \in Nat \ {0} : m = n + 1
      BY <2>2
    <3>2. SubSeq(buf, m, Len(buf)) \in Seq(Nat)
      BY <2>2, PartOf DEF TypeOK
    <3>3. pending \o SubSeq(buf, m, Len(buf)) \in Seq(Nat)
      BY <3>2, ConcatProperties DEF TypeOK
    <3> QED  BY <2>1, <3>1, <3>3 DEF TypeOK, PushedBack
  <2>5. /\ hpc = "give" /\ hpc' = "idle"
        /\ UNCHANGED <<fixed, out_chunk_size, wire, sent, msgs, mode, len, buf, expect_zlp, lost,
                       empty, outVars, cut, race>>
    BY <1>8 DEF Give
  <2> QED  BY <2>3, <2>4, <2>5 DEF TypeOK
<1>9. CASE StartWrite
  BY <1>9, Constants DEF TypeOK, StartWrite, Idle
<1>10. CASE QudWrite
  BY <1>10, AppendProperties DEF TypeOK, QudWrite, WriteDone
<1>11. CASE UsbWrite
  <2>1. PICK k \in Nat, c \in Nat :
          /\ wdata' = wdata - k /\ k <= wdata /\ cut' = c
          /\ Taken(k) \/ UNCHANGED <<dmsg, dmsgs>>
          /\ hpc' \in {hpc, "failed"}
    <3>1. Low(out_chunk_size, wdata) \in Nat /\ Low(out_chunk_size, wdata) <= wdata
      BY LowOf DEF TypeOK
    <3>2. CASE /\ Taken(Low(out_chunk_size, wdata)) /\ wdata' = wdata - Low(out_chunk_size, wdata)
               /\ UNCHANGED <<cut, hpc>>
      BY <3>1, <3>2 DEF TypeOK
    <3>3. ASSUME NEW k \in 0 .. Low(out_chunk_size, wdata) - 1,
                 IF k = 0 THEN hpc' = "failed" /\ UNCHANGED <<dmsg, dmsgs>>
                          ELSE Taken(k) /\ UNCHANGED hpc,
                 wdata' = wdata - k, cut' = cut + 1
          PROVE  \E c \in Nat :
                   /\ wdata' = wdata - k /\ k <= wdata /\ cut' = c
                   /\ Taken(k) \/ UNCHANGED <<dmsg, dmsgs>>
                   /\ hpc' \in {hpc, "failed"}
      <4>1. cut + 1 \in Nat /\ k <= wdata
        BY <3>1 DEF TypeOK
      <4>2. Taken(k) \/ UNCHANGED <<dmsg, dmsgs>>
        BY <3>3, Zenon
      <4>3. hpc' \in {hpc, "failed"}
        BY <3>3
      <4> QED  BY <3>3, <4>1, <4>2, <4>3
    <3>4. ASSUME NEW k \in 0 .. Low(out_chunk_size, wdata) - 1
          PROVE  k \in Nat
      BY <3>1
    <3> QED  BY <1>11, <3>2, <3>3, <3>4 DEF UsbWrite
  <2>2. wdata' \in Nat
    BY <2>1 DEF TypeOK
  <2>3. dmsg' \in Nat /\ dmsgs' \in Seq(Nat)
    <3>1. dmsg + k \in Nat
      BY DEF TypeOK
    <3>2. Append(dmsgs, dmsg + k) \in Seq(Nat)
      BY <3>1, AppendProperties DEF TypeOK
    <3>3. CASE Taken(k)
      <4>1. dmsg' \in {0, dmsg + k} /\ dmsgs' \in {dmsgs, Append(dmsgs, dmsg + k)}
        BY <3>3, TakenEither
      <4>2. dmsg' \in Nat
        BY <3>1, <4>1
      <4>3. dmsgs \in Seq(Nat)
        BY DEF TypeOK
      <4>4. dmsgs' \in Seq(Nat)
        BY <3>2, <4>1, <4>3
      <4> QED  BY <4>2, <4>4
    <3>4. CASE UNCHANGED <<dmsg, dmsgs>>
      BY <3>4 DEF TypeOK
    <3> QED  BY <2>1, <3>3, <3>4
  <2>4. /\ hpc = "out"
        /\ UNCHANGED <<fixed, out_chunk_size, inVars, wlen, wrote, race>>
    BY <1>11 DEF UsbWrite
  <2> QED  BY <2>1, <2>2, <2>3, <2>4 DEF TypeOK
<1>12. CASE UsbWriteEnd
  <2>1. dmsg' \in Nat /\ dmsgs' \in Seq(Nat)
    <3>1. dmsg + 0 \in Nat
      BY DEF TypeOK
    <3>2. Append(dmsgs, dmsg + 0) \in Seq(Nat)
      BY <3>1, AppendProperties DEF TypeOK
    <3>3. Taken(0) \/ UNCHANGED <<dmsg, dmsgs>>
      BY <1>12 DEF UsbWriteEnd
    <3>4. CASE Taken(0)
      <4>1. dmsg' \in {0, dmsg + 0} /\ dmsgs' \in {dmsgs, Append(dmsgs, dmsg + 0)}
        BY <3>4, TakenEither
      <4>2. dmsg' \in Nat
        BY <3>1, <4>1
      <4>3. dmsgs \in Seq(Nat)
        BY DEF TypeOK
      <4>4. dmsgs' \in Seq(Nat)
        BY <3>2, <4>1, <4>3
      <4> QED  BY <4>2, <4>4
    <3>5. CASE UNCHANGED <<dmsg, dmsgs>>
      BY <3>5 DEF TypeOK
    <3> QED  BY <3>3, <3>4, <3>5
  <2>2. wrote' \in Seq(Nat)
    BY <1>12, AppendProperties DEF TypeOK, UsbWriteEnd, WriteDone
  <2>3. /\ hpc = "out" /\ hpc' = "idle"
        /\ UNCHANGED <<fixed, out_chunk_size, inVars, wdata, wlen, cut, race>>
    BY <1>12 DEF UsbWriteEnd, WriteDone
  <2> QED  BY <2>1, <2>2, <2>3 DEF TypeOK
<1>13. CASE DevSend
  <2>1. PICK n \in MsgLens :
          /\ sent' = sent \o Fresh(n)
          /\ wire' = IF Usb THEN wire \o Packets(n) ELSE <<Stream \o Fresh(n)>>
    BY <1>13 DEF DevSend
  <2>2. n \in Nat \ {0} /\ MaxPkt \in Nat \ {0} /\ sent \in Seq(Nat)
    BY Constants DEF TypeOK
  <2>3. sent' \in Seq(Nat)
    BY <2>1, <2>2, FreshRight, ConcatProperties
  <2>4. wire' \in Seq(Seq(Nat))
    <3>1. wire \o Packets(n) \in Seq(Seq(Nat))
      <4>1. Packets(n) \in Seq(Seq(Nat))
        BY <2>2, PacketsRight
      <4> QED  BY <4>1, ConcatProperties DEF TypeOK
    <3>2. Stream \o Fresh(n) \in Seq(Nat)
      BY <2>2, FreshRight, StreamRight, ConcatProperties DEF TypeOK
    <3>3. <<Stream \o Fresh(n)>> \in Seq(Seq(Nat))
      BY <3>2
    <3> QED  BY <2>1, <3>1, <3>3
  <2>5. msgs' = msgs + 1
        /\ UNCHANGED <<fixed, out_chunk_size, hpc, mode, len, buf, expect_zlp, pending, lost, got,
                       empty, outVars, cut, race>>
    BY <1>13 DEF DevSend
  <2>6. msgs' \in Nat
    BY <2>5 DEF TypeOK
  <2> QED  BY <2>3, <2>4, <2>5, <2>6 DEF TypeOK
<1>14. CASE UNCHANGED vars
  BY <1>14 DEF TypeOK, vars
<1> QED  BY <1>1, <1>2, <1>3, <1>4, <1>5, <1>6, <1>7, <1>8, <1>9, <1>10, <1>11, <1>12, <1>13,
            <1>14 DEF Next, Reads, Writes

LEMMA TypeInit == Init => TypeOK
<1>1. <<>> \in Seq(Nat) /\ <<>> \in Seq(Seq(Nat))
  BY EmptySeq
<1>2. Init => /\ <<out_chunk_size, msgs, len, wdata, wlen, dmsg, cut, race>>
                   = <<0, 0, 0, 0, 0, 0, 0, 0>>
              /\ hpc = "open" /\ mode = "raw"
              /\ wire = <<>> /\ sent = <<>> /\ buf = <<>> /\ pending = <<>> /\ got = <<>>
              /\ dmsgs = <<>> /\ wrote = <<>> /\ lost = {}
  BY DEF Init
<1>3. Init => expect_zlp \in BOOLEAN /\ empty \in BOOLEAN
  BY DEF Init
<1> QED  BY <1>1, <1>2, <1>3 DEF TypeOK

-----------------------------------------------------------------------------
(* Writes are framed.                                                      *)

\* What does not write leaves the messages alone.
LEMMA FrameKept ==
  ASSUME FrameInv, UNCHANGED outVars, UNCHANGED out_chunk_size,
         hpc \notin {"out", "open"}, hpc' \notin {"out", "open"}, hpc = "failed" => hpc' = "failed"
  PROVE  FrameInv'
  BY DEF FrameInv, Framed, outVars

LEMMA FrameStep == TypeOK /\ FrameInv /\ [Next]_vars => FrameInv'
<1> SUFFICES ASSUME TypeOK, FrameInv, [Next]_vars PROVE FrameInv'
  OBVIOUS
<1> DEFINE aligned == out_chunk_size % MaxPkt = 0
<1>a. MaxPkt \in Nat \ {0}
  BY Constants
<1>1. CASE Open
  <2>1. 0 % MaxPkt = 0
    BY <1>a, ModSelf
  <2>2. Framed
    BY <1>1, <2>1 DEF FrameInv, Open
  <2>3. Framed'
    BY <1>1, <2>2 DEF Framed, Open, outVars
  <2> QED  BY <1>1, <2>3 DEF FrameInv, Open
<1>2. CASE ReadPending \/ ReadDevice
  <2>1. UNCHANGED outVars /\ UNCHANGED out_chunk_size /\ hpc = "idle"
    BY <1>2 DEF ReadPending, ReadDevice, Begin, Idle
  <2>2. hpc' \in {"give", "in"}
    BY <1>2 DEF ReadPending, ReadDevice
  <2> QED  BY <2>1, <2>2, FrameKept
<1>3. CASE UsbPacket
  <2>1. UNCHANGED outVars /\ UNCHANGED out_chunk_size /\ hpc = "in"
    BY <1>3 DEF UsbPacket
  <2>2. hpc' \in {"in", "give", "failed"}
    BY <1>3 DEF UsbPacket, Return
  <2> QED  BY <2>1, <2>2, FrameKept
<1>4. CASE UsbTimeout \/ QudRead \/ QudTimeout
  <2>1. UNCHANGED outVars /\ UNCHANGED out_chunk_size /\ hpc = "in"
    BY <1>4 DEF UsbTimeout, QudRead, QudTimeout
  <2>2. hpc' \in {"give", "idle"}
    BY <1>4 DEF UsbTimeout, QudRead, QudTimeout, Return, NothingCame
  <2> QED  BY <2>1, <2>2, FrameKept
<1>5. CASE Give
  <2>1. UNCHANGED outVars /\ UNCHANGED out_chunk_size /\ hpc = "give" /\ hpc' = "idle"
    BY <1>5 DEF Give
  <2> QED  BY <2>1, FrameKept
<1>6. CASE StartWrite
  <2>1. PICK n \in WriteLens : wdata' = n /\ wlen' = n
    BY <1>6 DEF StartWrite
  <2>2. n \in Nat /\ n > 0
    BY Constants
  <2>3. /\ hpc = "idle" /\ hpc' = "out"
        /\ UNCHANGED <<fixed, out_chunk_size, inVars, dmsg, dmsgs, wrote, cut, race>>
    BY <1>6 DEF StartWrite, Idle
  <2>4. ASSUME aligned
        PROVE  Framing'
    <3>1. dmsgs = wrote /\ dmsg = 0
      BY <2>3, <2>4 DEF FrameInv, Framed
    <3>2. dmsgs' = wrote' /\ dmsg' = 0
      BY <2>3, <3>1
    <3>3. dmsg' + wdata' = wlen' /\ dmsg' % MaxPkt = 0 /\ wlen' > 0 /\ wdata' # 0
      BY <1>a, <2>1, <2>2, <3>2, ModSelf
    <3> QED  BY <3>2, <3>3 DEF Framing, Framed
  <2> QED  BY <2>3, <2>4 DEF FrameInv
<1>7. CASE QudWrite
  <2>1. /\ hpc = "out" /\ ~Usb /\ hpc' = "idle" /\ dmsgs' = Append(dmsgs, wlen)
        /\ wrote' = Append(wrote, wlen)
        /\ UNCHANGED <<fixed, out_chunk_size, inVars, dmsg, wlen, cut, race>>
    BY <1>7 DEF QudWrite, WriteDone
  <2>2. ASSUME aligned
        PROVE  Framed'
    BY <2>1, <2>2 DEF FrameInv, Framing, Framed
  <2> QED  BY <2>1, <2>2 DEF FrameInv
<1>8. CASE UsbWrite
  <2> DEFINE x == Low(out_chunk_size, wdata)
  <2>1. /\ hpc = "out" /\ Usb /\ wdata > 0
        /\ UNCHANGED <<fixed, out_chunk_size, inVars, wlen, wrote, race>>
    BY <1>8 DEF UsbWrite
  <2>2. Usb'
    BY <2>1 DEF Usb, fixed
  <2>3. out_chunk_size \in Nat \ {0} /\ wdata \in Nat \ {0} /\ dmsg \in Nat /\ wlen \in Nat
    BY <2>1 DEF TypeOK
  <2>4. x \in Nat \ {0} /\ x <= out_chunk_size /\ x <= wdata /\ x \in {out_chunk_size, wdata}
    BY <2>3, LowOf
  <2> HIDE DEF x
  <2>5. ASSUME aligned, hpc' = "out"
        PROVE  Framing'
    <3>1. dmsgs = wrote /\ dmsg + wdata = wlen /\ dmsg % MaxPkt = 0 /\ wlen > 0
      BY <2>1, <2>5 DEF FrameInv, Framing
    <3>2. PICK k \in Nat \ {0} :
            /\ k <= wdata /\ Taken(k) /\ wdata' = wdata - k
            /\ k % MaxPkt = 0 \/ k = wdata
      <4>1. CASE Taken(x) /\ wdata' = wdata - x
        BY <2>4, <2>5, <4>1
      <4>2. ASSUME NEW k \in 0 .. x - 1, k % MaxPkt = 0,
                   IF k = 0 THEN hpc' = "failed" /\ UNCHANGED <<dmsg, dmsgs>>
                            ELSE Taken(k) /\ UNCHANGED hpc,
                   wdata' = wdata - k
            PROVE  /\ k \in Nat \ {0} /\ k <= wdata /\ Taken(k) /\ wdata' = wdata - k
                   /\ k % MaxPkt = 0
        <5>1. k # 0
          BY <2>5, <4>2
        <5>2. Taken(k)
          BY <4>2, <5>1, Zenon
        <5>3. k \in Nat \ {0} /\ k <= wdata
          BY <2>3, <2>4, <5>1
        <5> QED  BY <4>2, <5>2, <5>3
      <4>3. \/ Taken(x) /\ wdata' = wdata - x
            \/ \E k \in 0 .. x - 1 :
                 /\ k % MaxPkt = 0
                 /\ IF k = 0 THEN hpc' = "failed" /\ UNCHANGED <<dmsg, dmsgs>>
                             ELSE Taken(k) /\ UNCHANGED hpc
                 /\ wdata' = wdata - k
        BY <1>8 DEF UsbWrite, x
      <4> QED  BY <4>1, <4>2, <4>3
    <3>3. wdata' \in Nat /\ dmsg + k \in Nat /\ (dmsg + k) + wdata' = wlen
      BY <2>3, <3>1, <3>2
    <3>4. (dmsg + k) % MaxPkt = k % MaxPkt
      BY <1>a, <2>3, <3>1, ModAdd
    <3>5. CASE k % MaxPkt = 0
      <4>1. dmsg' = dmsg + k /\ dmsgs' = dmsgs
        <5>1. k > 0
          OBVIOUS
        <5> QED  BY <3>2, <3>5, <5>1, Zenon DEF Taken
      <4>2. dmsgs' = wrote' /\ dmsg' + wdata' = wlen' /\ dmsg' % MaxPkt = 0 /\ wlen' > 0
        BY <2>1, <3>1, <3>3, <3>4, <3>5, <4>1
      <4>3. ~(wdata' = 0 /\ wlen' % MaxPkt # 0)
        <5>1. SUFFICES ASSUME wdata' = 0 PROVE wlen' % MaxPkt = 0
          OBVIOUS
        <5>2. wlen' = dmsg + k
          BY <2>1, <3>3, <5>1
        <5> QED  BY <5>2, <3>4, <3>5
      <4> QED  BY <2>2, <4>2, <4>3 DEF Framing
    <3>6. CASE k % MaxPkt # 0
      <4>1. k = wdata
        BY <3>2, <3>6
      <4>2. dmsg' = 0 /\ dmsgs' = Append(dmsgs, dmsg + k)
        BY <3>2, <3>6, Zenon DEF Taken
      <4>3. dmsg + k = wlen /\ wdata' = 0
        BY <2>3, <3>1, <3>2, <4>1
      <4>4. dmsgs' = Append(wrote', wlen') /\ dmsg' = 0 /\ wlen' > 0
        BY <2>1, <3>1, <4>2, <4>3
      <4>5. wlen' % MaxPkt # 0
        BY <2>1, <3>4, <3>6, <4>3
      <4>6. wdata' = 0
        BY <4>3
      <4>7. ~(wdata' > 0 \/ wlen' % MaxPkt = 0)
        BY <4>5, <4>6
      <4> QED  BY <2>2, <4>4, <4>7 DEF Framing
    <3> QED  BY <3>5, <3>6
  <2>6. hpc' \in {"out", "failed"}
    BY <1>8, <2>1 DEF UsbWrite
  <2> QED  BY <2>1, <2>5, <2>6 DEF FrameInv
<1>9. CASE UsbWriteEnd
  <2>1. /\ hpc = "out" /\ Usb /\ wdata = 0 /\ hpc' = "idle" /\ wrote' = Append(wrote, wlen)
        /\ UNCHANGED <<fixed, out_chunk_size, inVars, wdata, wlen, cut, race>>
    BY <1>9 DEF UsbWriteEnd, WriteDone
  <2>2. ASSUME aligned
        PROVE  Framed'
    <3>1. CASE wlen % MaxPkt = 0
      <4>1. dmsgs = wrote /\ dmsg + wdata = wlen
        BY <2>1, <2>2, <3>1 DEF FrameInv, Framing
      <4>2. Taken(0)
        BY <1>9, <3>1 DEF UsbWriteEnd, NeedsZlp
      <4>3. ~(0 > 0)
        OBVIOUS
      <4>4. dmsg' = 0 /\ dmsgs' = Append(dmsgs, dmsg + 0)
        BY <4>2, <4>3, Zenon DEF Taken
      <4>5. dmsg + 0 = wlen
        BY <2>1, <4>1 DEF TypeOK
      <4> QED  BY <2>1, <4>1, <4>4, <4>5 DEF Framed
    <3>2. CASE wlen % MaxPkt # 0
      <4>1. dmsgs = Append(wrote, wlen) /\ dmsg = 0
        BY <2>1, <2>2, <3>2 DEF FrameInv, Framing
      <4>2. UNCHANGED <<dmsg, dmsgs>>
        BY <1>9, <3>2 DEF UsbWriteEnd, NeedsZlp
      <4> QED  BY <2>1, <4>1, <4>2 DEF Framed
    <3> QED  BY <3>1, <3>2
  <2> QED  BY <2>1, <2>2 DEF FrameInv
<1>10. CASE DevSend
  <2>1. UNCHANGED outVars /\ UNCHANGED <<fixed, out_chunk_size, hpc>>
    BY <1>10 DEF DevSend
  <2> QED  BY <2>1 DEF FrameInv, Framed, Framing, Usb, outVars, fixed
<1>11. CASE UNCHANGED vars
  BY <1>11 DEF FrameInv, Framed, Framing, Usb, vars, outVars, fixed
<1> QED  BY <1>1, <1>2, <1>3, <1>4, <1>5, <1>6, <1>7, <1>8, <1>9, <1>10, <1>11
         DEF Next, Reads, Writes

-----------------------------------------------------------------------------
(* Empty packets are known.                                                *)

LEMMA PacketedTail ==
  ASSUME NEW w \in Seq(Seq(Nat)), w # <<>>, Packeted(w)
  PROVE  /\ Packeted(Tail(w)) /\ w[1] \in Seq(Nat) /\ Len(w[1]) <= MaxPkt
         /\ Tail(w) # <<>> /\ Tail(w)[1] = <<>> => Len(w[1]) = MaxPkt
<1>1. PICK n \in Nat \ {0} : n = Len(w)
  BY EmptySeq
<1>2. Tail(w) \in Seq(Seq(Nat)) /\ Len(Tail(w)) = n - 1
      /\ \A i \in 1 .. n - 1 : Tail(w)[i] = w[i + 1]
  <2>1. Tail(w) \in Seq(Seq(Nat)) /\ Len(Tail(w)) = Len(w) - 1
        /\ \A i \in 1 .. Len(Tail(w)) : Tail(w)[i] = w[i + 1]
    BY HeadTailProperties
  <2> QED  BY <2>1, <1>1
<1>3. \A i \in 1 .. n :
        Len(w[i]) <= MaxPkt /\ (i > 1 /\ w[i] = <<>> => Len(w[i - 1]) = MaxPkt)
  BY <1>1 DEF Packeted
<1>4. w[1] \in Seq(Nat) /\ Len(w[1]) <= MaxPkt
  <2>1. 1 \in 1 .. n
    OBVIOUS
  <2> QED  BY <2>1, <1>1, <1>3, ElementOfSeq
<1>5. ASSUME NEW i \in 1 .. n - 1
      PROVE  /\ Len(Tail(w)[i]) <= MaxPkt
             /\ i > 1 /\ Tail(w)[i] = <<>> => Len(Tail(w)[i - 1]) = MaxPkt
  <2>1. PICK j \in 1 .. n : j = i + 1 /\ j > 1 /\ j - 1 = i
    <3>1. i + 1 \in 1 .. n /\ i + 1 > 1 /\ (i + 1) - 1 = i
      OBVIOUS
    <3> QED  BY <3>1
  <2>2. Tail(w)[i] = w[j]
    BY <2>1, <1>2
  <2>3. ASSUME i > 1
        PROVE  Tail(w)[i - 1] = w[i]
    <3>1. i - 1 \in 1 .. n - 1 /\ (i - 1) + 1 = i
      BY <2>3
    <3> QED  BY <3>1, <1>2
  <2>4. Len(w[j]) <= MaxPkt /\ (w[j] = <<>> => Len(w[i]) = MaxPkt)
    BY <2>1, <1>3
  <2> QED  BY <2>2, <2>3, <2>4, Zenon
<1>6. Packeted(Tail(w))
  BY <1>2, <1>5 DEF Packeted
<1>7. ASSUME Tail(w) # <<>>, Tail(w)[1] = <<>>
      PROVE  Len(w[1]) = MaxPkt
  <2>1. n - 1 \in Nat \ {0}
    BY <1>2, <1>7, EmptySeq
  <2>2. 2 \in 1 .. n /\ 1 \in 1 .. n - 1 /\ 1 + 1 = 2 /\ 2 - 1 = 1 /\ 2 > 1
    BY <2>1
  <2>3. w[2] = <<>>
    BY <2>2, <1>2, <1>7
  <2> QED  BY <2>2, <2>3, <1>3
<1> QED  BY <1>4, <1>6, <1>7

LEMMA PacketedConcat ==
  ASSUME NEW v \in Seq(Seq(Nat)), NEW w \in Seq(Seq(Nat)), Packeted(v), Packeted(w),
         w # <<>>, w[1] # <<>>
  PROVE  /\ Packeted(v \o w)
         /\ (v \o w)[1] = IF v = <<>> THEN w[1] ELSE v[1]
<1>1. PICK n \in Nat, m \in Nat : n = Len(v) /\ m = Len(w)
  BY LenProperties
<1>2. PICK u : u = v \o w
  OBVIOUS
<1>3. Len(u) = n + m /\ \A i \in 1 .. n + m : u[i] = IF i <= n THEN v[i] ELSE w[i - n]
  <2>1. /\ Len(v \o w) = Len(v) + Len(w)
        /\ \A i \in 1 .. Len(v) + Len(w) :
             (v \o w)[i] = IF i <= Len(v) THEN v[i] ELSE w[i - Len(v)]
    BY ConcatProperties
  <2> QED  BY <2>1, <1>1, <1>2
<1>4. /\ \A i \in 1 .. n :
           Len(v[i]) <= MaxPkt /\ (i > 1 /\ v[i] = <<>> => Len(v[i - 1]) = MaxPkt)
      /\ \A i \in 1 .. m :
           Len(w[i]) <= MaxPkt /\ (i > 1 /\ w[i] = <<>> => Len(w[i - 1]) = MaxPkt)
  BY <1>1 DEF Packeted
<1>5. ASSUME NEW i \in 1 .. n + m
      PROVE  Len(u[i]) <= MaxPkt /\ (i > 1 /\ u[i] = <<>> => Len(u[i - 1]) = MaxPkt)
  <2>1. CASE i <= n
    <3>1. i \in 1 .. n /\ u[i] = v[i]
      BY <2>1, <1>3
    <3>2. ASSUME i > 1
          PROVE  u[i - 1] = v[i - 1]
      <4>1. i - 1 \in 1 .. n + m /\ i - 1 <= n
        BY <3>2, <2>1
      <4> QED  BY <4>1, <1>3
    <3>3. Len(v[i]) <= MaxPkt /\ (i > 1 /\ v[i] = <<>> => Len(v[i - 1]) = MaxPkt)
      BY <3>1, <1>4
    <3> QED  BY <3>1, <3>2, <3>3, Zenon
  <2>2. CASE i > n
    <3>1. PICK j \in 1 .. m : j = i - n
      <4>1. i - n \in 1 .. m
        BY <2>2
      <4> QED  BY <4>1
    <3>2. u[i] = w[j]
      BY <2>2, <3>1, <1>3
    <3>3. CASE j = 1
      BY <3>2, <3>3, <1>4
    <3>4. CASE j > 1
      <4>1. u[i - 1] = w[j - 1]
        <5>1. i - 1 \in 1 .. n + m /\ ~(i - 1 <= n) /\ (i - 1) - n = j - 1
          BY <3>1, <3>4
        <5> QED  BY <5>1, <1>3
      <4>2. Len(w[j]) <= MaxPkt /\ (w[j] = <<>> => Len(w[j - 1]) = MaxPkt)
        BY <3>4, <1>4
      <4> QED  BY <3>2, <4>1, <4>2, Zenon
    <3> QED  BY <3>1, <3>3, <3>4
  <2> QED  BY <2>1, <2>2
<1>6. Packeted(u)
  BY <1>3, <1>5 DEF Packeted
<1>7. u[1] = IF v = <<>> THEN w[1] ELSE v[1]
  <2>1. m > 0
    BY <1>1, EmptySeq
  <2>2. CASE v = <<>>
    <3>1. n = 0
      BY <1>1, <2>2, EmptySeq
    <3>2. 1 \in 1 .. n + m /\ ~(1 <= n) /\ 1 - n = 1
      BY <2>1, <3>1
    <3> QED  BY <2>2, <3>2, <1>3
  <2>3. CASE v # <<>>
    <3>1. n > 0
      BY <1>1, <2>3, EmptySeq
    <3>2. 1 \in 1 .. n + m /\ 1 <= n
      BY <3>1
    <3> QED  BY <2>3, <3>2, <1>3
  <2> QED  BY <2>2, <2>3
<1> QED  BY <1>2, <1>6, <1>7

\* What becomes of a packet.
LEMMA PacketCases ==
  ASSUME TypeOK, UsbPacket
  PROVE  \/ /\ Head(wire) = <<>> /\ Swallows /\ expect_zlp' = FALSE
            /\ UNCHANGED <<hpc, buf, empty>>
         \/ hpc' = "failed" /\ UNCHANGED <<buf, empty>>
         \/ /\ ~(Head(wire) = <<>> /\ Swallows) /\ Len(buf \o Head(wire)) <= len
            /\ Len(Head(wire)) < MaxPkt \/ Len(buf \o Head(wire)) = len
            /\ Return(buf \o Head(wire))
         \/ /\ ~(Head(wire) = <<>> /\ Swallows) /\ Len(buf \o Head(wire)) <= len
            /\ ~(Len(Head(wire)) < MaxPkt) /\ Len(buf \o Head(wire)) # len
            /\ buf' = buf \o Head(wire) /\ UNCHANGED <<hpc, empty, expect_zlp>>
<1>1. Head(wire) \in Seq(Nat)
  BY HeadTailProperties DEF TypeOK, UsbPacket
<1>2. Len(buf \o Head(wire)) \in Nat /\ len \in Nat
  BY <1>1, ConcatProperties, LenProperties DEF TypeOK
<1>3. Len(buf \o Head(wire)) > len <=> ~(Len(buf \o Head(wire)) <= len)
  BY <1>2
<1> QED  BY <1>3, Zenon DEF UsbPacket

\* A packet that ends nothing is full.
LEMMA FullOrShort ==
  ASSUME TypeOK, ZlpInv, UsbPacket
  PROVE  /\ Head(wire) \in Seq(Nat) /\ Head(wire) = wire[1] /\ Len(Head(wire)) \in 0 .. MaxPkt
         /\ Packeted(wire')
         /\ wire' # <<>> /\ wire'[1] = <<>> => Len(Head(wire)) = MaxPkt
         /\ Len(Head(wire)) = MaxPkt =>
              /\ Len(buf \o Head(wire)) > 0 /\ buf \o Head(wire) # <<>>
              /\ Len(buf \o Head(wire)) % MaxPkt = 0
<1>1. wire \in Seq(Seq(Nat)) /\ wire # <<>> /\ Usb /\ hpc = "in" /\ wire' = Tail(wire)
  BY DEF TypeOK, UsbPacket
<1>2. Packeted(wire) /\ Len(buf) % MaxPkt = 0
  BY <1>1 DEF ZlpInv
<1>3. Head(wire) = wire[1]
  BY <1>1
<1>4. /\ Packeted(Tail(wire)) /\ wire[1] \in Seq(Nat) /\ Len(wire[1]) <= MaxPkt
      /\ Tail(wire) # <<>> /\ Tail(wire)[1] = <<>> => Len(wire[1]) = MaxPkt
  BY <1>1, <1>2, PacketedTail
<1>5. Len(wire[1]) \in Nat /\ Len(buf) \in Nat /\ MaxPkt \in Nat \ {0}
  BY <1>4, Constants, LenProperties DEF TypeOK
<1>6. ASSUME Len(wire[1]) = MaxPkt
      PROVE  /\ Len(buf \o wire[1]) > 0 /\ buf \o wire[1] # <<>>
             /\ Len(buf \o wire[1]) % MaxPkt = 0
  <2>1. Len(buf \o wire[1]) = Len(buf) + MaxPkt /\ buf \o wire[1] \in Seq(Nat)
    BY <1>4, <1>6, ConcatProperties DEF TypeOK
  <2>2. (Len(buf) + MaxPkt) % MaxPkt = MaxPkt % MaxPkt
    BY <1>2, <1>5, ModAdd
  <2>3. MaxPkt % MaxPkt = 0
    BY <1>5, ModSelf
  <2>4. Len(buf \o wire[1]) # 0
    BY <2>1, <1>5
  <2>5. buf \o wire[1] # <<>>
    <3>1. Len(<<>>) = 0
      BY EmptySeq
    <3> QED  BY <3>1, <2>4, Zenon
  <2> QED  BY <2>1, <2>2, <2>3, <2>5, <1>5
<1>7. Len(wire[1]) \in 0 .. MaxPkt
  BY <1>4, <1>5
<1> QED  BY <1>1, <1>3, <1>4, <1>6, <1>7, Zenon

LEMMA ZlpPacket ==
  ASSUME TypeOK, ZlpInv, UsbPacket
  PROVE  ZlpInv'
<1> USE DEF fixed, inVars, outVars
<1> DEFINE pkt == Head(wire)
<1>1. /\ pkt \in Seq(Nat) /\ pkt = wire[1] /\ Len(pkt) \in 0 .. MaxPkt
      /\ Packeted(wire')
      /\ wire' # <<>> /\ wire'[1] = <<>> => Len(pkt) = MaxPkt
      /\ Len(pkt) = MaxPkt =>
           /\ Len(buf \o pkt) > 0 /\ buf \o pkt # <<>> /\ Len(buf \o pkt) % MaxPkt = 0
  BY FullOrShort
<1>2. /\ hpc = "in" /\ Usb /\ wire # <<>>
      /\ UNCHANGED <<fixed, out_chunk_size, sent, msgs, mode, len, pending, lost, got, outVars,
                     cut, race>>
  BY DEF UsbPacket
<1>3. Usb'
  BY <1>2 DEF Usb
<1>4. MaxPkt \in Nat \ {0} /\ len > 0 /\ Len(buf) % MaxPkt = 0
  BY <1>2, Constants DEF ZlpInv
<1>5. cut = 0 => EmptyKnown
  BY <1>2 DEF ZlpInv
<1>6. \/ pkt = <<>> /\ Swallows /\ expect_zlp' = FALSE /\ UNCHANGED <<hpc, buf, empty>>
      \/ hpc' = "failed" /\ UNCHANGED <<buf, empty>>
      \/ /\ ~(pkt = <<>> /\ Swallows) /\ Len(buf \o pkt) <= len
         /\ Len(pkt) < MaxPkt \/ Len(buf \o pkt) = len
         /\ Return(buf \o pkt)
      \/ /\ ~(pkt = <<>> /\ Swallows) /\ Len(buf \o pkt) <= len
         /\ ~(Len(pkt) < MaxPkt) /\ Len(buf \o pkt) # len
         /\ buf' = buf \o pkt /\ UNCHANGED <<hpc, empty, expect_zlp>>
  BY PacketCases
<1> HIDE DEF pkt
<1>7. CASE pkt = <<>> /\ Swallows /\ expect_zlp' = FALSE /\ UNCHANGED <<hpc, buf, empty>>
  <2>1. Len(pkt) # MaxPkt
    <3>1. Len(pkt) = 0
      BY <1>7, EmptySeq
    <3> QED  BY <3>1, <1>4
  <2>2. EmptyKnown'
    BY <2>1, <1>1 DEF EmptyKnown
  <2>3. Len(buf') % MaxPkt = 0 /\ hpc' = "in" /\ len' > 0
    BY <1>2, <1>4, <1>7
  <2> QED  BY <2>2, <2>3, <1>1 DEF ZlpInv, NoPhantom
<1>8. CASE hpc' = "failed" /\ UNCHANGED <<buf, empty>>
  BY <1>1, <1>8 DEF ZlpInv, NoPhantom
<1>9. CASE /\ ~(pkt = <<>> /\ Swallows) /\ Len(buf \o pkt) <= len
           /\ Len(pkt) < MaxPkt \/ Len(buf \o pkt) = len
           /\ Return(buf \o pkt)
  <2>1. hpc' = "give" /\ empty' = (buf \o pkt = <<>>)
        /\ expect_zlp' = (Usb /\ MayBeFollowed(buf \o pkt))
    BY <1>9 DEF Return
  <2>2. EmptyKnown'
    <3>1. SUFFICES ASSUME wire' # <<>>, wire'[1] = <<>>
                   PROVE  expect_zlp'
      BY DEF EmptyKnown
    <3>2. Len(pkt) = MaxPkt
      BY <3>1, <1>1
    <3>3. ~(Len(pkt) < MaxPkt)
      BY <3>2, <1>4
    <3>4. Len(buf \o pkt) = len
      BY <3>3, <1>9
    <3>5. MayBeFollowed(buf \o pkt)
      BY <3>2, <3>4, <1>1 DEF MayBeFollowed
    <3> QED  BY <3>5, <2>1, <1>2
  <2>3. ASSUME cut = 0
        PROVE  ~empty'
    <3>1. SUFFICES ASSUME buf \o pkt = <<>> PROVE FALSE
      BY <2>1
    <3>2. buf = <<>> /\ pkt = <<>>
      BY <3>1, <1>1, ConcatEqualIffEmpty DEF TypeOK
    <3>3. expect_zlp
      BY <2>3, <3>2, <1>1, <1>2, <1>5 DEF EmptyKnown
    <3> QED  BY <3>2, <3>3, <1>9 DEF Swallows
  <2>4. cut' = cut
    BY <1>2
  <2> QED  BY <2>1, <2>2, <2>3, <2>4, <1>1 DEF ZlpInv, NoPhantom
<1>10. CASE /\ ~(pkt = <<>> /\ Swallows) /\ Len(buf \o pkt) <= len
            /\ ~(Len(pkt) < MaxPkt) /\ Len(buf \o pkt) # len
            /\ buf' = buf \o pkt /\ UNCHANGED <<hpc, empty, expect_zlp>>
  <2>1. Len(pkt) = MaxPkt
    BY <1>1, <1>4, <1>10
  <2>2. hpc' = "in" /\ buf' # <<>> /\ Len(buf') % MaxPkt = 0 /\ len' > 0
    BY <2>1, <1>1, <1>2, <1>4, <1>10
  <2>3. EmptyKnown'
    BY <2>2 DEF EmptyKnown
  <2> QED  BY <2>2, <2>3, <1>1 DEF ZlpInv, NoPhantom
<1> QED  BY <1>6, <1>7, <1>8, <1>9, <1>10, Zenon

LEMMA ZlpStep == TypeOK /\ ZlpInv /\ [Next]_vars => ZlpInv'
<1> SUFFICES ASSUME TypeOK, ZlpInv, [Next]_vars PROVE ZlpInv'
  OBVIOUS
<1> USE DEF fixed, inVars, outVars
<1>1. CASE Open
  <2>1. hpc = "open" /\ hpc' = "idle" /\ UNCHANGED <<fixed, inVars, outVars, cut, race>>
    BY <1>1 DEF Open
  <2> QED  BY <2>1 DEF ZlpInv, EmptyKnown, NoPhantom, Usb
<1>2. CASE ReadPending
  <2>1. PICK mn \in {<<"xml", XmlLen>>} \cup ({"raw"} \X RawLens) : Begin(mn[1], mn[2])
    BY <1>2 DEF ReadPending
  <2>2. hpc = "idle" /\ UNCHANGED <<fixed, wire>>
    BY <2>1 DEF Begin, Idle
  <2>3. hpc' = "give" /\ empty' = FALSE /\ UNCHANGED <<expect_zlp, cut>>
    BY <1>2 DEF ReadPending
  <2> QED  BY <2>2, <2>3 DEF ZlpInv, EmptyKnown, NoPhantom, Usb
<1>3. CASE ReadDevice
  <2>1. PICK mn \in {<<"xml", XmlLen>>} \cup ({"raw"} \X RawLens) : Begin(mn[1], mn[2])
    BY <1>3 DEF ReadDevice
  <2>2. hpc = "idle" /\ UNCHANGED <<fixed, wire>> /\ len' = mn[2]
    BY <2>1 DEF Begin, Idle
  <2>3. hpc' = "in" /\ buf' = <<>> /\ UNCHANGED <<expect_zlp, cut>>
    BY <1>3 DEF ReadDevice
  <2>4. len' > 0
    <3>1. mn[2] \in Nat \ {0}
      BY Kinds
    <3> QED  BY <3>1, <2>2
  <2>5. Len(buf') % MaxPkt = 0
    <3>1. Len(buf') = 0
      BY <2>3, EmptySeq
    <3>2. 0 % MaxPkt = 0
      BY Constants, ModSelf
    <3> QED  BY <3>1, <3>2
  <2>6. Usb /\ cut' = 0 => EmptyKnown'
    BY <2>2, <2>3 DEF ZlpInv, EmptyKnown
  <2>7. Usb' => Packeted(wire')
    BY <2>2 DEF ZlpInv, Usb, Packeted
  <2>8. Usb' <=> Usb
    BY <2>2 DEF Usb
  <2> QED  BY <2>3, <2>4, <2>5, <2>6, <2>7, <2>8 DEF ZlpInv, NoPhantom
<1>4. CASE UsbPacket
  BY <1>4, ZlpPacket
<1>5. CASE UsbTimeout
  <2>1. /\ hpc = "in" /\ Usb
        /\ UNCHANGED <<fixed, wire, len>>
    BY <1>5 DEF UsbTimeout
  <2>2. Usb' /\ Packeted(wire')
    BY <2>1 DEF ZlpInv, Usb, Packeted
  <2>3. CASE buf = <<>>
    <3>1. hpc' = "idle" /\ UNCHANGED <<buf, empty, expect_zlp, cut>>
      BY <1>5, <2>3 DEF UsbTimeout, NothingCame
    <3>2. cut = 0 => EmptyKnown
      BY <2>1 DEF ZlpInv
    <3>3. EmptyKnown => EmptyKnown'
      BY <2>1, <2>3, <3>1 DEF EmptyKnown
    <3> QED  BY <2>2, <3>1, <3>2, <3>3 DEF ZlpInv, NoPhantom
  <2>4. CASE buf # <<>>
    <3>1. hpc' = "give" /\ empty' = (buf = <<>>)
      BY <1>5, <2>4 DEF UsbTimeout, Return
    <3>2. ~empty'
      BY <2>4, <3>1
    <3>3. cut' = 0 => wire' = <<>>
      <4>1. CASE wire = <<>>
        BY <2>1, <4>1
      <4>2. CASE wire # <<>>
        <5>1. cut' = cut + 1
          BY <1>5, <2>4, <4>2 DEF UsbTimeout
        <5>2. cut' # 0
          BY <5>1 DEF TypeOK
        <5> QED  BY <5>2
      <4> QED  BY <4>1, <4>2
    <3>4. cut' = 0 => EmptyKnown'
      BY <3>3 DEF EmptyKnown
    <3> QED  BY <2>2, <3>1, <3>2, <3>4 DEF ZlpInv, NoPhantom
  <2> QED  BY <2>3, <2>4
<1>6. CASE QudRead
  <2>1. PICK n \in 1 .. Low(len, Len(Stream)) : Return(SubSeq(Stream, 1, n))
    BY <1>6 DEF QudRead
  <2>2. ~Usb /\ ~Usb'
    BY <1>6 DEF QudRead, Usb
  <2>3. Stream \in Seq(Nat) /\ n \in Nat \ {0} /\ n <= Len(Stream)
    <3>1. Stream \in Seq(Nat) /\ Len(Stream) \in Nat /\ len \in Nat
      BY StreamRight, LenProperties DEF TypeOK
    <3>2. Low(len, Len(Stream)) \in Nat /\ Low(len, Len(Stream)) <= Len(Stream)
      BY <3>1, LowOf
    <3> QED  BY <3>1, <3>2
  <2>4. SubSeq(Stream, 1, n) # <<>>
    <3>1. Len(SubSeq(Stream, 1, n)) = IF 1 <= n THEN n - 1 + 1 ELSE 0
      BY <2>3, PartOf
    <3>2. Len(SubSeq(Stream, 1, n)) # 0
      BY <3>1, <2>3
    <3>3. Len(<<>>) = 0
      BY EmptySeq
    <3> QED  BY <3>2, <3>3, Zenon
  <2>5. hpc' = "give" /\ ~empty'
    BY <2>1, <2>4 DEF Return
  <2> QED  BY <2>2, <2>5 DEF ZlpInv, NoPhantom
<1>7. CASE QudTimeout
  <2>1. ~Usb' /\ hpc' = "idle"
    BY <1>7 DEF QudTimeout, Usb
  <2> QED  BY <2>1 DEF ZlpInv, NoPhantom
<1>8. CASE Give
  <2>1. /\ hpc = "give" /\ hpc' = "idle"
        /\ UNCHANGED <<fixed, wire, expect_zlp, cut>>
    BY <1>8 DEF Give
  <2> QED  BY <2>1 DEF ZlpInv, EmptyKnown, NoPhantom, Usb, Packeted
<1>9. CASE StartWrite
  <2>1. hpc = "idle" /\ hpc' = "out" /\ UNCHANGED <<fixed, inVars, cut, race>>
    BY <1>9 DEF StartWrite, Idle
  <2> QED  BY <2>1 DEF ZlpInv, EmptyKnown, NoPhantom, Usb, Packeted
<1>10. CASE QudWrite
  <2>1. ~Usb' /\ hpc' = "idle"
    BY <1>10 DEF QudWrite, WriteDone, Usb
  <2> QED  BY <2>1 DEF ZlpInv, NoPhantom
<1>11. CASE UsbWrite
  <2>1. hpc = "out" /\ hpc' \in {"out", "failed"} /\ UNCHANGED <<fixed, inVars>>
    BY <1>11 DEF UsbWrite
  <2>2. cut' \in {cut, cut + 1}
    BY <1>11 DEF UsbWrite
  <2>3. cut' = 0 => cut = 0
    BY <2>2 DEF TypeOK
  <2> QED  BY <2>1, <2>3 DEF ZlpInv, EmptyKnown, NoPhantom, Usb, Packeted
<1>12. CASE UsbWriteEnd
  <2>1. hpc = "out" /\ hpc' = "idle" /\ UNCHANGED <<fixed, inVars, cut, race>>
    BY <1>12 DEF UsbWriteEnd, WriteDone
  <2> QED  BY <2>1 DEF ZlpInv, EmptyKnown, NoPhantom, Usb, Packeted
<1>13. CASE DevSend
  <2>1. PICK n \in MsgLens :
          wire' = IF Usb THEN wire \o Packets(n) ELSE <<Stream \o Fresh(n)>>
    BY <1>13 DEF DevSend
  <2>2. n \in Nat \ {0} /\ MaxPkt \in Nat \ {0} /\ sent \in Seq(Nat)
    BY Constants DEF TypeOK
  <2>3. UNCHANGED <<fixed, hpc, len, buf, expect_zlp, empty, cut>>
    BY <1>13 DEF DevSend
  <2>4. CASE Usb
    <3>1. PICK p : p = Packets(n) /\ wire' = wire \o p
      BY <2>1, <2>4
    <3>2. p \in Seq(Seq(Nat)) /\ p # <<>> /\ p[1] # <<>> /\ Packeted(p)
      BY <2>2, <3>1, PacketsRight
    <3>3. wire \in Seq(Seq(Nat)) /\ Packeted(wire)
      BY <2>4 DEF TypeOK, ZlpInv
    <3>4. /\ Packeted(wire \o p)
          /\ (wire \o p)[1] = IF wire = <<>> THEN p[1] ELSE wire[1]
      BY <3>2, <3>3, PacketedConcat
    <3>5. EmptyKnown => EmptyKnown'
      BY <2>3, <3>1, <3>2, <3>4 DEF EmptyKnown
    <3>6. Packeted(wire')
      BY <3>1, <3>4
    <3> QED  BY <2>3, <2>4, <3>5, <3>6 DEF ZlpInv, NoPhantom
  <2>5. CASE ~Usb
    <3>1. ~Usb'
      BY <2>3, <2>5 DEF Usb
    <3> QED  BY <2>3, <3>1 DEF ZlpInv, NoPhantom
  <2> QED  BY <2>4, <2>5
<1>14. CASE UNCHANGED vars
  BY <1>14 DEF ZlpInv, EmptyKnown, NoPhantom, Usb, Packeted, vars
<1> QED  BY <1>1, <1>2, <1>3, <1>4, <1>5, <1>6, <1>7, <1>8, <1>9, <1>10, <1>11, <1>12, <1>13,
            <1>14 DEF Next, Reads, Writes

-----------------------------------------------------------------------------
(* What is pushed back goes behind nothing.                                *)

LEMMA BufPacket ==
  ASSUME TypeOK, BufInv, UsbPacket
  PROVE  BufInv'
<1> DEFINE b == buf \o Head(wire)
<1>1. /\ hpc = "in" /\ Usb /\ wire' = Tail(wire)
      /\ UNCHANGED <<fixed, mode, len, pending>>
  BY DEF UsbPacket
<1>2. Usb'
  BY <1>1 DEF Usb, fixed
<1>3. /\ pending = <<>> /\ Len(buf) <= len /\ Len(pending) <= XmlLen
      /\ mode = "xml" => len = XmlLen
  BY <1>1 DEF BufInv
<1>4. \/ hpc' = "in" /\ buf' = buf
      \/ hpc' = "failed"
      \/ hpc' = "give" /\ buf' = b /\ Len(b) <= len
      \/ hpc' = "in" /\ buf' = b /\ Len(b) <= len
  BY <1>1, PacketCases DEF Return
<1> HIDE DEF b
<1> QED  BY <1>1, <1>2, <1>3, <1>4 DEF BufInv

LEMMA BufStep == TypeOK /\ BufInv /\ [Next]_vars => BufInv'
<1> SUFFICES ASSUME TypeOK, BufInv, [Next]_vars PROVE BufInv'
  OBVIOUS
<1> USE DEF fixed, inVars, outVars
<1>1. CASE Open
  BY <1>1 DEF BufInv, Open, Usb
<1>2. CASE ReadPending
  <2>1. PICK mn \in {<<"xml", XmlLen>>} \cup ({"raw"} \X RawLens) :
          /\ Begin(mn[1], mn[2])
          /\ buf' = SubSeq(pending, 1, Low(mn[2], Len(pending)))
          /\ pending' = SubSeq(pending, mn[2] + 1, Len(pending))
    BY <1>2 DEF ReadPending
  <2>2. mn[1] \in {"xml", "raw"} /\ mn[2] \in Nat \ {0} /\ (mn[1] = "xml" => mn[2] = XmlLen)
    BY Kinds
  <2>3. pending \in Seq(Nat) /\ Len(pending) \in Nat /\ Len(pending) <= XmlLen /\ XmlLen \in Nat
    BY Constants, LenProperties DEF TypeOK, BufInv
  <2>4. PICK k \in Nat, m \in Nat \ {0} :
          /\ k = Low(mn[2], Len(pending)) /\ k <= Len(pending) /\ m = mn[2] + 1
    <3>1. Low(mn[2], Len(pending)) \in Nat /\ Low(mn[2], Len(pending)) <= Len(pending)
      BY <2>2, <2>3, LowOf
    <3>2. mn[2] + 1 \in Nat \ {0}
      BY <2>2
    <3> QED  BY <3>1, <3>2
  <2>5. Len(buf') <= XmlLen
    <3>1. Len(SubSeq(pending, 1, k)) = IF 1 <= k THEN k - 1 + 1 ELSE 0
      BY <2>3, <2>4, PartOf
    <3>2. Len(SubSeq(pending, 1, k)) = k
      BY <3>1
    <3>3. buf' = SubSeq(pending, 1, k)
      BY <2>1, <2>4
    <3> QED  BY <2>3, <2>4, <3>2, <3>3
  <2>6. pending' = SubSeq(pending, m, Len(pending))
    BY <2>1, <2>4
  <2>7. Len(pending') <= XmlLen
    <3>1. Len(SubSeq(pending, m, Len(pending)))
            = IF m <= Len(pending) THEN Len(pending) - m + 1 ELSE 0
      BY <2>3, PartOf
    <3> QED  BY <2>3, <2>6, <3>1
  <2>8. mode' = "xml" => pending' = <<>>
    <3>1. SUFFICES ASSUME mode' = "xml" PROVE pending' = <<>>
      OBVIOUS
    <3>2. mn[2] = XmlLen
      BY <2>1, <2>2, <3>1 DEF Begin
    <3>3. Len(pending) < m
      BY <2>3, <2>4, <3>2
    <3> QED  BY <2>3, <2>6, <3>3, SubSeqEmpty
  <2>9. hpc' = "give" /\ UNCHANGED <<fixed, wire>>
    BY <1>2, <2>1 DEF ReadPending, Begin
  <2>10. ~Usb' => Len(wire') <= 1
    BY <2>9 DEF BufInv, Usb
  <2> QED  BY <2>5, <2>7, <2>8, <2>9, <2>10 DEF BufInv
<1>3. CASE ReadDevice
  <2>1. PICK mn \in {<<"xml", XmlLen>>} \cup ({"raw"} \X RawLens) : Begin(mn[1], mn[2])
    BY <1>3 DEF ReadDevice
  <2>2. mn[1] \in {"xml", "raw"} /\ mn[2] \in Nat \ {0} /\ (mn[1] = "xml" => mn[2] = XmlLen)
    BY Kinds
  <2>3. UNCHANGED <<fixed, wire>> /\ mode' = mn[1] /\ len' = mn[2]
    BY <2>1 DEF Begin
  <2>4. hpc' = "in" /\ buf' = <<>> /\ pending = <<>> /\ UNCHANGED pending
    BY <1>3 DEF ReadDevice
  <2>5. Len(buf') = 0 /\ Len(buf') <= len'
    <3>1. Len(buf') = 0
      BY <2>4, EmptySeq
    <3> QED  BY <3>1, <2>2, <2>3
  <2> QED  BY <2>2, <2>3, <2>4, <2>5 DEF BufInv, Usb
<1>4. CASE UsbPacket
  BY <1>4, BufPacket
<1>5. CASE UsbTimeout
  <2>1. /\ hpc = "in" /\ buf' = buf /\ hpc' \in {"idle", "give"} /\ Usb
        /\ UNCHANGED <<fixed, wire, mode, len, pending>>
    BY <1>5 DEF UsbTimeout, Return, NothingCame
  <2> QED  BY <2>1 DEF BufInv, Usb
<1>6. CASE QudRead
  <2>1. PICK n \in 1 .. Low(len, Len(Stream)) :
          /\ wire' = <<SubSeq(Stream, n + 1, Len(Stream))>>
          /\ Return(SubSeq(Stream, 1, n))
    BY <1>6 DEF QudRead
  <2>2. /\ Stream \in Seq(Nat) /\ n \in Nat \ {0} /\ n <= Len(Stream) /\ n <= len
        /\ len \in Nat
    <3>1. Stream \in Seq(Nat) /\ Len(Stream) \in Nat /\ len \in Nat
      BY StreamRight, LenProperties DEF TypeOK
    <3>2. /\ Low(len, Len(Stream)) \in Nat /\ Low(len, Len(Stream)) <= Len(Stream)
          /\ Low(len, Len(Stream)) <= len
      BY <3>1, LowOf
    <3> QED  BY <3>1, <3>2
  <2>3. Len(SubSeq(Stream, 1, n)) <= len
    <3>1. Len(SubSeq(Stream, 1, n)) = IF 1 <= n THEN n - 1 + 1 ELSE 0
      BY <2>2, PartOf
    <3> QED  BY <2>2, <3>1
  <2>4. hpc' = "give" /\ Len(buf') <= len
    BY <2>1, <2>3 DEF Return
  <2>5. /\ hpc = "in"
        /\ UNCHANGED <<fixed, mode, len, pending>>
    BY <1>6 DEF QudRead
  <2>6. Len(wire') = 1 /\ Len(wire') <= 1
    BY <2>1
  <2>7. pending = <<>> /\ Len(pending) <= XmlLen /\ (mode = "xml" => len = XmlLen)
    BY <2>5 DEF BufInv
  <2> QED  BY <2>4, <2>5, <2>6, <2>7 DEF BufInv
<1>7. CASE QudTimeout
  <2>1. /\ hpc' = "idle" /\ ~Usb /\ UNCHANGED <<fixed, pending>>
    BY <1>7 DEF QudTimeout
  <2>2. Len(wire') <= 1
    <3>1. CASE wire' = wire
      BY <2>1, <3>1 DEF BufInv
    <3>2. CASE wire' = <<SubSeq(Stream, Low(len, Len(Stream)) + 1, Len(Stream))>>
      <4>1. Len(wire') = 1
        BY <3>2
      <4> QED  BY <4>1
    <3> QED  BY <1>7, <3>1, <3>2 DEF QudTimeout
  <2> QED  BY <2>1, <2>2 DEF BufInv
<1>8. CASE Give
  <2>1. PICK n \in 0 .. Len(buf) :
          /\ n < Len(buf) => mode = "xml" /\ n > 0
          /\ pending' = IF n < Len(buf) THEN PushedBack(SubSeq(buf, n + 1, Len(buf)))
                        ELSE pending
    BY <1>8 DEF Give
  <2>2. hpc = "give" /\ hpc' = "idle" /\ UNCHANGED <<fixed, wire>>
    BY <1>8 DEF Give
  <2>3. Len(pending') <= XmlLen
    <3>1. CASE n < Len(buf)
      <4>1. mode = "xml" /\ pending = <<>> /\ Len(buf) <= XmlLen
        BY <2>1, <2>2, <3>1 DEF BufInv
      <4>2. Len(buf) \in Nat /\ buf \in Seq(Nat) /\ XmlLen \in Nat
        BY Constants, LenProperties DEF TypeOK
      <4>3. PICK m \in Nat \ {0} : m = n + 1
        BY <4>2
      <4>4. SubSeq(buf, m, Len(buf)) \in Seq(Nat)
            /\ Len(SubSeq(buf, m, Len(buf))) = IF m <= Len(buf) THEN Len(buf) - m + 1 ELSE 0
        BY <4>2, PartOf
      <4>5. pending' = SubSeq(buf, m, Len(buf))
        BY <2>1, <3>1, <4>1, <4>3, <4>4, ConcatEmptySeq DEF PushedBack
      <4> QED  BY <4>1, <4>2, <4>4, <4>5
    <3>2. CASE ~(n < Len(buf))
      BY <2>1, <3>2 DEF BufInv
    <3> QED  BY <3>1, <3>2
  <2> QED  BY <2>2, <2>3 DEF BufInv, Usb
<1>9. CASE StartWrite \/ QudWrite \/ UsbWrite \/ UsbWriteEnd
  <2>1. UNCHANGED <<fixed, inVars>> /\ hpc' \in {"out", "idle", "failed"}
    BY <1>9 DEF StartWrite, QudWrite, UsbWrite, UsbWriteEnd, WriteDone
  <2> QED  BY <2>1 DEF BufInv, Usb
<1>10. CASE DevSend
  <2>1. PICK n \in MsgLens :
          wire' = IF Usb THEN wire \o Packets(n) ELSE <<Stream \o Fresh(n)>>
    BY <1>10 DEF DevSend
  <2>2. UNCHANGED <<fixed, hpc, mode, len, buf, pending>>
    BY <1>10 DEF DevSend
  <2>3. ~Usb => Len(wire') = 1 /\ Len(wire') <= 1
    BY <2>1
  <2>4. Usb' <=> Usb
    BY <2>2 DEF Usb
  <2> QED  BY <2>2, <2>3, <2>4 DEF BufInv
<1>11. CASE UNCHANGED vars
  BY <1>11 DEF BufInv, Usb, vars
<1> QED  BY <1>1, <1>2, <1>3, <1>4, <1>5, <1>6, <1>7, <1>8, <1>9, <1>10, <1>11
         DEF Next, Reads, Writes

-----------------------------------------------------------------------------
(* The bytes are read in order.                                            *)

LEMMA StreamNow ==
  ASSUME TypeOK', NEW h \in Nat, NEW x, NEW y, x = Len(Held'), y = Len(pending'),
         Run(sent', 0), h <= Len(sent'), Delivered(got', lost', h),
         hpc' # "failed" =>
           Run(Held', h) /\ Run(pending', h + x) /\ Chain(wire', (h + x) + y, Len(sent'))
  PROVE  StreamInv'
<1>1. h \in 0 .. Len(sent')
  BY LenProperties DEF TypeOK
<1>2. hpc' # "failed" => Follows(h)'
  BY DEF Follows
<1> QED  BY <1>1, <1>2 DEF StreamInv

LEMMA StreamKept ==
  ASSUME StreamInv, UNCHANGED <<sent, got, lost>>,
         hpc' # "failed" => hpc # "failed" /\ Held' = Held /\ UNCHANGED <<wire, pending>>
  PROVE  StreamInv'
<1>1. PICK h \in 0 .. Len(sent) : Delivered(got, lost, h) /\ (hpc # "failed" => Follows(h))
  BY DEF StreamInv
<1>2. Delivered(got', lost', h) /\ Run(sent', 0) /\ h \in 0 .. Len(sent')
  BY <1>1 DEF StreamInv
<1>3. hpc' # "failed" => Follows(h)'
  BY <1>1 DEF Follows
<1> QED  BY <1>2, <1>3 DEF StreamInv

\* What is known of the stream, in numbers.
LEMMA StreamFacts ==
  ASSUME TypeOK, StreamInv
  PROVE  \E h \in Nat, x \in Nat, y \in Nat, n \in Nat :
           /\ x = Len(Held) /\ y = Len(pending) /\ n = Len(sent)
           /\ Run(sent, 0) /\ h <= n /\ Delivered(got, lost, h)
           /\ hpc # "failed" =>
                Run(Held, h) /\ Run(pending, h + x) /\ Chain(wire, (h + x) + y, n)
<1>1. PICK h \in 0 .. Len(sent) : Delivered(got, lost, h) /\ (hpc # "failed" => Follows(h))
  BY DEF StreamInv
<1>2. Len(sent) \in Nat /\ Len(pending) \in Nat
  BY LenProperties DEF TypeOK
<1>3. Len(Held) \in Nat
  <2>1. Held \in Seq(Nat)
    BY EmptySeq DEF TypeOK, Held
  <2> QED  BY <2>1, LenProperties
<1>4. Run(sent, 0)
  BY DEF StreamInv
<1>5. PICK x \in Nat, y \in Nat, n \in Nat :
        x = Len(Held) /\ y = Len(pending) /\ n = Len(sent)
  BY <1>2, <1>3
<1>6. h \in Nat /\ h <= n
  BY <1>5
<1>7. hpc # "failed" => Run(Held, h) /\ Run(pending, h + x) /\ Chain(wire, (h + x) + y, n)
  BY <1>1, <1>5 DEF Follows
<1> QED  BY <1>1, <1>4, <1>5, <1>6, <1>7

\* On QUD the bytes on their way are one run.
LEMMA OneRun ==
  ASSUME TypeOK, Len(wire) <= 1, NEW a \in Nat, NEW b \in Nat, Chain(wire, a, b)
  PROVE  Stream \in Seq(Nat) /\ Run(Stream, a) /\ b = a + Len(Stream)
<1>1. wire \in Seq(Seq(Nat))
  BY DEF TypeOK
<1>2. CASE wire = <<>>
  <2>1. b = a
    BY <1>2, ChainEmpty
  <2>2. Stream = <<>> /\ Len(<<>>) = 0 /\ <<>> \in Seq(Nat)
    BY <1>2, EmptySeq DEF Stream
  <2>3. Run(<<>>, a)
    BY RunEmpty
  <2> QED  BY <2>1, <2>2, <2>3
<1>3. CASE wire # <<>>
  <2>1. Stream = wire[1]
    BY <1>3 DEF Stream
  <2>2. Run(wire[1], a) /\ wire[1] \in Seq(Nat) /\ a + Len(wire[1]) \in Nat
        /\ Chain(Tail(wire), a + Len(wire[1]), b)
    BY <1>1, <1>3, ChainTail
  <2>3. Tail(wire) = <<>>
    <3>1. Tail(wire) \in Seq(Seq(Nat)) /\ Len(Tail(wire)) = Len(wire) - 1
      BY <1>1, <1>3, HeadTailProperties
    <3>2. Len(wire) \in Nat
      BY <1>1, LenProperties
    <3>3. ~(Len(Tail(wire)) \in Nat \ {0})
      BY <3>1, <3>2
    <3> QED  BY <3>1, <3>3, EmptySeq
  <2>4. b = a + Len(wire[1])
    <3>1. PICK c \in Nat : c = a + Len(wire[1]) /\ Chain(<<>>, c, b)
      BY <2>2, <2>3
    <3> QED  BY <3>1, ChainEmpty
  <2> QED  BY <2>1, <2>2, <2>4
<1> QED  BY <1>2, <1>3

\* The bytes behind the first k.
LEMMA RestRun ==
  ASSUME NEW s \in Seq(Nat), NEW a \in Nat, NEW b \in Nat, Run(s, a), b = a + Len(s),
         NEW k \in 0 .. Len(s)
  PROVE  Chain(<<SubSeq(s, k + 1, Len(s))>>, a + k, b)
<1>1. /\ SubSeq(s, k + 1, Len(s)) \in Seq(Nat)
      /\ Len(SubSeq(s, k + 1, Len(s))) = Len(s) - k /\ Run(SubSeq(s, k + 1, Len(s)), a + k)
  BY RunSplit
<1>2. PICK t : t = SubSeq(s, k + 1, Len(s))
  OBVIOUS
<1>3. Len(s) \in Nat
  BY LenProperties
<1>4. PICK c \in Nat : c = a + k
  BY <1>3
<1>5. c + Len(t) = b
  <2>1. Len(t) = Len(s) - k
    BY <1>1, <1>2
  <2> QED  BY <2>1, <1>3, <1>4
<1>6. Chain(<<t>>, c, c + Len(t))
  BY <1>1, <1>2, <1>4, ChainOne
<1> QED  BY <1>2, <1>4, <1>5, <1>6

LEMMA StreamPending ==
  ASSUME TypeOK, TypeOK', StreamInv, ReadPending
  PROVE  StreamInv'
<1>1. PICK mn \in {<<"xml", XmlLen>>} \cup ({"raw"} \X RawLens) :
        /\ Begin(mn[1], mn[2])
        /\ buf' = SubSeq(pending, 1, Low(mn[2], Len(pending)))
        /\ pending' = SubSeq(pending, mn[2] + 1, Len(pending))
  BY DEF ReadPending
<1>2. /\ hpc = "idle" /\ hpc' = "give"
      /\ UNCHANGED <<sent, wire, got, lost>>
  BY <1>1 DEF ReadPending, Begin, Idle
<1>3. PICK h \in Nat, x \in Nat, y \in Nat, n \in Nat :
        /\ x = Len(Held) /\ y = Len(pending) /\ n = Len(sent)
        /\ Run(sent, 0) /\ h <= n /\ Delivered(got, lost, h)
        /\ hpc # "failed" =>
             Run(Held, h) /\ Run(pending, h + x) /\ Chain(wire, (h + x) + y, n)
  BY StreamFacts
<1>4. x = 0 /\ Held' = buf'
  BY <1>2, <1>3, EmptySeq DEF Held
<1>5. Run(pending, h) /\ Chain(wire, h + y, n) /\ pending \in Seq(Nat)
  <2>1. h + x = h /\ (h + x) + y = h + y
    BY <1>4
  <2> QED  BY <2>1, <1>2, <1>3 DEF TypeOK
<1>6. PICK m \in Nat \ {0}, k \in 0 .. Len(pending) :
        m = mn[2] /\ k = Low(m, Len(pending)) /\ k \in {m, y}
  <2>1. PICK m \in Nat \ {0} : m = mn[2]
    BY Kinds
  <2>2. Low(m, y) \in Nat /\ Low(m, y) <= y /\ Low(m, y) \in {m, y}
    BY LowOf
  <2>3. Low(m, y) \in 0 .. y
    BY <2>2
  <2> QED  BY <2>1, <2>2, <2>3, <1>3
<1>7. pending' = SubSeq(pending, k + 1, Len(pending))
  <2>1. CASE k = m
    BY <2>1, <1>1, <1>6
  <2>2. CASE k # m
    <3>1. k = y /\ k < m
      BY <2>2, <1>3, <1>6 DEF Low
    <3>2. PICK p \in Int, q \in Int : p = k + 1 /\ q = m + 1 /\ y < p /\ y < q
      BY <3>1
    <3>3. SubSeq(pending, p, y) = <<>> /\ SubSeq(pending, q, y) = <<>>
      BY <3>2, SubSeqEmpty
    <3> QED  BY <3>2, <3>3, <1>1, <1>3, <1>6
  <2> QED  BY <2>1, <2>2
<1>8. buf' = SubSeq(pending, 1, k)
  BY <1>1, <1>6
<1>9. /\ Len(SubSeq(pending, 1, k)) = k /\ Run(SubSeq(pending, 1, k), h)
      /\ Len(SubSeq(pending, k + 1, Len(pending))) = Len(pending) - k
      /\ Run(SubSeq(pending, k + 1, Len(pending)), h + k)
  BY <1>5, RunSplit
<1>10. Len(Held') = k /\ Run(Held', h) /\ Len(pending') = y - k /\ Run(pending', h + k)
  BY <1>3, <1>4, <1>7, <1>8, <1>9
<1>11. PICK z \in Nat : z = y - k
  <2>1. y - k \in Nat
    BY <1>3
  <2> QED  BY <2>1
<1>12. Chain(wire', (h + k) + z, Len(sent'))
  <2>1. (h + k) + z = h + y
    BY <1>3, <1>11
  <2> QED  BY <2>1, <1>2, <1>3, <1>5
<1>13. Run(sent', 0) /\ h <= Len(sent') /\ Delivered(got', lost', h)
  BY <1>2, <1>3
<1> QED  BY <1>10, <1>11, <1>12, <1>13, StreamNow

LEMMA StreamPacket ==
  ASSUME TypeOK, TypeOK', BufInv, StreamInv, UsbPacket
  PROVE  StreamInv'
<1>1. /\ hpc = "in" /\ wire # <<>> /\ wire' = Tail(wire)
      /\ UNCHANGED <<sent, got, lost, pending>>
  BY DEF UsbPacket
<1>2. pending = <<>> /\ Len(pending) = 0
  BY <1>1, EmptySeq DEF BufInv
<1>3. PICK h \in Nat, x \in Nat, y \in Nat, n \in Nat :
        /\ x = Len(Held) /\ y = Len(pending) /\ n = Len(sent)
        /\ Run(sent, 0) /\ h <= n /\ Delivered(got, lost, h)
        /\ hpc # "failed" =>
             Run(Held, h) /\ Run(pending, h + x) /\ Chain(wire, (h + x) + y, n)
  BY StreamFacts
<1>4. /\ buf \in Seq(Nat) /\ wire \in Seq(Seq(Nat)) /\ x = Len(buf) /\ Run(buf, h)
      /\ Chain(wire, h + x, n) /\ h + x \in Nat
  <2>1. Held = buf
    BY <1>1 DEF Held
  <2>2. (h + x) + y = h + x
    BY <1>2, <1>3
  <2> QED  BY <2>1, <2>2, <1>1, <1>3 DEF TypeOK
<1>5. PICK pkt : pkt = wire[1] /\ pkt = Head(wire)
  BY <1>1, <1>4
<1>6. /\ pkt \in Seq(Nat) /\ Run(pkt, h + x)
      /\ Chain(wire', (h + x) + Len(pkt), n)
  BY <1>1, <1>4, <1>5, ChainTail
<1>7. PICK z \in Nat : z = Len(pkt)
  BY <1>6, LenProperties
<1>8. Len(buf \o pkt) = x + z /\ Run(buf \o pkt, h)
  BY <1>4, <1>6, <1>7, RunConcat
<1>9. Run(sent', 0) /\ h <= Len(sent') /\ Delivered(got', lost', h) /\ n = Len(sent')
      /\ Len(pending') = 0 /\ \A a : Run(pending', a)
  BY <1>1, <1>2, <1>3, RunEmpty
<1>10. CASE hpc' \in {"in", "give"} /\ buf' = buf \o pkt
  <2>1. PICK w \in Nat : w = x + z
    OBVIOUS
  <2>2. Len(Held') = w /\ Run(Held', h)
    BY <2>1, <1>8, <1>10 DEF Held
  <2>3. (h + x) + z = (h + w) + 0
    BY <2>1
  <2>4. Chain(wire', (h + w) + 0, Len(sent'))
    BY <2>3, <1>6, <1>7, <1>9
  <2> QED  BY <2>2, <2>4, <1>9, StreamNow
<1>11. CASE hpc' = "in" /\ buf' = buf /\ pkt = <<>>
  <2>1. Len(Held') = x /\ Run(Held', h)
    BY <1>4, <1>11 DEF Held
  <2>2. z = 0
    BY <1>7, <1>11, EmptySeq
  <2>3. (h + x) + z = (h + x) + 0
    BY <2>2
  <2>4. Chain(wire', (h + x) + 0, Len(sent'))
    BY <2>3, <1>6, <1>7, <1>9
  <2> QED  BY <2>1, <2>4, <1>9, StreamNow
<1>12. CASE hpc' = "failed"
  BY <1>1, <1>12, StreamKept
<1>13. \/ hpc' \in {"in", "give"} /\ buf' = buf \o pkt
       \/ hpc' = "in" /\ buf' = buf /\ pkt = <<>>
       \/ hpc' = "failed"
  BY <1>1, <1>5, PacketCases DEF Return
<1> QED  BY <1>10, <1>11, <1>12, <1>13

LEMMA StreamQudRead ==
  ASSUME TypeOK, TypeOK', BufInv, StreamInv, QudRead
  PROVE  StreamInv'
<1>1. PICK k \in 1 .. Low(len, Len(Stream)) :
        /\ wire' = <<SubSeq(Stream, k + 1, Len(Stream))>>
        /\ Return(SubSeq(Stream, 1, k))
  BY DEF QudRead
<1>2. /\ hpc = "in" /\ ~Usb
      /\ UNCHANGED <<sent, got, lost, pending>>
  BY DEF QudRead
<1>3. PICK h \in Nat, x \in Nat, y \in Nat, n \in Nat :
        /\ x = Len(Held) /\ y = Len(pending) /\ n = Len(sent)
        /\ Run(sent, 0) /\ h <= n /\ Delivered(got, lost, h)
        /\ hpc # "failed" =>
             Run(Held, h) /\ Run(pending, h + x) /\ Chain(wire, (h + x) + y, n)
  BY StreamFacts
<1>4. pending = <<>> /\ x = 0 /\ y = 0 /\ Len(wire) <= 1
  BY <1>2, <1>3, EmptySeq DEF BufInv, Held
<1>5. Stream \in Seq(Nat) /\ Run(Stream, h) /\ n = h + Len(Stream)
  <2>1. (h + x) + y = h
    BY <1>4
  <2>2. Chain(wire, h, n)
    BY <2>1, <1>2, <1>3
  <2> QED  BY <2>2, <1>4, OneRun
<1>6. k \in 0 .. Len(Stream)
  <2>1. Len(Stream) \in Nat /\ len \in Nat
    BY <1>5, LenProperties DEF TypeOK
  <2>2. Low(len, Len(Stream)) \in Nat /\ Low(len, Len(Stream)) <= Len(Stream)
    BY <2>1, LowOf
  <2> QED  BY <2>1, <2>2
<1>7. Len(SubSeq(Stream, 1, k)) = k /\ Run(SubSeq(Stream, 1, k), h)
  BY <1>5, <1>6, RunSplit
<1>8. Len(Held') = k /\ Run(Held', h) /\ hpc' = "give"
  BY <1>1, <1>7 DEF Held, Return
<1>9. Chain(wire', h + k, n)
  BY <1>1, <1>5, <1>6, RestRun
<1>10. Run(sent', 0) /\ h <= Len(sent') /\ Delivered(got', lost', h) /\ n = Len(sent')
       /\ Len(pending') = 0 /\ Run(pending', h + k)
  BY <1>2, <1>3, <1>4, RunEmpty
<1>11. Chain(wire', (h + k) + 0, Len(sent'))
  <2>1. (h + k) + 0 = h + k
    OBVIOUS
  <2> QED  BY <2>1, <1>9, <1>10
<1> QED  BY <1>8, <1>10, <1>11, StreamNow

\* Nothing is read; or what is read when the time is up is lost.
LEMMA StreamQudTimeout ==
  ASSUME TypeOK, TypeOK', BufInv, StreamInv, QudTimeout
  PROVE  StreamInv' /\ (Contract!Lose \/ UNCHANGED <<sent, lost, got>>)
<1>1. /\ hpc = "in" /\ ~Usb /\ hpc' = "idle"
      /\ UNCHANGED <<sent, got, pending>>
  BY DEF QudTimeout
<1>2. buf = <<>> /\ Held = <<>> /\ Held' = <<>> /\ Len(<<>>) = 0
      /\ pending = <<>> /\ Len(wire) <= 1
  BY <1>1, EmptySeq DEF BufInv, Held
<1>3. CASE UNCHANGED <<wire, lost, race>>
  <2>1. StreamInv'
    BY <1>1, <1>2, <1>3, StreamKept
  <2> QED  BY <2>1, <1>1, <1>3
<1>4. ASSUME Stream # <<>>,
             lost' = lost \cup Range(SubSeq(Stream, 1, Low(len, Len(Stream)))),
             wire' = <<SubSeq(Stream, Low(len, Len(Stream)) + 1, Len(Stream))>>
      PROVE  StreamInv' /\ (Contract!Lose \/ UNCHANGED <<sent, lost, got>>)
  <2>1. PICK h \in Nat, x \in Nat, y \in Nat, n \in Nat :
          /\ x = Len(Held) /\ y = Len(pending) /\ n = Len(sent)
          /\ Run(sent, 0) /\ h <= n /\ Delivered(got, lost, h)
          /\ hpc # "failed" =>
               Run(Held, h) /\ Run(pending, h + x) /\ Chain(wire, (h + x) + y, n)
    BY StreamFacts
  <2>2. x = 0 /\ y = 0
    BY <1>2, <2>1
  <2>3. Stream \in Seq(Nat) /\ Run(Stream, h) /\ n = h + Len(Stream)
    <3>1. (h + x) + y = h
      BY <2>2
    <3>2. Chain(wire, h, n)
      BY <3>1, <1>1, <2>1
    <3> QED  BY <3>2, <1>2, OneRun
  <2>4. PICK k \in 0 .. Len(Stream) : k = Low(len, Len(Stream))
    <3>1. Len(Stream) \in Nat /\ len \in Nat
      BY <2>3, LenProperties DEF TypeOK
    <3>2. Low(len, Len(Stream)) \in Nat /\ Low(len, Len(Stream)) <= Len(Stream)
      BY <3>1, LowOf
    <3>3. Low(len, Len(Stream)) \in 0 .. Len(Stream)
      BY <3>1, <3>2
    <3> QED  BY <3>3
  <2>5. PICK s : s = SubSeq(Stream, 1, k)
    OBVIOUS
  <2>6. s \in Seq(Nat) /\ Len(s) = k /\ Run(s, h)
    BY <2>3, <2>5, RunSplit
  <2>7. lost' = lost \cup Range(s)
    BY <1>4, <2>4, <2>5
  <2>8. /\ Delivered(got, lost \cup Range(s), h + k)
        /\ \A b \in Range(s) : b \notin lost /\ \A i \in DOMAIN got : got[i] < b
    <3>1. got \in Seq(Nat)
      BY DEF TypeOK
    <3> QED  BY <3>1, <2>1, <2>6, LoseMore
  <2>9. Chain(wire', h + k, n)
    BY <1>4, <2>3, <2>4, RestRun
  <2>10. PICK g \in Nat : g = h + k /\ g <= n
    <3>1. Len(Stream) \in Nat
      BY <2>3, LenProperties
    <3>2. h + k \in Nat /\ h + k <= n
      BY <3>1, <2>3
    <3> QED  BY <3>2
  <2>11. StreamInv'
    <3>1. Len(Held') = 0 /\ Len(pending') = 0 /\ Run(Held', g) /\ Run(pending', g + 0)
      BY <1>1, <1>2, RunEmpty
    <3>2. (g + 0) + 0 = g
      OBVIOUS
    <3>3. Chain(wire', (g + 0) + 0, Len(sent'))
      BY <3>2, <1>1, <2>1, <2>9, <2>10
    <3>4. Run(sent', 0) /\ g <= Len(sent') /\ Delivered(got', lost', g)
      BY <1>1, <2>1, <2>7, <2>8, <2>10
    <3> QED  BY <3>1, <3>3, <3>4, StreamNow
  <2>12. CASE lost' = lost
    BY <2>11, <2>12, <1>1
  <2>13. CASE lost' # lost
    <3>1. lost \subseteq lost'
      BY <2>7
    <3>2. \A b \in lost' \ lost : \A i \in DOMAIN got : got[i] < b
      BY <2>7, <2>8
    <3>3. Contract!Lose
      BY <3>1, <3>2, <2>13, <1>1 DEF Contract!Lose
    <3> QED  BY <2>11, <3>3
  <2> QED  BY <2>12, <2>13
<1> QED  BY <1>3, <1>4 DEF QudTimeout

LEMMA StreamGive ==
  ASSUME TypeOK, TypeOK', BufInv, StreamInv, Give
  PROVE  StreamInv' /\ (Contract!Deliver \/ UNCHANGED <<sent, lost, got>>)
<1>1. PICK k \in 0 .. Len(buf) :
        /\ k < Len(buf) => mode = "xml" /\ k > 0
        /\ got' = got \o SubSeq(buf, 1, k)
        /\ pending' = IF k < Len(buf) THEN PushedBack(SubSeq(buf, k + 1, Len(buf))) ELSE pending
  BY DEF Give
<1>2. hpc = "give" /\ hpc' = "idle" /\ UNCHANGED <<sent, wire, lost>>
  BY DEF Give
<1>3. PICK h \in Nat, x \in Nat, y \in Nat, n \in Nat :
        /\ x = Len(Held) /\ y = Len(pending) /\ n = Len(sent)
        /\ Run(sent, 0) /\ h <= n /\ Delivered(got, lost, h)
        /\ hpc # "failed" =>
             Run(Held, h) /\ Run(pending, h + x) /\ Chain(wire, (h + x) + y, n)
  BY StreamFacts
<1>4. /\ buf \in Seq(Nat) /\ wire \in Seq(Seq(Nat)) /\ got \in Seq(Nat) /\ pending \in Seq(Nat)
      /\ x = Len(buf) /\ Run(buf, h) /\ Run(pending, h + x) /\ Chain(wire, (h + x) + y, n)
  BY <1>2, <1>3 DEF Held, TypeOK
<1>5. PICK s : s = SubSeq(buf, 1, k)
  OBVIOUS
<1>6. s \in Seq(Nat) /\ Len(s) = k /\ Run(s, h)
  BY <1>4, <1>5, RunSplit
<1>7. PICK g \in Nat : g = h + k /\ g <= n
  <2>1. (h + x) + y <= n
    BY <1>4, ChainOrder
  <2>2. h + k \in Nat /\ h + k <= n
    BY <2>1, <1>4
  <2> QED  BY <2>2
<1>8. got' = got \o s /\ Delivered(got', lost, g)
  <2>1. got' = got \o s
    BY <1>1, <1>5
  <2>2. Delivered(got \o s, lost, h + k)
    BY <1>3, <1>4, <1>6, DeliverMore
  <2> QED  BY <2>1, <2>2, <1>7
<1>9. Run(sent', 0) /\ g <= Len(sent') /\ Delivered(got', lost', g)
      /\ Len(Held') = 0 /\ Run(Held', g)
  <2>1. Held' = <<>>
    BY <1>2 DEF Held
  <2> QED  BY <2>1, <1>2, <1>3, <1>7, <1>8, EmptySeq, RunEmpty
<1>10. StreamInv'
  <2>1. CASE k < Len(buf)
    <3>1. mode = "xml" /\ pending = <<>>
      BY <1>1, <1>2, <2>1 DEF BufInv
    <3>2. PICK t : t = SubSeq(buf, k + 1, Len(buf))
      OBVIOUS
    <3>3. t \in Seq(Nat) /\ Len(t) = Len(buf) - k /\ Run(t, h + k)
      BY <3>2, <1>4, RunSplit
    <3>4. pending' = t
      <4>1. <<>> \o t = t
        BY <3>3, ConcatEmptySeq
      <4> QED  BY <4>1, <3>1, <3>2, <1>1, <2>1 DEF PushedBack
    <3>5. y = 0
      BY <3>1, <1>3, EmptySeq
    <3>6. PICK z \in Nat : z = x - k /\ z = Len(t)
      <4>1. x - k \in Nat
        BY <1>4
      <4>2. Len(t) = x - k
        BY <3>3, <1>4
      <4> QED  BY <4>1, <4>2
    <3>7. (g + 0) + z = (h + x) + y /\ g + 0 = h + k
      BY <3>5, <3>6, <1>7
    <3>8. Chain(wire', (g + 0) + z, Len(sent'))
      BY <3>7, <1>2, <1>3, <1>4
    <3>9. z = Len(pending') /\ Run(pending', g + 0)
      BY <3>3, <3>4, <3>6, <3>7
    <3> QED  BY <3>8, <3>9, <1>9, StreamNow
  <2>2. CASE ~(k < Len(buf))
    <3>1. k = x
      BY <2>2, <1>4
    <3>2. pending' = pending
      BY <1>1, <2>2
    <3>3. (g + 0) + y = (h + x) + y /\ g + 0 = h + x
      BY <3>1, <1>7
    <3>4. Chain(wire', (g + 0) + y, Len(sent'))
      BY <3>3, <1>2, <1>3, <1>4
    <3>5. y = Len(pending') /\ Run(pending', g + 0)
      BY <3>2, <3>3, <1>3, <1>4
    <3> QED  BY <3>4, <3>5, <1>9, StreamNow
  <2> QED  BY <2>1, <2>2
<1>11. CASE k = 0
  <2>1. s = <<>>
    BY <1>6, <1>11, EmptySeq
  <2>2. got' = got
    BY <2>1, <1>4, <1>8, ConcatEmptySeq
  <2> QED  BY <2>2, <1>2, <1>10
<1>12. CASE k # 0
  <2>1. IsPrefix(got, got')
    BY <1>4, <1>6, <1>8, PrefixOfConcat
  <2>2. got' # got
    <3>1. Len(<<>>) = 0
      BY EmptySeq
    <3>2. s # <<>>
      BY <3>1, <1>6, <1>12, Zenon
    <3> QED  BY <3>2, <1>4, <1>6, <1>8, ConcatEqualIffEmpty
  <2>3. /\ Range(got') = (1 .. g) \ lost
        /\ Contract!InOrder(got')
    BY <1>8 DEF Delivered
  <2>4. Range(sent) = 0 + 1 .. 0 + n
    <3>1. sent \in Seq(Nat)
      BY DEF TypeOK
    <3> QED  BY <3>1, <1>3, RunRange
  <2>5. \A i \in DOMAIN got' : got'[i] \in Range(got')
    BY DEF Range
  <2>6. PICK A, S : A = Range(got') /\ S = Range(sent)
    OBVIOUS
  <2>7. \A v \in A : v \in S \ lost /\ \A b \in S \ lost : b < v => b \in A
    BY <2>3, <2>4, <2>6, <1>7
  <2>8. Contract!NoneMissing(got')
    <3>1. Contract!Range(got') = A /\ Contract!Range(sent) = S
      BY <2>6 DEF Range, Contract!Range
    <3>2. \A i \in DOMAIN got' :
            /\ got'[i] \in S \ lost
            /\ \A b \in S \ lost : b < got'[i] => b \in A
      BY <2>5, <2>6, <2>7
    <3> QED  BY <3>1, <3>2 DEF Contract!NoneMissing
  <2>9. Contract!Deliver
    BY <2>1, <2>2, <2>3, <2>8, <1>2 DEF Contract!Deliver, IsPrefix, Contract!IsPrefix
  <2> QED  BY <2>9, <1>10
<1> QED  BY <1>11, <1>12

LEMMA StreamSend ==
  ASSUME TypeOK, TypeOK', BufInv, StreamInv, DevSend
  PROVE  StreamInv' /\ Contract!Send
<1>1. PICK m \in MsgLens :
        /\ sent' = sent \o Fresh(m)
        /\ wire' = IF Usb THEN wire \o Packets(m) ELSE <<Stream \o Fresh(m)>>
  BY DEF DevSend
<1>2. UNCHANGED <<hpc, buf, pending, lost, got>>
  BY DEF DevSend
<1>3. m \in Nat \ {0} /\ MaxPkt \in Nat \ {0} /\ sent \in Seq(Nat) /\ wire \in Seq(Seq(Nat))
  BY Constants DEF TypeOK
<1>4. PICK h \in Nat, x \in Nat, y \in Nat, n \in Nat :
        /\ x = Len(Held) /\ y = Len(pending) /\ n = Len(sent)
        /\ Run(sent, 0) /\ h <= n /\ Delivered(got, lost, h)
        /\ hpc # "failed" =>
             Run(Held, h) /\ Run(pending, h + x) /\ Chain(wire, (h + x) + y, n)
  BY StreamFacts
<1>5. PICK f : f = Fresh(m)
  OBVIOUS
<1>6. f \in Seq(Nat) /\ Len(f) = m /\ Run(f, n)
  BY <1>3, <1>4, <1>5, FreshRight
<1>7. Run(sent', 0) /\ Len(sent') = n + m
  <2>1. 0 + n = n
    OBVIOUS
  <2>2. Run(f, 0 + Len(sent))
    BY <2>1, <1>4, <1>6
  <2>3. Len(sent \o f) = Len(sent) + Len(f) /\ Run(sent \o f, 0)
    BY <2>2, <1>3, <1>4, <1>6, RunConcat
  <2> QED  BY <2>3, <1>1, <1>4, <1>5, <1>6
<1>8. ASSUME hpc # "failed"
      PROVE  Chain(wire', (h + x) + y, n + m)
  <2>1. PICK w \in Nat : w = (h + x) + y /\ Chain(wire, w, n)
    BY <1>4, <1>8
  <2>2. n + m \in Nat
    BY <1>3
  <2>3. CASE Usb
    <3>1. PICK p : p = Packets(m)
      OBVIOUS
    <3>2. p \in Seq(Seq(Nat)) /\ Chain(p, n, n + m)
      BY <3>1, <1>3, <1>4, PacketsRight
    <3>3. Chain(wire \o p, w, n + m)
      BY <3>2, <2>1, <2>2, <1>3, ChainConcat
    <3> QED  BY <3>1, <3>3, <2>1, <2>3, <1>1
  <2>4. CASE ~Usb
    <3>1. Len(wire) <= 1
      BY <2>4 DEF BufInv
    <3>2. Stream \in Seq(Nat) /\ Run(Stream, w) /\ n = w + Len(Stream)
      BY <3>1, <2>1, OneRun
    <3>3. PICK s : s = Stream
      OBVIOUS
    <3>4. s \o f \in Seq(Nat) /\ Len(s \o f) = Len(s) + Len(f) /\ Run(s \o f, w)
      BY <3>2, <3>3, <1>6, RunConcat
    <3>5. w + Len(s \o f) = n + m
      <4>1. Len(s) \in Nat
        BY <3>2, <3>3, LenProperties
      <4> QED  BY <4>1, <3>2, <3>3, <3>4, <1>3, <1>6
    <3>6. Chain(<<s \o f>>, w, w + Len(s \o f))
      BY <3>4, ChainOne
    <3> QED  BY <3>3, <3>5, <3>6, <2>1, <2>4, <1>1, <1>5
  <2> QED  BY <2>3, <2>4
<1>9. StreamInv'
  <2>1. Held' = Held
    BY <1>2 DEF Held
  <2>2. h <= Len(sent') /\ Delivered(got', lost', h)
    BY <1>2, <1>3, <1>4, <1>7
  <2>3. hpc' # "failed" =>
          Run(Held', h) /\ Run(pending', h + x) /\ Chain(wire', (h + x) + y, Len(sent'))
    BY <2>1, <1>2, <1>4, <1>7, <1>8
  <2>4. x = Len(Held') /\ y = Len(pending')
    BY <2>1, <1>2, <1>4
  <2> QED  BY <2>2, <2>3, <2>4, <1>7, StreamNow
<1>10. Contract!Send
  <2>1. IsPrefix(sent, sent')
    BY <1>1, <1>3, <1>5, <1>6, PrefixOfConcat
  <2>2. sent' # sent
    BY <1>3, <1>4, <1>7
  <2> QED  BY <2>1, <2>2, <1>2 DEF Contract!Send, IsPrefix, Contract!IsPrefix
<1> QED  BY <1>9, <1>10

\* The others leave alone what was sent, lost and delivered.
LEMMA StreamStep ==
  TypeOK /\ TypeOK' /\ BufInv /\ StreamInv /\ [Next]_vars
    => StreamInv' /\ [Contract!Next]_<<sent, lost, got>>
<1> SUFFICES ASSUME TypeOK, TypeOK', BufInv, StreamInv, [Next]_vars
             PROVE  StreamInv' /\ [Contract!Next]_<<sent, lost, got>>
  OBVIOUS
<1> USE DEF fixed, inVars, outVars
<1>1. CASE Open \/ StartWrite \/ QudWrite \/ UsbWrite \/ UsbWriteEnd
  <2>1. UNCHANGED inVars /\ hpc \in {"open", "idle", "out"} /\ hpc' \in {"idle", "out", "failed"}
    BY <1>1 DEF Open, StartWrite, Idle, QudWrite, UsbWrite, UsbWriteEnd, WriteDone
  <2>2. Held = <<>> /\ Held' = <<>>
    BY <2>1 DEF Held
  <2>3. StreamInv'
    BY <2>1, <2>2, StreamKept
  <2> QED  BY <2>1, <2>3
<1>2. CASE ReadPending
  <2>1. StreamInv'
    BY <1>2, StreamPending
  <2> QED  BY <1>2, <2>1 DEF ReadPending, Begin
<1>3. CASE ReadDevice
  <2>1. /\ hpc = "idle" /\ hpc' = "in" /\ buf' = <<>>
        /\ UNCHANGED <<sent, got, lost, wire, pending>>
    BY <1>3 DEF ReadDevice, Begin, Idle
  <2>2. Held = <<>> /\ Held' = <<>>
    BY <2>1 DEF Held
  <2>3. StreamInv'
    BY <2>1, <2>2, StreamKept
  <2> QED  BY <2>1, <2>3
<1>4. CASE UsbPacket
  <2>1. StreamInv'
    BY <1>4, StreamPacket
  <2> QED  BY <1>4, <2>1 DEF UsbPacket
<1>5. CASE UsbTimeout
  <2>1. /\ hpc = "in" /\ UNCHANGED <<sent, got, lost, wire, pending>>
    BY <1>5 DEF UsbTimeout
  <2>2. Held' = Held /\ hpc' # "failed"
    <3>1. CASE buf = <<>>
      BY <1>5, <3>1, <2>1 DEF UsbTimeout, NothingCame, Held
    <3>2. CASE buf # <<>>
      BY <1>5, <3>2, <2>1 DEF UsbTimeout, Return, Held
    <3> QED  BY <3>1, <3>2
  <2>3. StreamInv'
    BY <2>1, <2>2, StreamKept
  <2> QED  BY <2>1, <2>3
<1>6. CASE QudRead
  <2>1. StreamInv'
    BY <1>6, StreamQudRead
  <2> QED  BY <1>6, <2>1 DEF QudRead
<1>7. CASE QudTimeout
  BY <1>7, StreamQudTimeout DEF Contract!Next
<1>8. CASE Give
  BY <1>8, StreamGive DEF Contract!Next
<1>9. CASE DevSend
  BY <1>9, StreamSend DEF Contract!Next
<1>10. CASE UNCHANGED vars
  <2>1. Held' = Held /\ UNCHANGED <<sent, got, lost, wire, pending, hpc>>
    BY <1>10 DEF vars, Held
  <2>2. StreamInv'
    BY <2>1, StreamKept
  <2> QED  BY <2>1, <2>2
<1> QED  BY <1>1, <1>2, <1>3, <1>4, <1>5, <1>6, <1>7, <1>8, <1>9, <1>10 DEF Next, Reads, Writes

-----------------------------------------------------------------------------
(* The theorems.                                                           *)

Inv == TypeOK /\ FrameInv /\ ZlpInv /\ BufInv /\ StreamInv

LEMMA InitInv == Init => Inv /\ Contract!Init
<1> SUFFICES ASSUME Init PROVE Inv /\ Contract!Init
  OBVIOUS
<1>1. /\ hpc = "open" /\ out_chunk_size = 0
      /\ wire = <<>> /\ sent = <<>> /\ buf = <<>> /\ pending = <<>> /\ got = <<>> /\ lost = {}
      /\ dmsgs = <<>> /\ wrote = <<>> /\ dmsg = 0
  BY DEF Init
<1>2. Len(<<>>) = 0 /\ <<>> \in Seq(Nat) /\ 1 .. 0 = {}
  BY EmptySeq
<1>3. TypeOK
  BY TypeInit
<1>4. FrameInv
  BY <1>1 DEF FrameInv, Framed
<1>5. ZlpInv
  BY <1>1, <1>2 DEF ZlpInv, Packeted, EmptyKnown, NoPhantom
<1>6. BufInv
  <2>1. XmlLen \in Nat
    BY Constants
  <2>2. Len(pending) <= XmlLen /\ Len(wire) <= 1
    BY <2>1, <1>1, <1>2
  <2> QED  BY <2>2, <1>1 DEF BufInv
<1>7. StreamInv
  <2>1. Run(sent, 0)
    BY <1>1, RunEmpty
  <2>2. Delivered(got, lost, 0)
    <3>1. Range(got) = {got[i] : i \in 1 .. Len(got)}
      BY <1>1, <1>2, RangeEquality
    <3>2. Range(got) = {}
      BY <3>1, <1>1, <1>2
    <3>3. DOMAIN got = {}
      BY <1>1, <1>2, LenProperties
    <3>4. Contract!InOrder(got)
      BY <3>3 DEF Contract!InOrder
    <3> QED  BY <3>2, <3>4, <1>1, <1>2 DEF Delivered
  <2>3. Held = <<>>
    BY <1>1 DEF Held
  <2>4. (0 + 0) + 0 = 0 /\ 0 + 0 = 0
    OBVIOUS
  <2>5. Follows(0)
    BY <2>3, <2>4, <1>1, <1>2, RunEmpty, ChainEmpty DEF Follows
  <2>6. 0 \in 0 .. Len(sent)
    BY <1>1, <1>2
  <2> QED  BY <2>1, <2>2, <2>5, <2>6 DEF StreamInv
<1>8. Contract!Init
  BY <1>1 DEF Contract!Init
<1> QED  BY <1>3, <1>4, <1>5, <1>6, <1>7, <1>8 DEF Inv

LEMMA NextInv == Inv /\ [Next]_vars => Inv' /\ [Contract!Next]_<<sent, lost, got>>
<1> SUFFICES ASSUME Inv, [Next]_vars PROVE Inv' /\ [Contract!Next]_<<sent, lost, got>>
  OBVIOUS
<1>1. TypeOK'
  BY TypeStep DEF Inv
<1>2. FrameInv' /\ ZlpInv' /\ BufInv'
  BY FrameStep, ZlpStep, BufStep DEF Inv
<1>3. StreamInv' /\ [Contract!Next]_<<sent, lost, got>>
  BY <1>1, StreamStep DEF Inv
<1> QED  BY <1>1, <1>2, <1>3 DEF Inv

LEMMA Invariant == Spec => []Inv
<1>1. Init => Inv
  BY InitInv
<1>2. Inv /\ [Next]_vars => Inv'
  BY NextInv
<1> QED  BY <1>1, <1>2, PTL DEF Spec

\* The variables keep their types.
THEOREM TypeCorrect == Spec => []TypeOK
<1>1. Inv => TypeOK
  BY DEF Inv
<1> QED  BY <1>1, Invariant, PTL

\* Whatever the chunks, the lengths of the writes and the transfers cut short: if chunks end
\* where packets do, the device takes each write that usb_write() or qud_write() reports as
\* done for one message of its length.
THEOREM WritesAreFramed == Spec => []ChunksFramed
<1>1. Inv => ChunksFramed
  BY DEF Inv, FrameInv, Framed, ChunksFramed, WritesFramed
<1> QED  BY <1>1, Invariant, PTL

\* Until a transfer is cut short, no read returns 0: usb_read() swallows each empty packet
\* that ends a message it has read.
THEOREM NoPhantomReads == Spec => []NoPhantom
<1>1. Inv => NoPhantom
  BY DEF Inv, ZlpInv
<1> QED  BY <1>1, Invariant, PTL

\* qdl_read() and qdl_push_back() implement ByteStream: on both backends and with buffers,
\* packets and messages of any size, the callers read the bytes that were sent, each once and
\* in order, except those that arrive while a read of QUD is given up.
THEOREM ReadsAreStream == Spec => ReadsStream
<1>1. Init => Contract!Init
  BY InitInv
<1>2. Inv /\ [Next]_vars => [Contract!Next]_<<sent, lost, got>>
  BY NextInv
<1> QED  BY <1>1, <1>2, Invariant, PTL DEF Spec, ReadsStream, Contract!Spec

-----------------------------------------------------------------------------
(* Opening: for every number of processes and ports, every set of devices  *)
(* and any number of faults a process has the device it was asked for,     *)
(* alone, and leaves nothing behind.                                       *)

\* Where a process is between two passes or done, and where it tries a candidate.
Between   == {"scan", "sleep", "select", "com", "coms", "failed", "closed"}
Trying == {"iProduct", "iSerial", "claim"}

Thing   == {NoDev} \cup UNION {{s.bus[p] : p \in Ports} \cup s.spare : s \in Setups}
Asked   == UNION {{s.want[h] : h \in Hosts} : s \in Setups}
RefType == [port : Ports, gen : Int]
LinkType == [ref : RefType, by : {"none", "usb", "qud"}]
Serials  == {d.serial : d \in Thing \ {NoDev}} \cup {NoSerial}
ListType == [ref : RefType, serial : Serials]

\* The shape of the state: what the processes hold that others may change is named by
\* ports, and by how many devices have been behind them.
HostsTypeOK ==
  /\ bus \in [Ports -> Thing] /\ spare \subseteq Thing
  /\ gen \in [Ports -> Nat] /\ owner \in [Ports -> Hosts \cup {NoHost}]
  /\ want \in [Hosts -> Asked] /\ backends \in [Hosts -> {"usb", "qud", "auto"}]
  /\ \A h \in Hosts : want[h] # NoSerial
  /\ pc \in [Hosts -> Between \cup Trying \cup {"next", "open"}]
  /\ visit \in [Hosts -> SUBSET RefType] /\ seen \in [Hosts -> BOOLEAN]
  /\ cand \in [Hosts -> RefType] /\ com \in [Hosts -> RefType]
  /\ attempt \in [Hosts -> Nat] /\ handle \in [Hosts -> SUBSET RefType]
  /\ sessions \in [Hosts -> Int]
  /\ link \in [Hosts -> LinkType]
  /\ listed \in [Hosts -> SUBSET ListType]

LEMMA RefsType == HostsTypeOK => Refs \subseteq RefType
BY DEF HostsTypeOK, Refs, Ref, RefType

LEMMA HostsInitType == OpenInit => HostsTypeOK
<1> SUFFICES ASSUME OpenInit PROVE HostsTypeOK
  OBVIOUS
<1>1. PICK s \in Setups : bus = s.bus /\ spare = s.spare /\ want = s.want /\ backends = s.backend
                          /\ pc = [h \in Hosts |-> IF s.backend[h] = "qud" THEN "select" ELSE "scan"]
  BY DEF OpenInit
<1>2. /\ s.bus = [p \in Ports |-> s.bus[p]] /\ s.want = [h \in Hosts |-> s.want[h]]
      /\ s.backend \in [Hosts -> {"usb", "qud", "auto"}]
      /\ \A h \in Hosts : s.want[h] # NoSerial
  BY OpeningAssumption
<1>3. bus \in [Ports -> Thing] /\ spare \subseteq Thing
  <2>1. /\ \A p \in Ports : s.bus[p] \in {s.bus[q] : q \in Ports} \cup s.spare
        /\ s.spare \subseteq {s.bus[q] : q \in Ports} \cup s.spare
    OBVIOUS
  <2>2. {s.bus[q] : q \in Ports} \cup s.spare \subseteq Thing
    BY DEF Thing
  <2>3. \A p \in Ports : s.bus[p] \in Thing
    BY <2>1, <2>2
  <2> QED
    BY <1>1, <1>2, <2>1, <2>2, <2>3
<1>4. want \in [Hosts -> Asked] /\ backends \in [Hosts -> {"usb", "qud", "auto"}]
      /\ \A h \in Hosts : want[h] # NoSerial
  BY <1>1, <1>2 DEF Asked
<1>5. [port |-> 1, gen |-> -1] \in RefType
  BY OpeningAssumption DEF Ports, RefType
<1>6. cand \in [Hosts -> RefType] /\ com \in [Hosts -> RefType]
  BY <1>5 DEF OpenInit
<1>7. link \in [Hosts -> LinkType]
  BY <1>6 DEF OpenInit, LinkType
<1>8. pc \in [Hosts -> Between \cup Trying \cup {"next", "open"}]
  BY <1>1 DEF Between
<1> QED
  BY <1>3, <1>4, <1>6, <1>7, <1>8 DEF OpenInit, HostsTypeOK

LEMMA HostsStepType == HostsTypeOK /\ [OpenNext]_openVars => HostsTypeOK'
<1> SUFFICES ASSUME HostsTypeOK, [OpenNext]_openVars PROVE HostsTypeOK'
  OBVIOUS
<1>1. CASE UNCHANGED openVars
  BY <1>1 DEF openVars, busVars, setup, passVars, faults, HostsTypeOK
<1>2. CASE World
  <2>1. PICK p \in Ports : Unplug(p) \/ Plug(p)
    BY <1>2 DEF World
  <2>2. UNCHANGED <<want, backends, pc, visit, seen, cand, attempt, handle, sessions, com, link, listed>>
    BY <1>2 DEF World, setup, passVars
  <2>3. CASE Unplug(p)
    <3>0. NoDev \in Thing
      BY DEF Thing
    <3>1. bus[p] \in Thing /\ NoDev \in Thing
      BY <3>0 DEF HostsTypeOK
    <3>2. bus' \in [Ports -> Thing] /\ spare' \subseteq Thing
      BY <2>3, <3>1 DEF Unplug, Set, HostsTypeOK
    <3>3. gen' \in [Ports -> Nat]
      BY <2>3 DEF Unplug, Set, HostsTypeOK
    <3>4. owner' \in [Ports -> Hosts \cup {NoHost}]
      BY <2>3 DEF Unplug, Set, HostsTypeOK
    <3> QED
      BY <2>2, <3>2, <3>3, <3>4 DEF HostsTypeOK
  <2>4. CASE Plug(p)
    <3>1. bus' \in [Ports -> Thing] /\ spare' \subseteq Thing /\ UNCHANGED <<gen, owner>>
      BY <2>4 DEF Plug, Set, HostsTypeOK
    <3> QED
      BY <2>2, <3>1 DEF HostsTypeOK
  <2> QED
    BY <2>1, <2>3, <2>4
<1>3. ASSUME NEW h \in Hosts, Find(h) \/ Close(h)
      PROVE  HostsTypeOK'
  <2>1. UNCHANGED <<bus, gen, spare, want, backends>>
    BY <1>3 DEF Find, Scan, OpenCandidate, ReadString, Claim, PassEnd, Sleep, SelectCom, OpenCom,
                ListComs, Close, busVars, setup
  <2>2. Refs \subseteq RefType /\ ComPorts \subseteq RefType /\ FirstMatches \subseteq RefType
        /\ Fitting(h) \subseteq RefType
    BY RefsType DEF ComPorts, FirstMatches, Fitting
  <2>3. \A p \in Ports : Ref(p) \in RefType
    BY DEF Ref, RefType, HostsTypeOK
  <2>4. cand[h].port \in Ports /\ com[h].port \in Ports
    BY DEF HostsTypeOK, RefType
  <2>5. CASE Scan(h)
    <3>1. /\ visit' = visit \/ visit' = [visit EXCEPT ![h] = Refs]
          /\ seen' = seen \/ seen' = [seen EXCEPT ![h] = FALSE]
          /\ sessions' = sessions \/ sessions' = [sessions EXCEPT ![h] = sessions[h] + 1]
          /\ \E l \in {"next", "coms", "failed"} : pc' = [pc EXCEPT ![h] = l]
          /\ UNCHANGED <<owner, cand, attempt, handle, com, link, listed>>
      BY <2>5 DEF Scan, Set, Goto
    <3>2. visit' \in [Hosts -> SUBSET RefType]
      BY <2>2, <3>1 DEF HostsTypeOK
    <3>3. seen' \in [Hosts -> BOOLEAN]
      BY <3>1 DEF HostsTypeOK
    <3>5. sessions' \in [Hosts -> Int]
      BY <3>1 DEF HostsTypeOK
    <3>4. pc' \in [Hosts -> Between \cup Trying \cup {"next", "open"}]
      BY <3>1 DEF HostsTypeOK, Between
    <3> QED
      BY <2>1, <3>1, <3>2, <3>3, <3>4, <3>5 DEF HostsTypeOK
  <2>6. CASE OpenCandidate(h)
    <3>1. PICK r \in visit[h] :
            /\ visit' = [visit EXCEPT ![h] = visit[h] \ {r}] /\ seen' = [seen EXCEPT ![h] = TRUE]
            /\ \/ /\ handle' = [handle EXCEPT ![h] = handle[h] \cup {r}]
                  /\ cand' = [cand EXCEPT ![h] = r] /\ attempt' = [attempt EXCEPT ![h] = 1]
                  /\ Goto(h, IF want[h] = Whichever THEN "claim" ELSE "iProduct")
               \/ UNCHANGED <<handle, cand, attempt, pc>>
      BY <2>6 DEF OpenCandidate, Set
    <3>2. UNCHANGED <<owner, sessions, com, link, listed>>
      BY <2>6 DEF OpenCandidate
    <3>3. r \in RefType
      BY <3>1 DEF HostsTypeOK
    <3>4. visit' \in [Hosts -> SUBSET RefType]
      BY <3>1, <3>3 DEF HostsTypeOK
    <3>6. handle' \in [Hosts -> SUBSET RefType]
      <4>1. handle' = handle \/ handle' = [handle EXCEPT ![h] = handle[h] \cup {r}]
        BY <3>1
      <4>2. handle[h] \cup {r} \in SUBSET RefType
        BY <3>3 DEF HostsTypeOK
      <4> QED
        BY <4>1, <4>2 DEF HostsTypeOK
    <3>7. cand' \in [Hosts -> RefType] /\ attempt' \in [Hosts -> Nat] /\ seen' \in [Hosts -> BOOLEAN]
      BY <3>1, <3>3 DEF HostsTypeOK
    <3>5. pc' \in [Hosts -> Between \cup Trying \cup {"next", "open"}]
      BY <3>1 DEF HostsTypeOK, Goto, Set, Trying
    <3> QED
      BY <2>1, <3>2, <3>4, <3>5, <3>6, <3>7 DEF HostsTypeOK
  <2>7. CASE ReadString(h)
    <3>1. UNCHANGED <<owner, visit, seen, cand, sessions, com, link>>
      BY <2>7 DEF ReadString
    <3>2. ASSUME NEW s \in Serials, Identified(h, s)
          PROVE  /\ pc' \in [Hosts -> Between \cup Trying \cup {"next", "open"}]
                 /\ handle' \in [Hosts -> SUBSET RefType]
                 /\ listed' \in [Hosts -> SUBSET ListType]
      <4>1. [ref |-> cand[h], serial |-> s] \in ListType
        BY <3>2 DEF HostsTypeOK, ListType
      <4>2. pc' \in [Hosts -> Between \cup Trying \cup {"next", "open"}]
        BY <3>2 DEF Identified, Drop, Goto, Set, HostsTypeOK, Trying
      <4>3. handle' \in [Hosts -> SUBSET RefType]
        BY <3>2 DEF Identified, Drop, Goto, Set, HostsTypeOK
      <4>4. \/ listed' = listed
            \/ listed' = [listed EXCEPT ![h] = listed[h] \cup {[ref |-> cand[h], serial |-> s]}]
        BY <3>2 DEF Identified, Set
      <4> QED
        BY <4>1, <4>2, <4>3, <4>4 DEF HostsTypeOK
    <3>3. CASE \E s \in Serials : Identified(h, s) /\ UNCHANGED attempt
      BY <2>1, <3>1, <3>2, <3>3 DEF HostsTypeOK
    <3>4. CASE /\ pc' = pc \/ Goto(h, "iSerial")
               /\ attempt' = [attempt EXCEPT ![h] = attempt[h] + 1]
                    \/ attempt' = [attempt EXCEPT ![h] = 1]
               /\ UNCHANGED <<handle, listed>>
      <4>1. attempt' \in [Hosts -> Nat]
        BY <3>4 DEF HostsTypeOK
      <4>2. pc' \in [Hosts -> Between \cup Trying \cup {"next", "open"}]
        BY <3>4 DEF Goto, Set, HostsTypeOK, Trying
      <4> QED
        BY <2>1, <3>1, <3>4, <4>1, <4>2 DEF HostsTypeOK
    <3>5. NoSerial \in Serials /\ (Here(cand[h]) => bus[cand[h].port].serial \in Serials)
      BY <2>4 DEF HostsTypeOK, Serials, Here
    <3> QED
      BY <2>7, <3>3, <3>4, <3>5 DEF ReadString, NotInString, Set
  <2>8. CASE Claim(h)
    <3>1. UNCHANGED <<visit, seen, cand, attempt, sessions, com, listed>>
      BY <2>8 DEF Claim
    <3>2. /\ owner' = owner \/ owner' = [owner EXCEPT ![cand[h].port] = h]
          /\ link' = link \/ link' = [link EXCEPT ![h] = [ref |-> cand[h], by |-> "usb"]]
          /\ handle' = handle \/ handle' = [handle EXCEPT ![h] = handle[h] \ {cand[h]}]
          /\ pc' = [pc EXCEPT ![h] = "open"] \/ pc' = [pc EXCEPT ![h] = "next"]
      BY <2>8 DEF Claim, Set, Goto, Drop
    <3>3. [ref |-> cand[h], by |-> "usb"] \in LinkType
      BY DEF HostsTypeOK, LinkType
    <3>4. owner' \in [Ports -> Hosts \cup {NoHost}]
      BY <2>4, <3>2 DEF HostsTypeOK
    <3>5. handle' \in [Hosts -> SUBSET RefType]
      BY <3>2 DEF HostsTypeOK
    <3>6. link' \in [Hosts -> LinkType]
      BY <3>2, <3>3 DEF HostsTypeOK
    <3>7. pc' \in [Hosts -> Between \cup Trying \cup {"next", "open"}]
      BY <3>2 DEF HostsTypeOK
    <3> QED
      BY <2>1, <3>1, <3>4, <3>5, <3>6, <3>7 DEF HostsTypeOK
  <2>9. CASE PassEnd(h) \/ Sleep(h)
    BY <2>1, <2>9 DEF PassEnd, Sleep, Set, Goto, HostsTypeOK, Between, passVars
  <2>10. CASE SelectCom(h)
    <3>1. com' = com \/ \E r \in RefType : com' = [com EXCEPT ![h] = r]
      BY <2>2, <2>3, <2>10 DEF SelectCom, Set
    <3>2. UNCHANGED <<owner, visit, seen, cand, attempt, handle, sessions, link, listed>>
      BY <2>10 DEF SelectCom, passVars
    <3>3. pc' \in [Hosts -> Between \cup Trying \cup {"next", "open"}]
      BY <2>10 DEF SelectCom, QudFails, Goto, Set, HostsTypeOK, Between
    <3> QED
      BY <2>1, <3>1, <3>2, <3>3 DEF HostsTypeOK
  <2>11. CASE OpenCom(h)
    <3>1. UNCHANGED <<visit, seen, cand, attempt, handle, sessions, com, listed>>
      BY <2>11 DEF OpenCom, passVars
    <3>2. /\ owner' = owner \/ owner' = [owner EXCEPT ![com[h].port] = h]
          /\ link' = link \/ link' = [link EXCEPT ![h] = [ref |-> Ref(com[h].port), by |-> "qud"]]
          /\ \E l \in {"open", "sleep", "failed"} : pc' = [pc EXCEPT ![h] = l]
      BY <2>11 DEF OpenCom, Set, Goto, QudFails
    <3>3. [ref |-> Ref(com[h].port), by |-> "qud"] \in LinkType
      BY <2>3, <2>4 DEF LinkType
    <3>4. owner' \in [Ports -> Hosts \cup {NoHost}]
      BY <2>4, <3>2 DEF HostsTypeOK
    <3>5. link' \in [Hosts -> LinkType]
      BY <3>2, <3>3 DEF HostsTypeOK
    <3>6. pc' \in [Hosts -> Between \cup Trying \cup {"next", "open"}]
      BY <3>2 DEF HostsTypeOK, Between
    <3> QED
      BY <2>1, <3>1, <3>4, <3>5, <3>6 DEF HostsTypeOK
  <2>12. CASE ListComs(h)
    <3>1. \A r \in FirstMatches : SerialOf(bus[r.port]) \in Serials
      <4> SUFFICES ASSUME NEW r \in FirstMatches PROVE SerialOf(bus[r.port]) \in Serials
        OBVIOUS
      <4>1. PICK p \in Ports : r = Ref(p) /\ bus[p] # NoDev
        BY DEF FirstMatches, ComPorts, Refs
      <4>2. r.port = p /\ bus[p] \in Thing \ {NoDev}
        BY <4>1 DEF Ref, HostsTypeOK
      <4> QED
        BY <4>2 DEF SerialOf, Serials
    <3>2. {[ref |-> r, serial |-> SerialOf(bus[r.port])] : r \in FirstMatches}
            \subseteq ListType
      BY <2>2, <3>1 DEF ListType
    <3>3. listed' \in [Hosts -> SUBSET ListType]
      BY <2>12, <3>2 DEF ListComs, Set, HostsTypeOK
    <3>4. UNCHANGED <<owner, visit, seen, cand, attempt, handle, sessions, com, link>>
          /\ pc' = [pc EXCEPT ![h] = "closed"]
      BY <2>12 DEF ListComs, passVars, Goto, Set
    <3> QED
      BY <2>1, <3>3, <3>4 DEF HostsTypeOK, Between
  <2>13. CASE Close(h)
    <3>1. UNCHANGED <<visit, seen, cand, attempt, com, link, listed>>
          /\ pc' = [pc EXCEPT ![h] = "closed"]
      BY <2>13 DEF Close, Goto, Set
    <3>2. handle' \in [Hosts -> SUBSET RefType] /\ sessions' \in [Hosts -> Int]
      BY <2>13 DEF Close, Set, HostsTypeOK
    <3>3. owner' \in [Ports -> Hosts \cup {NoHost}]
      BY <2>13 DEF Close, HostsTypeOK
    <3> QED
      BY <2>1, <3>1, <3>2, <3>3 DEF HostsTypeOK, Between
  <2> QED
    BY <1>3, <2>5, <2>6, <2>7, <2>8, <2>9, <2>10, <2>11, <2>12, <2>13 DEF Find
<1> QED
  BY <1>1, <1>2, <1>3 DEF OpenNext

THEOREM HostsTypeCorrect == OpenSpec => []HostsTypeOK
BY HostsInitType, HostsStepType, PTL DEF OpenSpec

-----------------------------------------------------------------------------
(* The device behind a reference that has once been good: it is there, or  *)
(* will never be again.  So what was found out about it stays true of it.  *)

GoodRef(r) == gen[r.port] >= r.gen /\ (gen[r.port] = r.gen => bus[r.port] # NoDev)

\* What a process holds, at every point.
Holds(h) ==
  /\ pc[h] \in Between =>
       handle[h] = {} /\ sessions[h] <= 0 /\ (pc[h] # "closed" => sessions[h] = 0)
  /\ pc[h] = "next" => handle[h] = {} /\ sessions[h] = 1
  /\ pc[h] \in Trying => handle[h] = {cand[h]} /\ sessions[h] = 1
  /\ pc[h] = "open" =>
       /\ link[h].by # "none"
       /\ handle[h] = (IF link[h].by = "usb" THEN {link[h].ref} ELSE {})
       /\ sessions[h] = (IF link[h].by = "usb" THEN 1 ELSE 0)
  /\ \A p \in Ports : owner[p] = h => pc[h] = "open" /\ p = link[h].ref.port

\* The candidate, once it has been matched, the COM port, once chosen, and the device, for
\* good, are what the process was asked for; and a device has the serial number it is
\* listed with.
Fits(h, p)   == Wanted(h, p) /\ (bus[p].edl \/ want[h] = p)
CandFits(h)  == GoodRef(cand[h]) /\ (pc[h] = "claim" /\ Here(cand[h]) => Wanted(h, cand[h].port))
ComFits(h)   == want[h] = com[h].port \/ (GoodRef(com[h]) /\ (Here(com[h]) => Fits(h, com[h].port)))
LinkFits(h)  ==
  LET r == link[h].ref
  IN /\ GoodRef(r)
     /\ Here(r) => owner[r.port] = h
     /\ Here(r) /\ (link[h].by = "usb" \/ r = com[h]) => Fits(h, r.port)
Shows(e)     == GoodRef(e.ref) /\ (Here(e.ref) => e.serial \in {SerialOf(bus[e.ref.port]), NoSerial})

Knows(h) ==
  /\ pc[h] \in Trying => CandFits(h)
  /\ pc[h] = "com" => ComFits(h)
  /\ pc[h] = "open" => LinkFits(h)
  /\ \A e \in listed[h] : Shows(e)

HoldInv == \A h \in Hosts : Holds(h)
KnowInv == \A h \in Hosts : Knows(h)

LEMMA HoldInit == OpenInit => HoldInv
<1> SUFFICES ASSUME OpenInit, NEW h \in Hosts PROVE Holds(h)
  BY DEF HoldInv
<1>1. pc[h] \in {"scan", "select"} /\ handle[h] = {} /\ sessions[h] = 0
  BY DEF OpenInit
<1>2. \A p \in Ports : owner[p] # h
  BY OpeningAssumption DEF OpenInit
<1> QED
  BY <1>1, <1>2 DEF Holds, Between, Trying

\* What another process does, or the world, takes nothing from a process but its device.
LEMMA HoldsOther ==
  ASSUME NEW h \in Hosts, Holds(h),
         UNCHANGED <<pc[h], cand[h], link[h], handle[h], sessions[h]>>,
         \A p \in Ports : owner'[p] = h => owner[p] = h
  PROVE  Holds(h)'
BY DEF Holds

\* A step of a process is none of another.
LEMMA StepAlone ==
  ASSUME HostsTypeOK, NEW h \in Hosts, Find(h) \/ Close(h), NEW k \in Hosts, k # h
  PROVE  /\ UNCHANGED <<pc[k], cand[k], link[k], handle[k], sessions[k], com[k], listed[k]>>
         /\ \A p \in Ports : (owner'[p] = k <=> owner[p] = k)
<1>1. k # NoHost
  BY OpeningAssumption
<1>2. UNCHANGED <<pc[k], cand[k], link[k], handle[k], sessions[k], com[k], listed[k]>>
  <2>1. CASE Scan(h) \/ PassEnd(h) \/ Sleep(h)
    BY <2>1 DEF Scan, PassEnd, Sleep, Set, Goto, HostsTypeOK, passVars
  <2>2. CASE OpenCandidate(h)
    BY <2>2 DEF OpenCandidate, Set, Goto, HostsTypeOK
  <2>3. CASE ReadString(h)
    BY <2>3 DEF ReadString, NotInString, Identified, Drop, Set, Goto, HostsTypeOK
  <2>4. CASE Claim(h)
    BY <2>4 DEF Claim, Drop, Set, Goto, HostsTypeOK
  <2>5. CASE SelectCom(h)
    BY <2>5 DEF SelectCom, QudFails, Set, Goto, HostsTypeOK, passVars
  <2>6. CASE OpenCom(h)
    BY <2>6 DEF OpenCom, QudFails, Set, Goto, HostsTypeOK, passVars
  <2>7. CASE ListComs(h)
    BY <2>7 DEF ListComs, Set, Goto, HostsTypeOK, passVars
  <2>8. CASE Close(h)
    BY <2>8 DEF Close, Set, Goto, HostsTypeOK
  <2> QED
    BY <2>1, <2>2, <2>3, <2>4, <2>5, <2>6, <2>7, <2>8 DEF Find
<1>3. ASSUME NEW p \in Ports
      PROVE  owner'[p] = k <=> owner[p] = k
  <2>1. CASE Scan(h) \/ PassEnd(h) \/ Sleep(h) \/ OpenCandidate(h) \/ ReadString(h) \/ SelectCom(h)
             \/ ListComs(h)
    BY <2>1 DEF Scan, PassEnd, Sleep, OpenCandidate, ReadString, SelectCom, ListComs
  <2>2. CASE Claim(h)
    BY <1>1, <2>2 DEF Claim, Set, HostsTypeOK
  <2>3. CASE OpenCom(h)
    BY <1>1, <2>3 DEF OpenCom, Set, HostsTypeOK
  <2>4. CASE Close(h)
    BY <1>1, <2>4 DEF Close
  <2> QED
    BY <1>3, <2>1, <2>2, <2>3, <2>4 DEF Find
<1> QED
  BY <1>2, <1>3

\* The devices of others are theirs: a step that takes none leaves a process without.
LEMMA OwnsNone ==
  ASSUME HostsTypeOK, NEW h \in Hosts, Holds(h), pc[h] # "open", owner' = owner
  PROVE  \A p \in Ports : owner'[p] # h
BY DEF Holds

LEMMA HoldsStep ==
  ASSUME HostsTypeOK, HostsTypeOK', NEW h \in Hosts, Holds(h), Find(h) \/ Close(h)
  PROVE  Holds(h)'
<1>1. CASE Scan(h)
  <2>1. owner' = owner /\ handle' = handle /\ pc[h] = "scan"
    BY <1>1 DEF Scan
  <2>2. \/ pc'[h] = "next" /\ sessions'[h] = sessions[h] + 1
        \/ pc'[h] \in {"coms", "failed"} /\ sessions' = sessions
    BY <1>1 DEF Scan, Goto, Set, HostsTypeOK
  <2> QED
    BY <2>1, <2>2, OwnsNone DEF Holds, Between, Trying
<1>2. CASE OpenCandidate(h)
  <2>1. owner' = owner /\ sessions' = sessions /\ pc[h] = "next"
    BY <1>2 DEF OpenCandidate
  <2>2. \/ UNCHANGED <<pc, handle>>
        \/ \E r \in visit[h] :
             handle'[h] = handle[h] \cup {r} /\ cand'[h] = r /\ pc'[h] \in {"claim", "iProduct"}
    BY <1>2 DEF OpenCandidate, Goto, Set, HostsTypeOK
  <2> QED
    BY <2>1, <2>2, OwnsNone DEF Holds, Between, Trying
<1>3. CASE ReadString(h)
  <2>1. owner' = owner /\ sessions' = sessions /\ cand' = cand /\ pc[h] \in {"iProduct", "iSerial"}
    BY <1>3 DEF ReadString
  <2>2. \/ pc'[h] \in Trying /\ handle' = handle
        \/ pc'[h] = "next" /\ handle'[h] = handle[h] \ {cand[h]}
    BY <1>3 DEF ReadString, NotInString, Identified, Drop, Goto, Set, HostsTypeOK, Trying
  <2> QED
    BY <2>1, <2>2, OwnsNone DEF Holds, Between, Trying
<1>4. CASE Claim(h)
  <2>1. pc[h] = "claim" /\ UNCHANGED <<sessions, cand>>
    BY <1>4 DEF Claim
  <2>2. CASE /\ owner' = [owner EXCEPT ![cand[h].port] = h]
             /\ link'[h] = [ref |-> cand[h], by |-> "usb"]
             /\ pc'[h] = "open" /\ handle' = handle
    <3>1. \A p \in Ports : owner'[p] = h => p = link'[h].ref.port
      BY <2>1, <2>2 DEF Holds, HostsTypeOK
    <3> QED
      BY <2>1, <2>2, <3>1 DEF Holds, Between, Trying
  <2>3. CASE owner' = owner /\ pc'[h] = "next" /\ handle'[h] = handle[h] \ {cand[h]}
    BY <2>1, <2>3, OwnsNone DEF Holds, Between, Trying
  <2> QED
    BY <1>4, <2>2, <2>3 DEF Claim, Drop, Goto, Set, HostsTypeOK
<1>5. CASE PassEnd(h)
  <2>1. pc[h] = "next" /\ UNCHANGED <<owner, handle>> /\ sessions'[h] = sessions[h] - 1
        /\ pc'[h] \in {"coms", "select", "sleep"}
    BY <1>5 DEF PassEnd, Goto, Set, HostsTypeOK
  <2> QED
    BY <2>1, OwnsNone DEF Holds, Between, Trying
<1>6. CASE Sleep(h) \/ SelectCom(h) \/ ListComs(h)
  <2>1. pc[h] \in {"sleep", "select", "coms"} /\ UNCHANGED <<owner, handle, sessions>>
        /\ pc'[h] \in Between
    BY <1>6 DEF Sleep, SelectCom, QudFails, ListComs, Goto, Set, HostsTypeOK, passVars, Between
  <2> QED
    BY <2>1, OwnsNone DEF Holds, Between, Trying
<1>7. CASE OpenCom(h)
  <2>1. pc[h] = "com" /\ UNCHANGED <<sessions, handle>>
    BY <1>7 DEF OpenCom, passVars
  <2>2. CASE /\ owner' = [owner EXCEPT ![com[h].port] = h]
             /\ link'[h] = [ref |-> Ref(com[h].port), by |-> "qud"]
             /\ pc'[h] = "open"
    <3>1. \A p \in Ports : owner'[p] = h => p = link'[h].ref.port
      BY <2>1, <2>2 DEF Holds, HostsTypeOK, Ref
    <3> QED
      BY <2>1, <2>2, <3>1 DEF Holds, Between, Trying
  <2>3. CASE owner' = owner /\ pc'[h] \in {"sleep", "failed"}
    BY <2>1, <2>3, OwnsNone DEF Holds, Between, Trying
  <2> QED
    BY <1>7, <2>2, <2>3 DEF OpenCom, QudFails, Goto, Set, HostsTypeOK
<1>8. CASE Close(h)
  <2>1. pc'[h] = "closed"
    BY <1>8 DEF Close, Goto, Set, HostsTypeOK
  <2>2. \A p \in Ports : owner'[p] # h
    BY <1>8, OpeningAssumption DEF Close
  <2>3. handle'[h] = {} /\ sessions'[h] <= 0
    <3>1. CASE pc[h] = "open"
      <4>1. link[h].by \in {"usb", "qud"}
        BY <3>1 DEF Holds, HostsTypeOK, LinkType
      <4>2. CASE link[h].by = "usb"
        BY <1>8, <3>1, <4>2 DEF Close, Holds, Set, HostsTypeOK
      <4>3. CASE link[h].by = "qud"
        BY <1>8, <3>1, <4>3 DEF Close, Holds, Set, HostsTypeOK
      <4> QED
        BY <4>1, <4>2, <4>3
    <3>2. CASE pc[h] = "failed"
      BY <1>8, <3>2 DEF Close, Holds, Set, HostsTypeOK, Between
    <3> QED
      BY <1>8, <3>1, <3>2 DEF Close
  <2> QED
    BY <2>1, <2>2, <2>3 DEF Holds, Between, Trying
<1> QED
  BY <1>1, <1>2, <1>3, <1>4, <1>5, <1>6, <1>7, <1>8 DEF Find

LEMMA HoldStep == HostsTypeOK /\ HoldInv /\ [OpenNext]_openVars => HoldInv'
<1> SUFFICES ASSUME HostsTypeOK, HoldInv, [OpenNext]_openVars, NEW k \in Hosts PROVE Holds(k)'
  BY DEF HoldInv
<1>0. Holds(k) /\ HostsTypeOK'
  BY HostsStepType DEF HoldInv
<1>1. CASE UNCHANGED openVars
  BY <1>0, <1>1 DEF openVars, passVars, Holds
<1>2. CASE World
  <2>1. UNCHANGED <<pc, cand, link, handle, sessions>>
    BY <1>2 DEF World, passVars
  <2>2. \A p \in Ports : owner'[p] \in {owner[p], NoHost}
    BY <1>2 DEF World, Unplug, Plug, Set, HostsTypeOK
  <2> QED
    BY <1>0, <2>1, <2>2, HoldsOther, OpeningAssumption
<1>3. ASSUME NEW h \in Hosts, Find(h) \/ Close(h)
      PROVE  Holds(k)'
  BY <1>0, <1>3, HoldsStep, HoldsOther, StepAlone
<1> QED
  BY <1>1, <1>2, <1>3 DEF OpenNext

LEMMA HoldInvariant == OpenSpec => []HoldInv
BY HoldInit, HoldStep, HostsTypeCorrect, PTL DEF OpenSpec

\* Whatever candidates it has passed over, a process that waits, goes on to the COM
\* ports or is done has closed them all, and one that has its device holds just that.
THEOREM NothingIsLeft == OpenSpec => []NothingLeft
<1>1. HoldInv => NothingLeft
  BY DEF HoldInv, Holds, NothingLeft, Between
<1> QED
  BY <1>1, HoldInvariant, PTL

-----------------------------------------------------------------------------
(* A process has what it was asked for.                                    *)

LEMMA KnowInit == OpenInit => KnowInv
<1> SUFFICES ASSUME OpenInit, NEW h \in Hosts PROVE Knows(h)
  BY DEF KnowInv
<1>1. pc[h] \in {"scan", "select"} /\ listed[h] = {}
  BY DEF OpenInit
<1> QED
  BY <1>1 DEF Knows, Trying

\* The bus changes behind a reference: it is void from then on.
LEMMA WorldHeld ==
  ASSUME HostsTypeOK, World, NEW r \in RefType, GoodRef(r)
  PROVE  /\ GoodRef(r)'
         /\ Here(r)' => Here(r) /\ bus'[r.port] = bus[r.port] /\ owner'[r.port] = owner[r.port]
<1>1. PICK p \in Ports : Unplug(p) \/ Plug(p)
  BY DEF World
<1>2. r.port \in Ports /\ r.gen \in Int /\ gen[r.port] \in Nat
  BY DEF RefType, HostsTypeOK
<1>3. CASE Unplug(p)
  <2>1. /\ gen' = [gen EXCEPT ![p] = gen[p] + 1] /\ bus' = [bus EXCEPT ![p] = NoDev]
        /\ owner' = [owner EXCEPT ![p] = NoHost]
    BY <1>3 DEF Unplug, Set
  <2>2. CASE r.port = p
    BY <1>2, <2>1, <2>2 DEF GoodRef, Here, HostsTypeOK
  <2>3. CASE r.port # p
    BY <1>2, <2>1, <2>3 DEF GoodRef, Here, HostsTypeOK
  <2> QED
    BY <2>2, <2>3
<1>4. CASE Plug(p)
  <2>1. bus[p] = NoDev /\ gen' = gen /\ owner' = owner
        /\ \E d \in spare : bus' = [bus EXCEPT ![p] = d]
    BY <1>4 DEF Plug, Set
  <2>2. CASE r.port = p
    BY <1>2, <2>1, <2>2 DEF GoodRef, Here, HostsTypeOK
  <2>3. CASE r.port # p
    BY <1>2, <2>1, <2>3 DEF GoodRef, Here, HostsTypeOK
  <2> QED
    BY <2>2, <2>3
<1> QED
  BY <1>1, <1>3, <1>4

LEMMA KnowsWorld ==
  ASSUME HostsTypeOK, World, NEW h \in Hosts, Knows(h)
  PROVE  Knows(h)'
<1>1. UNCHANGED <<pc, cand, com, link, want, listed>>
  BY DEF World, passVars, setup
<1>2. /\ cand[h] \in RefType /\ com[h] \in RefType /\ link[h].ref \in RefType
      /\ \A e \in listed[h] : e.ref \in RefType
  BY DEF HostsTypeOK, LinkType, ListType
<1>3. ASSUME pc[h] \in Trying PROVE CandFits(h)'
  <2>1. CandFits(h)
    BY <1>3 DEF Knows
  <2>2. GoodRef(cand[h])' /\ (Here(cand[h])' => Here(cand[h]) /\ bus'[cand[h].port] = bus[cand[h].port])
    BY <1>1, <1>2, <2>1, WorldHeld DEF CandFits, GoodRef, Here
  <2> QED
    BY <1>1, <2>1, <2>2 DEF CandFits, Wanted
<1>4. ASSUME pc[h] = "com" PROVE ComFits(h)'
  <2>1. ComFits(h)
    BY <1>4 DEF Knows
  <2>2. CASE want[h] = com[h].port
    BY <1>1, <2>2 DEF ComFits
  <2>3. CASE GoodRef(com[h])
    <3>1. GoodRef(com[h])' /\ (Here(com[h])' => Here(com[h]) /\ bus'[com[h].port] = bus[com[h].port])
      BY <1>1, <1>2, <2>3, WorldHeld DEF GoodRef, Here
    <3> QED
      BY <1>1, <2>1, <3>1 DEF ComFits, Fits, Wanted
  <2> QED
    BY <2>1, <2>2, <2>3 DEF ComFits
<1>5. ASSUME pc[h] = "open" PROVE LinkFits(h)'
  <2> DEFINE r == link[h].ref
  <2>1. LinkFits(h)
    BY <1>5 DEF Knows
  <2>2. GoodRef(r)' /\ (Here(r)' => Here(r) /\ bus'[r.port] = bus[r.port] /\ owner'[r.port] = owner[r.port])
    BY <1>1, <1>2, <2>1, WorldHeld DEF LinkFits, GoodRef, Here
  <2> QED
    BY <1>1, <2>1, <2>2 DEF LinkFits, Fits, Wanted
<1>6. ASSUME NEW e \in listed[h] PROVE Shows(e)'
  <2>1. Shows(e)
    BY <1>6 DEF Knows
  <2>2. GoodRef(e.ref)' /\ (Here(e.ref)' => Here(e.ref) /\ bus'[e.ref.port] = bus[e.ref.port])
    BY <1>2, <1>6, <2>1, WorldHeld DEF Shows, GoodRef, Here
  <2> QED
    BY <2>1, <2>2 DEF Shows, SerialOf
<1> QED
  BY <1>1, <1>3, <1>4, <1>5, <1>6 DEF Knows

\* The bus is as it was, and so is what the process knows.
LEMMA KnowsSame ==
  ASSUME NEW h \in Hosts, Knows(h), UNCHANGED <<bus, gen, want>>,
         UNCHANGED <<pc[h], cand[h], com[h], link[h], listed[h]>>,
         \A p \in Ports : owner[p] = h => owner'[p] = h,
         pc[h] = "open" => link[h].ref.port \in Ports
  PROVE  Knows(h)'
<1>1. \A r : GoodRef(r)' <=> GoodRef(r)
  BY DEF GoodRef
<1>2. \A r : Here(r)' <=> Here(r)
  BY DEF Here
<1>3. \A p : Wanted(h, p)' <=> Wanted(h, p)
  BY DEF Wanted, SerialOf
<1>4. CandFits(h) => CandFits(h)'
  BY DEF CandFits, GoodRef, Here, Wanted, SerialOf
<1>5. ComFits(h) => ComFits(h)'
  BY DEF ComFits, Fits, GoodRef, Here, Wanted, SerialOf
<1>6. pc[h] = "open" /\ LinkFits(h) => LinkFits(h)'
  BY DEF LinkFits, Fits, GoodRef, Here, Wanted, SerialOf
<1>7. \A e \in listed[h] : Shows(e) => Shows(e)'
  BY DEF Shows, GoodRef, Here, SerialOf
<1> QED
  BY <1>4, <1>5, <1>6, <1>7 DEF Knows

\* What is known when a step of the process has left the bus alone: only what its next
\* place requires has to be shown.
LEMMA KnowsHere ==
  ASSUME HostsTypeOK, NEW h \in Hosts, Knows(h), UNCHANGED <<bus, gen, want>>, listed'[h] = listed[h],
         pc'[h] \in Trying => CandFits(h)',
         pc'[h] = "com" => ComFits(h)',
         pc'[h] = "open" => LinkFits(h)'
  PROVE  Knows(h)'
<1>1. \A e \in listed[h] : Shows(e) => Shows(e)'
  BY DEF Shows, GoodRef, Here, SerialOf
<1> QED
  BY <1>1 DEF Knows

LEMMA HeldWhenHere ==
  ASSUME HostsTypeOK, NEW r \in RefType, Here(r)
  PROVE  GoodRef(r)
BY DEF HostsTypeOK, RefType, Here, GoodRef

LEMMA RefsHere ==
  ASSUME HostsTypeOK, NEW r \in Refs
  PROVE  Here(r) /\ r \in RefType
BY RefsType DEF Refs, Ref, Here

LEMMA KnowsStep ==
  ASSUME HostsTypeOK, HostsTypeOK', NEW h \in Hosts, Knows(h), Find(h) \/ Close(h)
  PROVE  Knows(h)'
<1>0. UNCHANGED <<bus, gen, want>>
  BY DEF Find, Scan, OpenCandidate, ReadString, Claim, PassEnd, Sleep, SelectCom, OpenCom, ListComs,
         Close, busVars, setup
<1>1. CASE Scan(h) \/ PassEnd(h) \/ Sleep(h) \/ Close(h)
  <2>1. listed' = listed /\ pc'[h] \in {"next", "coms", "failed", "select", "sleep", "scan", "closed"}
    BY <1>1 DEF Scan, PassEnd, Sleep, Close, Goto, Set, HostsTypeOK
  <2> QED
    BY <1>0, <2>1, KnowsHere DEF Trying
<1>2. CASE OpenCandidate(h)
  <2>1. pc[h] = "next" /\ listed' = listed
    BY <1>2 DEF OpenCandidate
  <2>2. CASE pc' = pc
    BY <1>0, <2>1, <2>2, KnowsHere DEF Trying
  <2>3. ASSUME NEW r \in visit[h], Here(r), cand'[h] = r,
               pc'[h] = IF want[h] = Whichever THEN "claim" ELSE "iProduct"
        PROVE  Knows(h)'
    <3>1. GoodRef(r)
      BY <2>3, HeldWhenHere DEF HostsTypeOK
    <3>2. CandFits(h)'
      BY <1>0, <2>3, <3>1 DEF CandFits, GoodRef, Wanted
    <3> QED
      BY <1>0, <2>1, <2>3, <3>2, KnowsHere
  <2> QED
    BY <1>2, <2>2, <2>3 DEF OpenCandidate, Goto, Set, HostsTypeOK
<1>3. CASE ReadString(h)
  <2> DEFINE r == cand[h]
  <2>1. pc[h] \in {"iProduct", "iSerial"} /\ cand' = cand
    BY <1>3 DEF ReadString
  <2>2. CandFits(h) /\ GoodRef(r)
    BY <2>1 DEF Knows, CandFits, Trying
  <2>3. ASSUME NEW s, Identified(h, s),
               s = NoSerial \/ (Here(r) /\ bus[r.port].at = pc[h] /\ s = bus[r.port].serial)
        PROVE  Knows(h)'
    <3>1. Here(r) => s \in {SerialOf(bus[r.port]), NoSerial}
      BY <2>1, <2>3 DEF SerialOf
    <3>2. CASE want[h] = List
      <4>1. pc'[h] = "next" /\ listed'[h] = listed[h] \cup {[ref |-> r, serial |-> s]}
        BY <2>3, <3>2 DEF Identified, Drop, Goto, Set, HostsTypeOK
      <4>2. Shows([ref |-> r, serial |-> s])
        BY <2>2, <3>1 DEF Shows
      <4>3. \A e \in listed'[h] : Shows(e)
        BY <4>1, <4>2 DEF Knows
      <4>4. \A e \in listed'[h] : Shows(e)'
        BY <1>0, <4>3 DEF Shows, GoodRef, Here, SerialOf
      <4> QED
        BY <4>1, <4>4 DEF Knows, Trying
    <3>3. CASE want[h] # List
      <4>1. listed' = listed /\ (pc'[h] = "next" \/ (pc'[h] = "claim" /\ s = want[h]))
        BY <2>3, <3>3 DEF Identified, MatchesSerial, Drop, Goto, Set, HostsTypeOK
      <4>2. pc'[h] = "claim" => (Here(r) => Wanted(h, r.port))
        BY <3>1, <4>1 DEF Wanted, HostsTypeOK
      <4>3. pc'[h] = "claim" => CandFits(h)'
        BY <1>0, <2>1, <2>2, <4>2 DEF CandFits, GoodRef, Here, Wanted, SerialOf
      <4> QED
        BY <1>0, <4>1, <4>3, KnowsHere DEF Trying
    <3> QED
      BY <3>2, <3>3
  <2>4. CASE pc'[h] \in {"iProduct", "iSerial"} /\ listed' = listed
    <3>1. CandFits(h)'
      BY <1>0, <2>1, <2>2, <2>4 DEF CandFits, GoodRef
    <3> QED
      BY <1>0, <2>4, <3>1, KnowsHere
  <2> QED
    BY <1>3, <2>1, <2>3, <2>4 DEF ReadString, NotInString, Goto, Set, HostsTypeOK
<1>4. CASE Claim(h)
  <2>1. pc[h] = "claim" /\ listed' = listed /\ UNCHANGED <<cand, com>>
    BY <1>4 DEF Claim
  <2>2. CandFits(h)
    BY <2>1 DEF Knows, Trying
  <2>3. CASE /\ Here(cand[h]) /\ HasInterface(cand[h].port)
             /\ owner' = [owner EXCEPT ![cand[h].port] = h]
             /\ link'[h] = [ref |-> cand[h], by |-> "usb"] /\ pc'[h] = "open"
    <3>1. owner'[cand[h].port] = h
      BY <2>3 DEF HostsTypeOK, RefType
    <3>2. Fits(h, cand[h].port)
      BY <2>1, <2>2, <2>3 DEF CandFits, Fits, HasInterface
    <3>3. LinkFits(h)'
      BY <1>0, <2>2, <2>3, <3>1, <3>2 DEF LinkFits, CandFits, GoodRef, Fits, Wanted, SerialOf
    <3> QED
      BY <1>0, <2>1, <2>3, <3>3, KnowsHere DEF Trying
  <2>4. CASE pc'[h] = "next"
    BY <1>0, <2>1, <2>4, KnowsHere DEF Trying
  <2> QED
    BY <1>4, <2>3, <2>4 DEF Claim, Drop, Goto, Set, HostsTypeOK
<1>5. CASE SelectCom(h)
  <2>1. listed' = listed
    BY <1>5 DEF SelectCom
  <2>2. CASE pc'[h] \in {"sleep", "failed"}
    BY <1>0, <2>1, <2>2, KnowsHere DEF Trying
  <2>3. ASSUME pc'[h] = "com", com'[h] = Ref(want[h])
        PROVE  Knows(h)'
    <3>1. ComFits(h)'
      BY <1>0, <2>3 DEF ComFits, Ref
    <3> QED
      BY <1>0, <2>1, <2>3, <3>1, KnowsHere DEF Trying
  <2>4. ASSUME NEW r \in Fitting(h), pc'[h] = "com", com'[h] = r
        PROVE  Knows(h)'
    <3>1. r \in Refs /\ bus[r.port].edl /\ Wanted(h, r.port)
      BY <2>4 DEF Fitting, FirstMatches, ComPorts
    <3>2. GoodRef(r)
      BY <3>1, RefsHere, HeldWhenHere
    <3>3. ComFits(h)'
      BY <1>0, <2>4, <3>1, <3>2 DEF ComFits, Fits, GoodRef, Wanted, SerialOf
    <3> QED
      BY <1>0, <2>1, <2>4, <3>3, KnowsHere DEF Trying
  <2> QED
    BY <1>5, <2>2, <2>3, <2>4 DEF SelectCom, QudFails, Goto, Set, HostsTypeOK
<1>6. CASE OpenCom(h)
  <2> DEFINE p == com[h].port
  <2>1. pc[h] = "com" /\ listed' = listed /\ com' = com
    BY <1>6 DEF OpenCom
  <2>2. ComFits(h)
    BY <2>1 DEF Knows
  <2>3. CASE /\ bus[p] # NoDev /\ owner' = [owner EXCEPT ![p] = h]
             /\ link'[h] = [ref |-> Ref(p), by |-> "qud"] /\ pc'[h] = "open"
    <3>1. p \in Ports /\ gen[p] \in Nat /\ Ref(p).port = p /\ Ref(p).gen = gen[p]
      BY DEF HostsTypeOK, RefType, Ref
    <3>2. owner'[p] = h /\ GoodRef(Ref(p)) /\ Here(Ref(p))
      BY <2>3, <3>1 DEF HostsTypeOK, GoodRef, Here
    <3>3. Ref(p) = com[h] => Fits(h, p)
      BY <2>2, <3>2 DEF ComFits, Fits, Wanted
    <3>4. LinkFits(h)'
      BY <1>0, <2>1, <2>3, <3>1, <3>2, <3>3 DEF LinkFits, GoodRef, Fits, Wanted, SerialOf
    <3> QED
      BY <1>0, <2>1, <2>3, <3>4, KnowsHere DEF Trying
  <2>4. CASE pc'[h] \in {"sleep", "failed"}
    BY <1>0, <2>1, <2>4, KnowsHere DEF Trying
  <2> QED
    BY <1>6, <2>3, <2>4 DEF OpenCom, QudFails, Goto, Set, HostsTypeOK
<1>7. CASE ListComs(h)
  <2>1. pc'[h] = "closed" /\ listed'[h] = listed[h] \cup
          {[ref |-> r, serial |-> SerialOf(bus[r.port])] : r \in FirstMatches}
    BY <1>7 DEF ListComs, Goto, Set, HostsTypeOK
  <2>2. ASSUME NEW r \in FirstMatches
        PROVE  Shows([ref |-> r, serial |-> SerialOf(bus[r.port])])
    <3>1. r \in Refs
      BY DEF FirstMatches, ComPorts
    <3> QED
      BY <3>1, RefsHere, HeldWhenHere DEF Shows
  <2>3. \A e \in listed'[h] : Shows(e)
    BY <2>1, <2>2 DEF Knows
  <2>4. \A e \in listed'[h] : Shows(e)'
    BY <1>0, <2>3 DEF Shows, GoodRef, Here, SerialOf
  <2> QED
    BY <2>1, <2>4 DEF Knows, Trying
<1> QED
  BY <1>1, <1>2, <1>3, <1>4, <1>5, <1>6, <1>7 DEF Find

LEMMA KnowStep == HostsTypeOK /\ KnowInv /\ [OpenNext]_openVars => KnowInv'
<1> SUFFICES ASSUME HostsTypeOK, KnowInv, [OpenNext]_openVars, NEW k \in Hosts PROVE Knows(k)'
  BY DEF KnowInv
<1>0. /\ Knows(k) /\ HostsTypeOK'
      /\ pc[k] = "open" => link[k].ref.port \in Ports
  BY HostsStepType DEF KnowInv, HostsTypeOK, LinkType, RefType
<1>1. CASE UNCHANGED openVars
  BY <1>0, <1>1, KnowsSame DEF openVars, busVars, setup, passVars
<1>2. CASE World
  BY <1>0, <1>2, KnowsWorld
<1>3. ASSUME NEW h \in Hosts, Find(h) \/ Close(h), k # h
      PROVE  Knows(k)'
  <2>1. UNCHANGED <<bus, gen, want>>
    BY <1>3 DEF Find, Scan, OpenCandidate, ReadString, Claim, PassEnd, Sleep, SelectCom, OpenCom,
                ListComs, Close, busVars, setup
  <2> QED
    BY <1>0, <1>3, <2>1, StepAlone, KnowsSame
<1> QED
  BY <1>0, <1>1, <1>2, <1>3, KnowsStep DEF OpenNext

LEMMA KnowInvariant == OpenSpec => []KnowInv
BY KnowInit, KnowStep, HostsTypeCorrect, PTL DEF OpenSpec

\* The device a process has is the one it was asked for, its alone, whatever devices were
\* exchanged and other processes did meanwhile; and what is listed is true.
THEOREM DeviceIsRight == OpenSpec => []RightDevice
<1>1. KnowInv => RightDevice
  BY DEF KnowInv, Knows, LinkFits, Fits, Shows, RightDevice
<1> QED
  BY <1>1, KnowInvariant, PTL
=============================================================================
