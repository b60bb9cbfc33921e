------------------------------- MODULE VipInv -------------------------------
(* The inductive invariant behind the safety properties of Vip.            *)
EXTENDS Vip

\* First packet described by chained table i, and how many packets the signed
\* table and the first i chained tables describe together.
First(i) == SignedMax + i * ChainedMax

\* Chained tables of the set being generated, and the payload of table i.
Num == gen_chained_num
Payload(i) ==
  IF i = Num - 1 THEN File(First(i), digest_num_written - First(i), TRUE)
                 ELSE File(First(i), ChainedMax, FALSE)

\* Table i when the tables from l on have been linked to their successors.
Linked(i, l) ==
  IF l <= i /\ i < Num - 1 THEN WithChain(Payload(i), chained[i + 1]) ELSE Payload(i)

\* Num tables are just enough for what the signed one cannot hold.
NumFits ==
  /\ SignedMax < digest_num_written
  /\ Num >= 1
  /\ First(Num - 1) < digest_num_written
  /\ digest_num_written <= First(Num)

GenInv ==
  /\ digest_num_written <= npackets
  /\ gpc # "run" => npackets > 0
  /\ gpc = "run" => chain_idx = 0 /\ DOMAIN chain_ctxs = {}
  /\ gpc \in {"run", "chained", "link", "failed"} => hpc = "off"
  /\ gpc = "chained" =>
       /\ NumFits
       /\ chain_idx < Num
       /\ remaining_digests = digest_num_written - First(chain_idx)
       /\ tosign = File(0, SignedMax, FALSE)
       /\ DOMAIN chain_ctxs = 0 .. chain_idx - 1
       /\ \A i \in 0 .. chain_idx - 1 :
            i \in DOMAIN chained /\ chained[i] = Payload(i) /\ chain_ctxs[i] = Payload(i)
  /\ gpc = "link" =>
       /\ NumFits
       /\ link \in 0 .. Num - 1
       /\ tosign = File(0, SignedMax, FALSE)
       /\ DOMAIN chain_ctxs = 0 .. Num - 1
       /\ \A i \in 0 .. Num - 1 :
            i \in DOMAIN chained /\ chained[i] = Linked(i, link) /\ chain_ctxs[i] = Payload(i)
       /\ link < Num - 1 => hash = chained[link + 1]
  /\ gpc = "done" =>
       \/ /\ digest_num_written <= SignedMax
          /\ Num = 0
          /\ tosign = File(0, digest_num_written, FALSE)
       \/ /\ NumFits
          /\ tosign = WithChain(File(0, SignedMax, FALSE), chained[0])
          /\ \A i \in 0 .. Num - 1 : i \in DOMAIN chained /\ chained[i] = Linked(i, 0)

\* What c chained tables and the signed one describe, and where table c - 1
\* (the signed one for c = 0) begins.
Covered(c) == Lesser(First(c), digest_num_written)
Start(c)   == IF c = 0 THEN 0 ELSE First(c - 1)

\* The host's packet count and the device's digest count agree.
InStep ==
  /\ vip_hash_count = Covered(chained_cur)
  /\ frames_left = IF chained_cur = 0 THEN SignedMax ELSE ChainedMax
  /\ frame + (IF hpc = "tables" THEN 0 ELSE 1) = Start(chained_cur) + frames_sent
  /\ frames_sent <= frames_left
  /\ state = IF frames_sent = frames_left THEN "SEND_NEXT_TABLE" ELSE "SEND_DATA"
  /\ First(chained_cur) < digest_num_written =>
       vip_has_chain_hash /\ vip_chain_hash = chained[chained_cur]

SyncInv ==
  /\ hpc = "off" => errors = {} /\ vip_hash_count = 0 /\ vip_hash_idx = 0 /\ frame = 0
  /\ hpc # "off" => 0 .. chained_num - 1 \subseteq DOMAIN chained
  /\ InOrder => errors = {}
  /\ InOrder /\ hpc \in {"tables", "status", "write"} =>
       /\ frame < npackets
       /\ vip_hash_idx = frame
       /\ \A j \in 0 .. vip_hash_count - 1 : vip_hashes[j] = j
       /\ signed_table = tosign
       /\ chained_num < MaxChained => Num <= chained_num
       /\ chained_cur <= chained_num
       /\ IF state = "INIT"
            THEN hpc = "tables" /\ frame = 0 /\ chained_cur = 0 /\ vip_hash_count = 0
            ELSE InStep
  /\ InOrder /\ hpc = "done" => vip_hash_idx = npackets /\ vip_hash_count = npackets
  /\ InOrder /\ hpc = "missing" => frame = Capacity

BaseInv == TypeOK /\ GenInv /\ SyncInv

\* Digests were lost in the dry run, and the session over the tables of those
\* that were kept has met no error.
Unnoticed == gpc = "done" /\ ~vipFailed /\ digest_num_written < npackets /\ errors = {}

\* Such a session has sent no more packets than there are digests: each table
\* the device took was announced, so that it holds the digests of the tables
\* sent and never those of another file.
ShortInv ==
  /\ hpc = "off" => ~vip_has_chain_hash
  /\ Unnoticed => hpc # "done"
  /\ Unnoticed /\ hpc \in {"tables", "status", "write"} =>
       /\ frame <= digest_num_written
       /\ vip_hash_idx = frame
       /\ signed_table = tosign
       /\ IF state = "INIT"
            THEN hpc = "tables" /\ chained_cur = 0 /\ vip_hash_count = 0 /\ ~vip_has_chain_hash
            ELSE /\ vip_hash_count = Covered(chained_cur)
                 /\ vip_hash_count > 0
                 /\ vip_has_chain_hash =>
                      First(chained_cur) < digest_num_written /\ vip_chain_hash = chained[chained_cur]

IInv == BaseInv /\ ShortInv
=============================================================================
