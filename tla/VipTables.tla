----------------------------- MODULE VipTables -----------------------------
(***************************************************************************)
(* The VIP digest-table generator (src/src/vip.c, first half).            *)
(*                                                                         *)
(* A dry run hashes every packet it would send into DIGEST_TABLE.bin; when *)
(* it ends, create_chained_tables() cuts that list into DigestsToSign.bin  *)
(* and ChainedTableOfDigests<n>.bin and links each file to the next one by *)
(* appending the hash of its final content.                                *)
(*                                                                         *)
(* SHA-256 is taken to be collision free: the digest of packet k is k, and *)
(* the hash of a file is the content of the file.                          *)
(***************************************************************************)
EXTENDS Integers

CONSTANTS
  SignedMax,    \* MAX_DIGESTS_PER_SIGNED_TABLE: 53 in the code
  ChainedMax,   \* MAX_DIGESTS_PER_CHAINED_TABLE: 255 in the code
  MaxChained,   \* MAX_CHAINED_FILES: 32 in the code
  MaxPackets,   \* bound: packets of one flashing run
  MaxStale,     \* bound: chained tables an earlier generation left behind
  NoHash        \* "no chain hash appended to this file"

ASSUME SizesAssumption ==
  /\ SignedMax \in Nat \ {0}
  /\ ChainedMax \in Nat \ {0}
  /\ MaxChained \in Nat
  /\ MaxPackets \in Nat
  /\ MaxStale \in Nat

VARIABLES
  gpc,                 \* where vip_gen_chunk_store()/create_chained_tables() is
  npackets,            \* packets sent by the dry run so far
  digest_num_written,  \* digests in DIGEST_TABLE.bin
  table_open,          \* digest_table_fd # NULL
  tosign,              \* content of DigestsToSign.bin
  chained,             \* contents of ChainedTableOfDigests<i>.bin, by i
  chain_ctxs,          \* SHA2 contexts saved after each chained payload
  gen_chained_num,     \* chained_num of create_chained_tables()
  chain_idx,           \* chained tables written so far
  remaining_digests,
  link,                \* loop variable of the backward hashing pass
  hash                 \* hash of the file handled last by that pass

genVars == <<gpc, npackets, digest_num_written, table_open, tosign, chained,
             chain_ctxs, gen_chained_num, chain_idx, remaining_digests, link,
             hash>>

(***************************************************************************)
(* A table file holds the digests of packets first .. first + count - 1,   *)
(* then the padding byte or, once linked, the chain hash.  fresh is FALSE  *)
(* for a file that an earlier generation, of other images, left behind.    *)
(***************************************************************************)
File(first, count, pad) ==
  [fresh |-> TRUE, first |-> first, count |-> count, pad |-> pad,
   linked |-> FALSE, chain |-> NoHash]

WithChain(f, h) ==
  [fresh |-> f.fresh, first |-> f.first, count |-> f.count, pad |-> f.pad,
   linked |-> TRUE, chain |-> h]

StaleFile ==
  [fresh |-> FALSE, first |-> 0, count |-> ChainedMax, pad |-> FALSE,
   linked |-> FALSE, chain |-> NoHash]

\* The digest stored in slot j of f: -1 stands for one of no current packet.
Entry(f, j) == IF f.fresh THEN f.first + j ELSE -1

Lesser(a, b) == IF a < b THEN a ELSE b

-----------------------------------------------------------------------------
GenInit ==
  /\ gpc = "run"
  /\ npackets = 0
  /\ digest_num_written = 0
  /\ table_open = TRUE
  /\ tosign = File(0, 0, FALSE)
  /\ \E stale \in 0 .. MaxStale : chained = [i \in 0 .. stale - 1 |-> StaleFile]
  /\ chain_ctxs = [i \in {} |-> StaleFile]
  /\ gen_chained_num = 0
  /\ chain_idx = 0
  /\ remaining_digests = 0
  /\ link = -1
  /\ hash = NoHash

\* vip_gen_chunk_store(): once per packet, whatever its kind.  The write may
\* fail, which closes the file; later packets are then not recorded.
StorePacket ==
  /\ gpc = "run"
  /\ npackets < MaxPackets
  /\ npackets' = npackets + 1
  /\ \/ /\ table_open
        /\ digest_num_written' = digest_num_written + 1
        /\ UNCHANGED table_open
     \/ /\ table_open' = FALSE
        /\ UNCHANGED digest_num_written
  /\ UNCHANGED <<gpc, tosign, chained, chain_ctxs, gen_chained_num, chain_idx,
                 remaining_digests, link, hash>>

\* Variant: the division rounded down.
ChainedNumFloor(total) ==
  IF total > SignedMax THEN (total - SignedMax) \div ChainedMax ELSE 0

ChainedNum(total) ==
  IF total > SignedMax
    THEN ((total - SignedMax) + ChainedMax - 1) \div ChainedMax
    ELSE 0

\* vip_gen_finalize(), whether or not the run it ends succeeded, and step 1 of
\* create_chained_tables().
WriteToSign ==
  /\ gpc = "run"
  /\ npackets > 0
  /\ gen_chained_num' = ChainedNum(digest_num_written)
  /\ tosign' = File(0, Lesser(digest_num_written, SignedMax), FALSE)
  /\ IF digest_num_written > SignedMax
       THEN /\ gpc' = "chained"
            /\ remaining_digests' = digest_num_written - SignedMax
       ELSE /\ gpc' = "done"
            /\ remaining_digests' = 0
  /\ UNCHANGED <<npackets, digest_num_written, table_open, chained, chain_ctxs,
                 chain_idx, link, hash>>

\* Digests that go into the next chained table, and those left after it.
table_digests == Lesser(remaining_digests, ChainedMax)
left          == remaining_digests - table_digests

\* Step 2, one iteration: the payload of the next chained table, its padding
\* byte when it is the last one, and the hash context over both.
WriteChained ==
  /\ gpc = "chained"
  /\ LET file == File(digest_num_written - remaining_digests, table_digests, left = 0)
     IN /\ chained' = [i \in DOMAIN chained \cup {chain_idx} |->
                         IF i = chain_idx THEN file ELSE chained[i]]
        /\ chain_ctxs' = [i \in 0 .. chain_idx |->
                            IF i = chain_idx THEN file ELSE chain_ctxs[i]]
        /\ remaining_digests' = left
        /\ chain_idx' = chain_idx + 1
        /\ IF left = 0
             THEN /\ gpc' = "link"
                  /\ link' = gen_chained_num - 1
             ELSE UNCHANGED <<gpc, link>>
  /\ UNCHANGED <<npackets, digest_num_written, table_open, tosign,
                 gen_chained_num, hash>>

\* Variant: the hash of a table is taken before its own chain hash is appended.
LinkPayload ==
  /\ gpc = "link"
  /\ hash' = chain_ctxs[link]
  /\ IF link = 0
       THEN /\ tosign' = WithChain(tosign, hash')
            /\ gpc' = "done"
            /\ UNCHANGED chained
       ELSE /\ chained' = [chained EXCEPT ![link - 1] = WithChain(@, hash')]
            /\ UNCHANGED <<gpc, tosign>>
  /\ link' = link - 1
  /\ UNCHANGED <<npackets, digest_num_written, table_open, chain_ctxs,
                 gen_chained_num, chain_idx, remaining_digests>>

\* Step 3, one iteration: hash file link as it now stands and append the hash
\* to the file before it.
LinkTable ==
  /\ gpc = "link"
  /\ hash' = IF link < gen_chained_num - 1 THEN WithChain(chain_ctxs[link], hash)
                                            ELSE chain_ctxs[link]
  /\ IF link = 0
       THEN /\ tosign' = WithChain(tosign, hash')
            /\ gpc' = "done"
            /\ UNCHANGED chained
       ELSE /\ chained' = [chained EXCEPT ![link - 1] = WithChain(@, hash')]
            /\ UNCHANGED <<gpc, tosign>>
  /\ link' = link - 1
  /\ UNCHANGED <<npackets, digest_num_written, table_open, chain_ctxs,
                 gen_chained_num, chain_idx, remaining_digests>>

\* A file of the set cannot be written: the rest of the pass is abandoned.
TableError ==
  /\ \/ gpc = "run" /\ npackets > 0
     \/ gpc \in {"chained", "link"}
  /\ gpc' = "failed"
  /\ UNCHANGED <<npackets, digest_num_written, table_open, tosign, chained,
                 chain_ctxs, gen_chained_num, chain_idx, remaining_digests,
                 link, hash>>

GenNext == StorePacket \/ WriteToSign \/ WriteChained \/ LinkTable \/ TableError

\* Every packet of the run has its digest in a finished set of tables.
Complete == gpc = "done" /\ digest_num_written = npackets
=============================================================================
