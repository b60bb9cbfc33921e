-------------------------------- MODULE Vip --------------------------------
(***************************************************************************)
(* A VIP flashing session: the tables of VipTables are signed and the same *)
(* run is repeated, this time sending each table to the programmer when    *)
(* the packets it covers are due (src/src/vip.c, second half, and          *)
(* firehose_vip_send_table()).  The programmer's side is the checker of    *)
(* the simulated device (src/src/sim.c).                                   *)
(***************************************************************************)
EXTENDS VipTables

VARIABLES
  \* struct vip_transfer_data, and the progress of the run that drives it
  hpc,                \* where the host is for the current packet
  frame,              \* packet being sent, from 0
  state,              \* enum vip_state
  signed_table,       \* payload of DigestsToSign.bin.mbn
  chained_num,        \* chained tables opened by vip_transfer_init()
  chained_cur,        \* chained tables sent
  frames_sent,
  frames_left,
  fh_parse_status,    \* the answer to a table is still to be read
  table_read,         \* the file of the table now due was read to its end
  vipFailed,          \* a packet was skipped after a VIP error
  \* the checker in the device
  vip_hashes,
  vip_hash_count,
  vip_hash_idx,
  vip_chain_hash,
  vip_has_chain_hash,
  errors              \* kinds of verification error reported so far

hostVars == <<hpc, frame, state, signed_table, chained_num, chained_cur,
              frames_sent, frames_left, fh_parse_status, table_read, vipFailed>>
devVars  == <<vip_hashes, vip_hash_count, vip_hash_idx, vip_chain_hash,
              vip_has_chain_hash, errors>>
vars     == <<genVars, hostVars, devVars>>

SIM_VIP_MAX_HASHES == SignedMax + MaxChained * ChainedMax

\* Packets a session can verify: what the loaded tables can describe at most.
Capacity == SIM_VIP_MAX_HASHES

-----------------------------------------------------------------------------
(* The device: sim_vip_recv_table() and sim_vip_check_chunk().             *)

\* 32-byte entries of a table, the chain hash included.
Entries(f) == f.count + (IF f.linked THEN 1 ELSE 0)

\* Append the first n digests of f, as far as the array reaches.
LoadHashes(f, n) ==
  LET room       == SIM_VIP_MAX_HASHES - vip_hash_count
      data_count == Lesser(n, room)
  IN /\ vip_hashes' = [j \in 0 .. SIM_VIP_MAX_HASHES - 1 |->
                         IF vip_hash_count <= j /\ j < vip_hash_count + data_count
                           THEN Entry(f, j - vip_hash_count) ELSE vip_hashes[j]]
     /\ vip_hash_count' = vip_hash_count + data_count

\* Variant: the chain hash of a full signed table is loaded like a digest.
RecvSignedWhole(f) ==
  /\ LoadHashes(f, Entries(f))
  /\ vip_chain_hash' = f.chain
  /\ vip_has_chain_hash' = f.linked
  /\ UNCHANGED errors

\* The signed table.  A full one (SignedMax digests and a hash) announces a
\* chained table; an empty payload is not recognised as a table at all.
RecvSigned(f) ==
  IF Entries(f) = 0
    THEN /\ errors' = errors \cup {"badtable"}
         /\ UNCHANGED <<vip_hashes, vip_hash_count, vip_chain_hash, vip_has_chain_hash>>
    ELSE LET has_chain == Entries(f) = SignedMax + 1
         IN /\ LoadHashes(f, IF has_chain THEN Entries(f) - 1 ELSE Entries(f))
            /\ vip_chain_hash' = IF has_chain THEN f.chain ELSE vip_chain_hash
            /\ vip_has_chain_hash' = (has_chain \/ vip_has_chain_hash)
            /\ errors' = IF vip_hash_count + f.count > SIM_VIP_MAX_HASHES
                           THEN errors \cup {"overflow"} ELSE errors

\* A chained table: compared with the chain hash if one is pending, then
\* loaded.  The padding byte marks the last table, which has no chain hash.
RecvChained(f) ==
  LET has_chain == ~f.pad /\ Entries(f) = ChainedMax + 1
      count     == IF has_chain THEN Entries(f) - 1 ELSE Entries(f)
  IN /\ LoadHashes(f, count)
     /\ vip_chain_hash' = IF has_chain THEN f.chain ELSE vip_chain_hash
     /\ vip_has_chain_hash' = has_chain
     /\ errors' = errors
          \cup (IF ~vip_has_chain_hash THEN {"unverified"}
                ELSE IF vip_chain_hash # f THEN {"chain"} ELSE {})
          \cup (IF vip_hash_count + count > SIM_VIP_MAX_HASHES
                  THEN {"overflow"} ELSE {})

\* Variant: a packet beyond the last digest passes.
CheckChunkLax(digest) ==
  IF vip_hash_count = 0
    THEN UNCHANGED <<vip_hash_idx, errors>>
    ELSE /\ vip_hash_idx' = vip_hash_idx + 1
         /\ errors' = IF vip_hash_idx < vip_hash_count /\ vip_hashes[vip_hash_idx] # digest
                        THEN errors \cup {"mismatch"} ELSE errors

\* One packet, verified against the next digest once any table was loaded.
CheckChunk(digest) ==
  IF vip_hash_count = 0
    THEN UNCHANGED <<vip_hash_idx, errors>>
    ELSE /\ vip_hash_idx' = vip_hash_idx + 1
         /\ errors' = IF vip_hash_idx >= vip_hash_count THEN errors \cup {"noentry"}
                      ELSE IF vip_hashes[vip_hash_idx] # digest
                        THEN errors \cup {"mismatch"} ELSE errors

-----------------------------------------------------------------------------
(* The host.                                                               *)

HostInit ==
  /\ hpc = "off"
  /\ frame = 0
  /\ state = "DISABLED"
  /\ signed_table = NoHash
  /\ chained_num = 0
  /\ chained_cur = 0
  /\ frames_sent = 0
  /\ frames_left = 0
  /\ fh_parse_status = FALSE
  /\ table_read = FALSE
  /\ vipFailed = FALSE
  /\ vip_hashes = [j \in 0 .. SIM_VIP_MAX_HASHES - 1 |-> -1]
  /\ vip_hash_count = 0
  /\ vip_hash_idx = 0
  /\ vip_chain_hash = NoHash
  /\ vip_has_chain_hash = FALSE
  /\ errors = {}

Init == GenInit /\ HostInit

\* Opening the first n chained tables.
OpenTables(n) ==
  /\ hpc = "off"
  /\ gpc = "done"
  /\ signed_table' = tosign
  /\ chained_num' = n
  /\ state' = "INIT"
  /\ chained_cur' = 0
  /\ hpc' = "tables"
  /\ UNCHANGED <<frame, frames_sent, frames_left, fh_parse_status, table_read,
                 vipFailed, devVars, genVars>>

\* Variant: the last slot is never used.
TransferInitShort ==
  \E n \in 0 .. MaxChained - 1 :
    /\ 0 .. n - 1 \subseteq DOMAIN chained
    /\ n < MaxChained - 1 => n \notin DOMAIN chained
    /\ OpenTables(n)

\* The generated set is signed (by an external tool) and vip_transfer_init()
\* opens it: every chained table in the directory, but no more than
\* MaxChained of them.
TransferInit ==
  \E n \in 0 .. MaxChained :
    /\ 0 .. n - 1 \subseteq DOMAIN chained
    /\ n < MaxChained => n \notin DOMAIN chained
    /\ OpenTables(n)

\* Variant: the table is found to be used up one packet late.
CountFrameLate(sent, limit) ==
  /\ frames_sent' = sent + 1
  /\ frames_left' = limit
  /\ state' = IF sent + 1 > limit THEN "SEND_NEXT_TABLE" ELSE "SEND_DATA"

\* Variant: the table is found to be used up one packet early.
CountFrameEarly(sent, limit) ==
  /\ frames_sent' = sent + 1
  /\ frames_left' = limit
  /\ state' = IF sent + 2 >= limit THEN "SEND_NEXT_TABLE" ELSE "SEND_DATA"

\* The tail of vip_transfer_handle_tables(): count the packet about to go out
\* and see whether the current table ends with it.
CountFrame(sent, limit) ==
  /\ frames_sent' = sent + 1
  /\ frames_left' = limit
  /\ state' = IF sent + 1 >= limit THEN "SEND_NEXT_TABLE" ELSE "SEND_DATA"

\* No table is due before this packet.  An answer that an earlier, failed
\* exchange left unread is still waited for.
NoTableDue ==
  /\ hpc = "tables"
  /\ state = "SEND_DATA"
  /\ CountFrame(frames_sent, frames_left)
  /\ hpc' = IF fh_parse_status THEN "status" ELSE "write"
  /\ UNCHANGED <<frame, signed_table, chained_num, chained_cur, fh_parse_status,
                 table_read, vipFailed, devVars, genVars>>

SendSigned ==
  /\ hpc = "tables"
  /\ state = "INIT"
  /\ ~table_read
  /\ RecvSigned(signed_table)
  /\ CountFrame(0, SignedMax)
  /\ fh_parse_status' = TRUE
  /\ hpc' = "status"
  /\ UNCHANGED <<frame, signed_table, chained_num, chained_cur, table_read,
                 vipFailed, vip_hash_idx, genVars>>

SendChained ==
  /\ hpc = "tables"
  /\ state = "SEND_NEXT_TABLE"
  /\ chained_cur < chained_num
  /\ ~table_read
  /\ RecvChained(chained[chained_cur])
  /\ CountFrame(0, ChainedMax)
  /\ fh_parse_status' = TRUE
  /\ chained_cur' = chained_cur + 1
  /\ hpc' = "status"
  /\ UNCHANGED <<frame, signed_table, chained_num, table_read, vipFailed,
                 vip_hash_idx, genVars>>

\* The programmer acknowledges the table.
TableAccepted ==
  /\ hpc = "status"
  /\ fh_parse_status' = FALSE
  /\ hpc' = "write"
  /\ UNCHANGED <<frame, state, signed_table, chained_num, chained_cur, frames_sent,
                 frames_left, table_read, vipFailed, devVars, genVars>>

\* The packet itself: an XML command or one chunk of raw data.
WritePacket ==
  /\ hpc = "write"
  /\ CheckChunk(frame)
  /\ frame' = frame + 1
  /\ hpc' = IF frame + 1 < npackets THEN "tables" ELSE "done"
  /\ UNCHANGED <<state, signed_table, chained_num, chained_cur, frames_sent,
                 frames_left, fh_parse_status, table_read, vipFailed,
                 vip_hashes, vip_hash_count, vip_chain_hash, vip_has_chain_hash,
                 genVars>>

\* Variant: the packet is tried again, whatever went wrong.
GiveUpNever(why) == UNCHANGED <<hpc, frame, vipFailed>>

\* What the run does when a packet could not be sent: it ends, except that the
\* failure of setbootablestoragedrive, which only a reset may follow, is
\* ignored and the next packet tried.
GiveUp(why) ==
  \/ /\ hpc' = why
     /\ UNCHANGED <<frame, vipFailed>>
  \/ /\ ~vipFailed
     /\ frame >= 1
     /\ frame >= npackets - 2
     /\ vipFailed' = TRUE
     /\ frame' = frame + 1
     /\ hpc' = IF frame + 1 < npackets THEN "tables" ELSE "done"

\* No chained table is left.
MissingTable ==
  /\ hpc = "tables"
  /\ state = "SEND_NEXT_TABLE"
  /\ chained_cur >= chained_num
  /\ GiveUp("missing")
  /\ UNCHANGED <<state, signed_table, chained_num, chained_cur, frames_sent,
                 frames_left, fh_parse_status, table_read, devVars, genVars>>

\* The transfer of the due table fails; the device may have got it even so.
\* Its file has been read, so that it can not be sent again.
TableWriteFails ==
  /\ hpc = "tables"
  /\ \/ state = "INIT"
     \/ state = "SEND_NEXT_TABLE" /\ chained_cur < chained_num
  /\ table_read' = TRUE
  /\ \/ UNCHANGED devVars
     \/ /\ ~table_read
        /\ IF state = "INIT" THEN RecvSigned(signed_table)
                             ELSE RecvChained(chained[chained_cur])
        /\ UNCHANGED vip_hash_idx
  /\ GiveUp("failed")
  /\ UNCHANGED <<state, signed_table, chained_num, chained_cur, frames_sent,
                 frames_left, fh_parse_status, genVars>>

\* The table is rejected or not answered in time, or the packet's own transfer
\* fails: the packet is not sent, although it has been counted.
StatusOrWriteFails ==
  /\ hpc \in {"status", "write"}
  /\ GiveUp("failed")
  /\ UNCHANGED <<state, signed_table, chained_num, chained_cur, frames_sent,
                 frames_left, fh_parse_status, table_read, devVars, genVars>>

HostStep == NoTableDue \/ SendSigned \/ SendChained \/ TableAccepted \/ WritePacket
Faults   == MissingTable \/ TableWriteFails \/ StatusOrWriteFails

Finished ==
  /\ \/ hpc \in {"done", "failed", "missing"}
     \/ gpc = "failed"
  /\ UNCHANGED vars

Next ==
  \/ GenNext /\ UNCHANGED <<hostVars, devVars>>
  \/ TransferInit
  \/ HostStep
  \/ Faults
  \/ Finished

Spec == Init /\ [][Next]_vars

\* The tool is one thread that runs to its end: it never rests while it has a
\* step to take, and every call it makes returns.
FairSpec ==
  /\ Spec
  /\ WF_vars((WriteToSign \/ WriteChained \/ LinkTable) /\ UNCHANGED <<hostVars, devVars>>)
  /\ WF_vars(TransferInit \/ HostStep \/ Faults)

-----------------------------------------------------------------------------
(* Properties.                                                             *)

IsFile(f) ==
  /\ f.fresh \in BOOLEAN /\ f.pad \in BOOLEAN /\ f.linked \in BOOLEAN
  /\ f.first \in Nat /\ f.count \in Nat

ErrorKinds == {"badtable", "overflow", "unverified", "chain", "noentry", "mismatch"}

GenTypeOK ==
  /\ gpc \in {"run", "chained", "link", "done", "failed"}
  /\ npackets \in Nat /\ digest_num_written \in Nat
  /\ table_open \in BOOLEAN
  /\ gen_chained_num \in Nat /\ chain_idx \in Nat /\ remaining_digests \in Nat
  /\ link \in Int
  /\ IsFile(tosign)
  /\ \A i \in DOMAIN chained : i \in Nat /\ IsFile(chained[i])
  /\ \A i \in DOMAIN chain_ctxs : IsFile(chain_ctxs[i])

HostTypeOK ==
  /\ hpc \in {"off", "tables", "status", "write", "done", "failed", "missing"}
  /\ hpc # "off" => IsFile(signed_table)
  /\ frame \in Nat
  /\ state \in {"DISABLED", "INIT", "SEND_DATA", "SEND_NEXT_TABLE"}
  /\ chained_num \in 0 .. MaxChained
  /\ chained_cur \in Nat /\ frames_sent \in Nat /\ frames_left \in Nat
  /\ fh_parse_status \in BOOLEAN /\ table_read \in BOOLEAN /\ vipFailed \in BOOLEAN

DevTypeOK ==
  /\ vip_hashes \in [0 .. SIM_VIP_MAX_HASHES - 1 -> Int]
  /\ vip_hash_count \in 0 .. SIM_VIP_MAX_HASHES
  /\ vip_hash_idx \in Nat
  /\ vip_has_chain_hash \in BOOLEAN
  /\ errors \subseteq ErrorKinds

TypeOK == GenTypeOK /\ HostTypeOK /\ DevTypeOK

\* A session in which nothing was skipped after a VIP error, over a complete
\* set of tables.
InOrder == Complete /\ ~vipFailed

\* The device never reports a verification error (a packet with no digest or
\* with another packet's digest, a chained table that does not hash to what
\* its predecessor announced or that nothing announced) when the tables were
\* generated from the same run.  The host decides when to send a table by
\* counting packets, the device by consuming digests: the two counts, the
\* split of vip.c and the chain must agree at every boundary.
NoFalseRejection == InOrder => errors = {}

\* Whenever the host is about to write a packet, the next unused digest of the
\* device is the digest of that very packet.
DigestReady ==
  InOrder /\ hpc = "write" =>
    /\ vip_hash_idx < vip_hash_count
    /\ vip_hashes[vip_hash_idx] = frame

\* A finished session has used every digest it loaded and loaded no digest
\* that belongs to an older generation left in the same directory.
DigestsConsumed ==
  InOrder /\ hpc = "done" =>
    vip_hash_idx = npackets /\ vip_hash_count = npackets

\* The chained tables run out only when the session is larger than what
\* MaxChained tables can describe.
MissingOnlyBeyondCapacity ==
  InOrder /\ hpc = "missing" => frame = Capacity

\* Digests lost during the dry run (a write error closes DIGEST_TABLE.bin and
\* the run goes on) are noticed: such a session does not end as if all its
\* packets had been verified.
TruncationDetected ==
  gpc = "done" /\ ~vipFailed /\ digest_num_written < npackets /\ hpc = "done" =>
    errors # {}

\* A table reaches the device only when the digests of the one before it are
\* used up, never earlier, and the signed table only before any packet.
TablesOnDemand ==
  [][InOrder /\ vip_hash_count' # vip_hash_count =>
       vip_hash_idx = vip_hash_count /\ vip_hash_idx' = vip_hash_idx]_vars

\* A session comes to an end: it never waits for a table for ever.
SessionEnds == hpc # "off" ~> hpc \in {"done", "failed", "missing"}

\* A complete set of tables serves the session it was generated for.
TablesSuffice == InOrder => hpc # "missing"
=============================================================================
