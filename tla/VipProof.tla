------------------------------ MODULE VipProof ------------------------------
(* Proofs that IInv is inductive, and what follows from it.                *)
EXTENDS VipInv, TLAPS

\* First() is an arithmetic progression of natural numbers.
LEMMA FirstStep ==
  /\ First(0) = SignedMax
  /\ \A i \in Nat : /\ First(i) \in Nat
                    /\ First(i + 1) = First(i) + ChainedMax
                    /\ First(i) >= SignedMax
BY SizesAssumption DEF First

\* First() is monotonic.
LEMMA FirstMono == \A i, j \in Nat : i <= j => First(i) <= First(j)
<1> SUFFICES ASSUME NEW i \in Nat, NEW j \in Nat, i <= j
             PROVE  First(i) <= First(j)
  OBVIOUS
<1>1. j - i \in Nat /\ ChainedMax \in Nat
  BY SizesAssumption
<1>2. (j - i) * ChainedMax \in Nat
  BY <1>1
<1>3. j * ChainedMax = i * ChainedMax + (j - i) * ChainedMax
  BY <1>1
<1> QED
  BY <1>2, <1>3, SizesAssumption DEF First

\* The number of chained tables create_chained_tables() computes is just
\* enough for the digests that the signed table cannot hold.
LEMMA ChainedNumFits ==
  ASSUME NEW t \in Nat, t > SignedMax
  PROVE  /\ ChainedNum(t) \in Nat
         /\ ChainedNum(t) >= 1
         /\ First(ChainedNum(t) - 1) < t
         /\ t <= First(ChainedNum(t))
<1> DEFINE m == (t - SignedMax) + ChainedMax - 1
           q == m \div ChainedMax
<1>1. m \in Nat /\ m >= ChainedMax /\ ChainedMax \in Nat /\ ChainedMax > 0 /\ SignedMax \in Nat
  BY SizesAssumption
<1>2. q \in Int /\ ChainedMax * q <= m /\ m < ChainedMax * q + ChainedMax
  BY <1>1
<1>3. q >= 1
  <2>1. ASSUME q <= 0 PROVE FALSE
    <3>1. ChainedMax * q <= 0
      BY <2>1, <1>1, <1>2
    <3> QED
      BY <3>1, <1>1, <1>2
  <2> QED
    BY <2>1, <1>2
<1>4. ChainedNum(t) = q
  BY <1>1 DEF ChainedNum
<1>5. (q - 1) * ChainedMax = ChainedMax * q - ChainedMax /\ q * ChainedMax = ChainedMax * q
  BY <1>1, <1>2
<1> HIDE DEF q
<1> QED
  BY <1>1, <1>2, <1>3, <1>4, <1>5 DEF First

-----------------------------------------------------------------------------
(* The generator.                                                          *)

\* A session can verify a natural number of packets.
LEMMA CapacityNat == SIM_VIP_MAX_HASHES \in Nat /\ SIM_VIP_MAX_HASHES = First(MaxChained)
<1>1. MaxChained \in Nat /\ ChainedMax \in Nat /\ SignedMax \in Nat
  BY SizesAssumption
<1>2. MaxChained * ChainedMax \in Nat
  BY <1>1
<1> QED
  BY <1>1, <1>2 DEF SIM_VIP_MAX_HASHES, First

LEMMA InitInv == Init => BaseInv
<1> SUFFICES ASSUME Init PROVE BaseInv
  OBVIOUS
<1> USE SizesAssumption
<1>1. GenTypeOK
  <2>1. IsFile(tosign)
    BY DEF Init, GenInit, IsFile, File
  <2>2. \A i \in DOMAIN chained : i \in Nat /\ IsFile(chained[i])
    <3>1. PICK stale \in 0 .. MaxStale : chained = [i \in 0 .. stale - 1 |-> StaleFile]
      BY DEF Init, GenInit
    <3>2. IsFile(StaleFile)
      BY DEF IsFile, StaleFile
    <3>3. \A i \in 0 .. stale - 1 : i \in Nat
      OBVIOUS
    <3> QED
      BY <3>1, <3>2, <3>3
  <2>3. DOMAIN chain_ctxs = {}
    BY DEF Init, GenInit
  <2>4. table_open \in BOOLEAN
    BY DEF Init, GenInit
  <2>5. /\ gpc = "run" /\ npackets = 0 /\ digest_num_written = 0 /\ link \in Int
        /\ gen_chained_num = 0 /\ chain_idx = 0 /\ remaining_digests = 0
    BY DEF Init, GenInit
  <2> QED
    BY <2>1, <2>2, <2>3, <2>4, <2>5 DEF GenTypeOK
<1>2. HostTypeOK
  <2>1. fh_parse_status \in BOOLEAN /\ table_read \in BOOLEAN /\ vipFailed \in BOOLEAN
    BY DEF Init, HostInit
  <2> QED
    BY <2>1 DEF HostTypeOK, Init, HostInit
<1>3. DevTypeOK
  <2>1. vip_has_chain_hash \in BOOLEAN
    BY DEF Init, HostInit
  <2> QED
    BY <2>1, CapacityNat DEF DevTypeOK, Init, HostInit
<1>4. GenInv
  BY DEF GenInv, Init, GenInit, HostInit
<1>5. SyncInv
  BY DEF SyncInv, InOrder, Complete, Init, GenInit, HostInit
<1> QED
  BY <1>1, <1>2, <1>3, <1>4, <1>5 DEF BaseInv, TypeOK

\* The generator leaves the session's state alone.
LEMMA GenKeepsTypes ==
  ASSUME TypeOK, UNCHANGED <<hostVars, devVars>>
  PROVE  HostTypeOK' /\ DevTypeOK'
<1>1. HostTypeOK'
  BY DEF TypeOK, HostTypeOK, hostVars, IsFile
<1>2. DevTypeOK'
  BY DEF TypeOK, DevTypeOK, devVars, SIM_VIP_MAX_HASHES
<1> QED
  BY <1>1, <1>2

\* As long as the tables are being generated, the session has not begun.
LEMMA GenKeepsSync ==
  ASSUME BaseInv, gpc # "done", UNCHANGED <<hostVars, devVars>>
  PROVE  SyncInv'
BY DEF BaseInv, GenInv, SyncInv, TypeOK, GenTypeOK, InOrder, hostVars, devVars

LEMMA StorePacketInv ==
  ASSUME BaseInv, StorePacket, UNCHANGED <<hostVars, devVars>>
  PROVE  BaseInv'
<1>1. GenTypeOK'
  <2>1. table_open' \in BOOLEAN
    BY DEF BaseInv, TypeOK, GenTypeOK, StorePacket
  <2>2. /\ IsFile(tosign')
        /\ \A i \in DOMAIN chained' : i \in Nat /\ IsFile(chained'[i])
        /\ \A i \in DOMAIN chain_ctxs' : IsFile(chain_ctxs'[i])
    BY DEF BaseInv, TypeOK, GenTypeOK, StorePacket
  <2> QED
    BY <2>1, <2>2 DEF BaseInv, TypeOK, GenTypeOK, StorePacket
<1>2. GenInv'
  BY DEF BaseInv, TypeOK, GenTypeOK, GenInv, StorePacket, hostVars
<1>3. SyncInv'
  BY GenKeepsSync DEF StorePacket
<1> QED
  BY <1>1, <1>2, <1>3, GenKeepsTypes DEF BaseInv, TypeOK

LEMMA TableErrorInv ==
  ASSUME BaseInv, TableError, UNCHANGED <<hostVars, devVars>>
  PROVE  BaseInv'
<1>1. GenTypeOK'
  BY DEF BaseInv, TypeOK, GenTypeOK, TableError, IsFile
<1>2. GenInv'
  BY DEF BaseInv, TypeOK, GenTypeOK, GenInv, TableError, hostVars
<1>3. SyncInv'
  BY GenKeepsSync DEF TableError
<1> QED
  BY <1>1, <1>2, <1>3, GenKeepsTypes DEF BaseInv, TypeOK

LEMMA WriteToSignInv ==
  ASSUME BaseInv, WriteToSign, UNCHANGED <<hostVars, devVars>>
  PROVE  BaseInv'
<1> USE SizesAssumption
<1>1. IsFile(tosign')
  BY DEF BaseInv, TypeOK, GenTypeOK, WriteToSign, IsFile, File, Lesser
<1>2. ChainedNum(digest_num_written) \in Nat
  <2>1. CASE digest_num_written > SignedMax
    BY <2>1, ChainedNumFits DEF BaseInv, TypeOK, GenTypeOK
  <2>2. CASE ~(digest_num_written > SignedMax)
    BY <2>2 DEF ChainedNum
  <2> QED
    BY <2>1, <2>2
<1>3. GenTypeOK'
  <2>1. table_open' \in BOOLEAN
    BY DEF BaseInv, TypeOK, GenTypeOK, WriteToSign
  <2>2. /\ \A i \in DOMAIN chained' : i \in Nat /\ IsFile(chained'[i])
        /\ \A i \in DOMAIN chain_ctxs' : IsFile(chain_ctxs'[i])
    BY DEF BaseInv, TypeOK, GenTypeOK, WriteToSign
  <2>3. /\ gpc' \in {"chained", "done"} /\ npackets' \in Nat /\ digest_num_written' \in Nat
        /\ chain_idx' \in Nat /\ remaining_digests' \in Nat /\ link' \in Int
    BY DEF BaseInv, TypeOK, GenTypeOK, WriteToSign
  <2>4. gen_chained_num' \in Nat
    BY <1>2 DEF WriteToSign
  <2> QED
    BY <1>1, <2>1, <2>2, <2>3, <2>4 DEF GenTypeOK
<1>4. GenInv'
  <2> USE DEF BaseInv, TypeOK, GenTypeOK
  <2>1. CASE digest_num_written > SignedMax
    <3>1. NumFits'
      BY <2>1, ChainedNumFits DEF WriteToSign, NumFits, Num, First
    <3>2. /\ gpc' = "chained" /\ chain_idx' = 0
          /\ digest_num_written' = digest_num_written /\ npackets' = npackets
      BY <2>1 DEF GenInv, WriteToSign
    <3>3. hpc' = "off"
      BY DEF GenInv, WriteToSign, hostVars
    <3>4. Lesser(digest_num_written, SignedMax) = SignedMax
      BY <2>1 DEF Lesser
    <3>5. tosign' = File(0, SignedMax, FALSE)
      BY <3>4 DEF WriteToSign
    <3>6. remaining_digests' = digest_num_written - First(0)
      BY <2>1, FirstStep DEF WriteToSign
    <3>7. DOMAIN chain_ctxs' = {}
      BY DEF WriteToSign, GenInv
    <3>8. chain_idx' < Num'
      BY <3>1, <3>2, <1>2 DEF NumFits, Num, WriteToSign
    <3>9. 0 .. chain_idx' - 1 = {}
      BY <3>2
    <3>10. digest_num_written' <= npackets' /\ npackets' > 0
      BY <3>2 DEF GenInv, WriteToSign
    <3> QED
      BY <3>1, <3>2, <3>3, <3>5, <3>6, <3>7, <3>8, <3>9, <3>10 DEF GenInv, First
  <2>2. CASE ~(digest_num_written > SignedMax)
    <3>1. /\ gpc' = "done" /\ Num' = 0
          /\ digest_num_written' = digest_num_written /\ npackets' = npackets
      BY <2>2 DEF WriteToSign, ChainedNum, Num
    <3>2. Lesser(digest_num_written, SignedMax) = digest_num_written
      BY <2>2 DEF Lesser
    <3>3. tosign' = File(0, digest_num_written, FALSE)
      BY <3>2 DEF WriteToSign
    <3>4. digest_num_written <= npackets /\ digest_num_written <= SignedMax /\ npackets > 0
      BY <2>2 DEF GenInv, WriteToSign
    <3> QED
      BY <3>1, <3>3, <3>4 DEF GenInv
  <2> QED
    BY <2>1, <2>2
<1>5. SyncInv'
  BY GenKeepsSync DEF WriteToSign
<1> QED
  BY <1>3, <1>4, <1>5, GenKeepsTypes DEF BaseInv, TypeOK

\* The payload of a table and a table with its hash appended are files.
LEMMA FilesAreFiles ==
  /\ \A a, c \in Nat, b \in BOOLEAN : IsFile(File(a, c, b))
  /\ \A f, h : IsFile(f) => IsFile(WithChain(f, h))
BY DEF IsFile, File, WithChain

\* Step 2 fills the tables in order: the next payload is that of table
\* chain_idx, and only the last table uses up the digests that remain.
LEMMA NextPayload ==
  ASSUME BaseInv, gpc = "chained"
  PROVE  /\ File(digest_num_written - remaining_digests, table_digests, left = 0)
              = Payload(chain_idx)
         /\ left = 0 <=> chain_idx = Num - 1
         /\ left \in Nat
         /\ left # 0 => left = digest_num_written - First(chain_idx + 1)
         /\ IsFile(Payload(chain_idx))
<1> USE SizesAssumption
<1>1. /\ chain_idx \in Nat /\ Num \in Nat /\ digest_num_written \in Nat
      /\ chain_idx < Num /\ NumFits
      /\ remaining_digests = digest_num_written - First(chain_idx)
  BY DEF BaseInv, TypeOK, GenTypeOK, GenInv, Num
<1>2. /\ First(chain_idx) \in Nat
      /\ First(chain_idx + 1) = First(chain_idx) + ChainedMax
  BY <1>1, FirstStep
<1>3. First(chain_idx) < digest_num_written
  <2>1. Num - 1 \in Nat /\ chain_idx <= Num - 1
    BY <1>1
  <2>2. First(chain_idx) <= First(Num - 1) /\ First(Num - 1) \in Nat
    BY <2>1, <1>1, FirstMono, FirstStep
  <2> QED
    BY <2>2, <1>1, <1>2 DEF NumFits
<1>4. CASE chain_idx = Num - 1
  <2>1. digest_num_written <= First(chain_idx) + ChainedMax
    <3>1. chain_idx + 1 = Num
      BY <1>4, <1>1
    <3> QED
      BY <3>1, <1>1, <1>2 DEF NumFits
  <2>2. table_digests = remaining_digests /\ left = 0
    BY <2>1, <1>1, <1>2 DEF Lesser, table_digests, left
  <2>3. digest_num_written - remaining_digests = First(chain_idx)
    BY <1>1, <1>2
  <2>4. Payload(chain_idx) = File(First(chain_idx), remaining_digests, TRUE)
    BY <1>4, <1>1 DEF Payload
  <2>5. remaining_digests \in Nat
    BY <1>1, <1>2, <1>3
  <2>6. IsFile(Payload(chain_idx))
    BY <2>4, <2>5, <1>2, FilesAreFiles
  <2>7. File(digest_num_written - remaining_digests, table_digests, left = 0)
          = File(First(chain_idx), remaining_digests, TRUE)
    BY <2>2, <2>3
  <2> QED
    BY <2>2, <2>4, <2>6, <2>7, <1>4
<1>5. CASE chain_idx # Num - 1
  <2>1. First(chain_idx + 1) < digest_num_written
    <3>1. Num - 1 \in Nat /\ chain_idx + 1 <= Num - 1 /\ chain_idx + 1 \in Nat
      BY <1>1, <1>5
    <3>2. First(chain_idx + 1) <= First(Num - 1) /\ First(Num - 1) \in Nat
      BY <3>1, FirstMono, FirstStep
    <3> QED
      BY <3>2, <1>1, <1>2 DEF NumFits
  <2>2. /\ table_digests = ChainedMax
        /\ left = digest_num_written - First(chain_idx + 1)
        /\ left \in Nat /\ left # 0
    BY <2>1, <1>1, <1>2 DEF Lesser, table_digests, left
  <2>3. digest_num_written - remaining_digests = First(chain_idx)
    BY <1>1, <1>2
  <2>4. Payload(chain_idx) = File(First(chain_idx), ChainedMax, FALSE)
    BY <1>5, <1>1 DEF Payload
  <2>5. IsFile(Payload(chain_idx))
    BY <2>4, <1>2, FilesAreFiles
  <2>6. File(digest_num_written - remaining_digests, table_digests, left = 0)
          = File(First(chain_idx), ChainedMax, FALSE)
    BY <2>2, <2>3
  <2> QED
    BY <2>2, <2>4, <2>5, <2>6, <1>5
<1> QED
  BY <1>4, <1>5

LEMMA WriteChainedInv ==
  ASSUME BaseInv, WriteChained, UNCHANGED <<hostVars, devVars>>
  PROVE  BaseInv'
<1> DEFINE file == Payload(chain_idx)
<1>1. /\ gpc = "chained" /\ hpc' = "off"
      /\ chain_idx \in Nat /\ Num \in Nat /\ digest_num_written \in Nat
      /\ chain_idx < Num /\ NumFits /\ tosign = File(0, SignedMax, FALSE)
      /\ DOMAIN chain_ctxs = 0 .. chain_idx - 1
      /\ digest_num_written <= npackets /\ npackets > 0
  BY DEF BaseInv, TypeOK, GenTypeOK, GenInv, Num, WriteChained, hostVars
<1>2. /\ chained' = [i \in DOMAIN chained \cup {chain_idx} |->
                       IF i = chain_idx THEN file ELSE chained[i]]
      /\ chain_ctxs' = [i \in 0 .. chain_idx |->
                          IF i = chain_idx THEN file ELSE chain_ctxs[i]]
      /\ remaining_digests' = left
      /\ chain_idx' = chain_idx + 1
      /\ IF left = 0 THEN gpc' = "link" /\ link' = gen_chained_num - 1
                     ELSE gpc' = gpc /\ link' = link
      /\ UNCHANGED <<npackets, digest_num_written, table_open, tosign,
                     gen_chained_num, hash>>
  BY <1>1, NextPayload DEF WriteChained
<1>3. /\ left = 0 <=> chain_idx = Num - 1
      /\ left \in Nat
      /\ left # 0 => left = digest_num_written - First(chain_idx + 1)
      /\ IsFile(file)
  BY <1>1, NextPayload
<1>4. \A i : Payload(i)' = Payload(i)
  BY <1>2 DEF Payload, Num, First, File
<1>5. \A i \in 0 .. chain_idx :
        /\ i \in DOMAIN chained' /\ i \in DOMAIN chain_ctxs'
        /\ chained'[i] = Payload(i) /\ chain_ctxs'[i] = Payload(i)
  <2> SUFFICES ASSUME NEW i \in 0 .. chain_idx
               PROVE  /\ i \in DOMAIN chained' /\ i \in DOMAIN chain_ctxs'
                      /\ chained'[i] = Payload(i) /\ chain_ctxs'[i] = Payload(i)
    OBVIOUS
  <2>1. CASE i = chain_idx
    BY <2>1, <1>2
  <2>2. CASE i # chain_idx
    <3>1. i \in 0 .. chain_idx - 1
      BY <2>2, <1>1
    <3>2. i \in DOMAIN chained /\ chained[i] = Payload(i) /\ chain_ctxs[i] = Payload(i)
      BY <3>1, <1>1 DEF BaseInv, GenInv
    <3> QED
      BY <3>2, <2>2, <1>2
  <2> QED
    BY <2>1, <2>2
<1> HIDE DEF file
<1>6. GenTypeOK'
  <2>1. table_open' \in BOOLEAN
    BY <1>2 DEF BaseInv, TypeOK, GenTypeOK
  <2>2. \A i \in DOMAIN chained' : i \in Nat /\ IsFile(chained'[i])
    BY <1>1, <1>2, <1>3 DEF BaseInv, TypeOK, GenTypeOK
  <2>3. \A i \in DOMAIN chain_ctxs' : IsFile(chain_ctxs'[i])
    BY <1>1, <1>2, <1>3 DEF BaseInv, TypeOK, GenTypeOK
  <2>4. /\ gpc' \in {"chained", "link"} /\ npackets' \in Nat /\ digest_num_written' \in Nat
        /\ chain_idx' \in Nat /\ remaining_digests' \in Nat /\ link' \in Int
        /\ gen_chained_num' \in Nat
    BY <1>1, <1>2, <1>3 DEF BaseInv, TypeOK, GenTypeOK, Num
  <2>5. IsFile(tosign')
    BY <1>2 DEF BaseInv, TypeOK, GenTypeOK
  <2> QED
    BY <2>1, <2>2, <2>3, <2>4, <2>5 DEF GenTypeOK
<1>7. NumFits' /\ Num' = Num
  BY <1>1, <1>2 DEF NumFits, Num, First
<1>8. GenInv'
  <2>1. CASE left = 0
    <3>1. Num' - 1 = chain_idx /\ gpc' = "link" /\ link' = Num' - 1 /\ link' \in 0 .. Num' - 1
      BY <2>1, <1>1, <1>2, <1>3, <1>7 DEF Num
    <3>2. DOMAIN chain_ctxs' = 0 .. Num' - 1
      BY <3>1, <1>2
    <3>3. \A i \in 0 .. Num' - 1 :
            i \in DOMAIN chained' /\ chained'[i] = Linked(i, link)' /\ chain_ctxs'[i] = Payload(i)'
      BY <3>1, <1>1, <1>4, <1>5, <1>7 DEF Linked
    <3>4. /\ tosign' = File(0, SignedMax, FALSE)
          /\ digest_num_written' <= npackets' /\ npackets' > 0 /\ ~(link' < Num' - 1)
      BY <3>1, <1>1, <1>2, <1>7
    <3> QED
      BY <3>1, <3>2, <3>3, <3>4, <1>1, <1>7 DEF GenInv
  <2>2. CASE left # 0
    <3>1. gpc' = "chained" /\ chain_idx' = chain_idx + 1 /\ chain_idx' < Num'
      BY <2>2, <1>1, <1>2, <1>3, <1>7
    <3>2. DOMAIN chain_ctxs' = 0 .. chain_idx' - 1
      BY <3>1, <1>1, <1>2
    <3>3. \A i \in 0 .. chain_idx' - 1 :
            i \in DOMAIN chained' /\ chained'[i] = Payload(i)' /\ chain_ctxs'[i] = Payload(i)'
      BY <3>1, <1>1, <1>4, <1>5
    <3>4. remaining_digests' = digest_num_written' - First(chain_idx')
      BY <2>2, <1>2, <1>3
    <3> QED
      BY <3>1, <3>2, <3>3, <3>4, <1>1, <1>2, <1>7 DEF GenInv, First
  <2> QED
    BY <2>1, <2>2
<1>9. SyncInv'
  BY <1>1, GenKeepsSync
<1> QED
  BY <1>6, <1>8, <1>9, GenKeepsTypes DEF BaseInv, TypeOK

LEMMA LinkTableInv ==
  ASSUME BaseInv, LinkTable, UNCHANGED <<hostVars, devVars>>
  PROVE  BaseInv'
<1>1. /\ gpc = "link" /\ hpc' = "off"
      /\ Num \in Nat /\ digest_num_written \in Nat /\ link \in 0 .. Num - 1
      /\ NumFits /\ tosign = File(0, SignedMax, FALSE)
      /\ DOMAIN chain_ctxs = 0 .. Num - 1
      /\ digest_num_written <= npackets /\ npackets > 0
      /\ link < Num - 1 => hash = chained[link + 1]
      /\ \A i \in 0 .. Num - 1 :
           i \in DOMAIN chained /\ chained[i] = Linked(i, link) /\ chain_ctxs[i] = Payload(i)
  BY DEF BaseInv, TypeOK, GenTypeOK, GenInv, Num, LinkTable, hostVars
<1>2. hash' = chained[link]
  BY <1>1 DEF LinkTable, Linked, Num
<1>3. IsFile(hash') /\ IsFile(tosign)
  BY <1>1, <1>2 DEF BaseInv, TypeOK, GenTypeOK
<1>4. \A i : Payload(i)' = Payload(i)
  BY DEF LinkTable, Payload, Num, First, File
<1>5. NumFits' /\ Num' = Num
  BY <1>1 DEF LinkTable, NumFits, Num, First
<1>6. /\ link' = link - 1 /\ link' \in Int
      /\ UNCHANGED <<npackets, digest_num_written, table_open, chain_ctxs,
                     gen_chained_num, chain_idx, remaining_digests>>
  BY <1>1 DEF LinkTable
<1>7. CASE link = 0
  <2>1. gpc' = "done" /\ chained' = chained /\ tosign' = WithChain(tosign, chained[0])
    BY <1>2, <1>7 DEF LinkTable
  <2>2. IsFile(tosign')
    BY <2>1, <1>3, FilesAreFiles
  <2>3. \A i \in 0 .. Num' - 1 : i \in DOMAIN chained' /\ chained'[i] = Linked(i, 0)'
    BY <2>1, <1>1, <1>4, <1>5, <1>7 DEF Linked, WithChain
  <2>4. tosign' = WithChain(File(0, SignedMax, FALSE), chained[0])'
    BY <2>1, <1>1 DEF WithChain, File
  <2>5. GenInv'
    BY <2>1, <2>3, <2>4, <1>1, <1>5, <1>6 DEF GenInv
  <2>6. GenTypeOK'
    <3>1. table_open' \in BOOLEAN
      BY <1>6 DEF BaseInv, TypeOK, GenTypeOK
    <3>2. /\ \A i \in DOMAIN chained' : i \in Nat /\ IsFile(chained'[i])
          /\ \A i \in DOMAIN chain_ctxs' : IsFile(chain_ctxs'[i])
      BY <2>1, <1>6 DEF BaseInv, TypeOK, GenTypeOK
    <3> QED
      BY <2>1, <2>2, <3>1, <3>2, <1>6 DEF BaseInv, TypeOK, GenTypeOK
  <2> QED
    BY <1>1, <2>5, <2>6, GenKeepsSync, GenKeepsTypes DEF BaseInv, TypeOK
<1>8. CASE link # 0
  <2>1. /\ chained' = [chained EXCEPT ![link - 1] = WithChain(chained[link - 1], chained[link])]
        /\ gpc' = gpc /\ tosign' = tosign
    BY <1>2, <1>8 DEF LinkTable
  <2>2. link - 1 \in 0 .. Num - 1 /\ link - 1 < Num - 1
    BY <1>1, <1>8
  <2>3. \A i \in 0 .. Num' - 1 :
          i \in DOMAIN chained' /\ chained'[i] = Linked(i, link)' /\ chain_ctxs'[i] = Payload(i)'
    <3> SUFFICES ASSUME NEW i \in 0 .. Num - 1
                 PROVE  i \in DOMAIN chained' /\ chained'[i] = Linked(i, link)'
                        /\ chain_ctxs'[i] = Payload(i)'
      BY <1>5
    <3>1. i \in DOMAIN chained /\ chain_ctxs'[i] = Payload(i)'
      BY <1>1, <1>4, <1>6
    <3>2. Linked(i, link)' = IF link - 1 <= i /\ i < Num - 1
                               THEN WithChain(Payload(i), chained'[i + 1]) ELSE Payload(i)
      BY <1>4, <1>5, <1>6 DEF Linked, WithChain
    <3>3. CASE i = link - 1
      <4>1. chained'[i] = WithChain(chained[i], chained[link])
        BY <3>1, <3>3, <2>1
      <4>2. chained[i] = Payload(i)
        BY <3>3, <2>2, <1>1 DEF Linked
      <4>3. i + 1 = link /\ chained'[link] = chained[link]
        BY <3>3, <1>1, <2>1
      <4> QED
        BY <3>1, <3>2, <3>3, <4>1, <4>2, <4>3, <2>1, <2>2
    <3>4. CASE i # link - 1
      <4>1. chained'[i] = chained[i]
        BY <3>1, <3>4, <2>1
      <4>2. i < link - 1 \/ i >= link
        BY <3>4, <1>1
      <4>3. i >= link => chained'[i + 1] = chained[i + 1] \/ i >= Num - 1
        <5> SUFFICES ASSUME i >= link, i < Num - 1 PROVE chained'[i + 1] = chained[i + 1]
          BY <1>1
        <5>1. i + 1 \in 0 .. Num - 1 /\ i + 1 # link - 1
          BY <1>1
        <5> QED
          BY <5>1, <1>1, <2>1
      <4>4. chained[i] = IF link <= i /\ i < Num - 1
                           THEN WithChain(Payload(i), chained[i + 1]) ELSE Payload(i)
        BY <1>1 DEF Linked
      <4> QED
        BY <3>1, <3>2, <4>1, <4>2, <4>3, <4>4, <1>1, <2>1
    <3> QED
      BY <3>3, <3>4
  <2>4. link' \in 0 .. Num' - 1 /\ hash' = chained'[link' + 1]
    <3>1. link' + 1 = link /\ chained'[link] = chained[link]
      BY <1>1, <1>6, <2>1
    <3> QED
      BY <3>1, <2>2, <1>2, <1>5, <1>6
  <2>5. DOMAIN chain_ctxs' = 0 .. Num' - 1
    BY <1>1, <1>5, <1>6
  <2>6. tosign' = File(0, SignedMax, FALSE)
    BY <2>1, <1>1
  <2>7. GenInv'
    BY <2>1, <2>3, <2>4, <2>5, <2>6, <1>1, <1>5, <1>6 DEF GenInv
  <2>8. GenTypeOK'
    <3>1. table_open' \in BOOLEAN
      BY <1>6 DEF BaseInv, TypeOK, GenTypeOK
    <3>2. IsFile(WithChain(chained[link - 1], chained[link]))
      BY <2>2, <1>1, FilesAreFiles DEF BaseInv, TypeOK, GenTypeOK
    <3>3. \A i \in DOMAIN chained' : i \in Nat /\ IsFile(chained'[i])
      BY <3>2, <2>1 DEF BaseInv, TypeOK, GenTypeOK
    <3>4. \A i \in DOMAIN chain_ctxs' : IsFile(chain_ctxs'[i])
      BY <1>6 DEF BaseInv, TypeOK, GenTypeOK
    <3>5. IsFile(tosign')
      BY <2>1, <1>3
    <3> QED
      BY <2>1, <3>1, <3>3, <3>4, <3>5, <1>6 DEF BaseInv, TypeOK, GenTypeOK
  <2> QED
    BY <1>1, <2>7, <2>8, GenKeepsSync, GenKeepsTypes DEF BaseInv, TypeOK
<1> QED
  BY <1>7, <1>8

-----------------------------------------------------------------------------
(* The finished tables, and what the device makes of them.                 *)

\* The steps of a session leave the generator's state alone.
LEMMA HostKeepsGen ==
  ASSUME BaseInv, UNCHANGED genVars, gpc = "done"
  PROVE  GenTypeOK' /\ GenInv'
<1>1. GenTypeOK'
  <2>1. table_open' \in BOOLEAN
    BY DEF BaseInv, TypeOK, GenTypeOK, genVars
  <2>2. /\ \A i \in DOMAIN chained' : i \in Nat /\ IsFile(chained'[i])
        /\ \A i \in DOMAIN chain_ctxs' : IsFile(chain_ctxs'[i])
        /\ IsFile(tosign')
    BY DEF BaseInv, TypeOK, GenTypeOK, genVars
  <2> QED
    BY <2>1, <2>2 DEF BaseInv, TypeOK, GenTypeOK, genVars
<1>2. GenInv'
  BY DEF BaseInv, GenInv, genVars, NumFits, Num, Linked, Payload, First, File, WithChain
<1> QED
  BY <1>1, <1>2

LEMMA SessionAfterGen == ASSUME BaseInv, hpc # "off" PROVE gpc = "done"
BY DEF BaseInv, GenInv, TypeOK, GenTypeOK

\* A table exists for every digest the tables before it do not hold.
LEMMA TableThere ==
  ASSUME BaseInv, gpc = "done", NEW c \in Nat, First(c) < digest_num_written
  PROVE  c < Num /\ NumFits /\ c \in DOMAIN chained /\ chained[c] = Linked(c, 0)
<1>1. /\ Num \in Nat /\ digest_num_written \in Nat /\ SignedMax \in Nat
      /\ First(c) \in Nat /\ First(c) >= SignedMax
  BY FirstStep, SizesAssumption DEF BaseInv, TypeOK, GenTypeOK, Num
<1>2. ~(digest_num_written <= SignedMax)
  BY <1>1
<1>3. NumFits /\ \A i \in 0 .. Num - 1 : i \in DOMAIN chained /\ chained[i] = Linked(i, 0)
  BY <1>2 DEF BaseInv, GenInv
<1>4. c < Num
  <2> SUFFICES ASSUME Num <= c PROVE FALSE
    BY <1>1
  <2>1. First(Num) <= First(c) /\ First(Num) \in Nat
    BY <1>1, FirstMono, FirstStep
  <2> QED
    BY <2>1, <1>1, <1>3 DEF NumFits
<1> QED
  BY <1>1, <1>3, <1>4

\* The contents of chained table c.
LEMMA TableContents ==
  ASSUME BaseInv, gpc = "done", NEW c \in Nat, First(c) < digest_num_written
  PROVE  LET f == chained[c]
         IN /\ f.fresh = TRUE
            /\ f.first = First(c)
            /\ f.count \in Nat
            /\ First(c) + f.count = Covered(c + 1)
            /\ Covered(c + 1) <= First(c + 1)
            /\ IF First(c + 1) < digest_num_written
                 THEN /\ ~f.pad /\ f.linked /\ f.count = ChainedMax
                      /\ f.chain = chained[c + 1]
                 ELSE f.pad /\ ~f.linked
<1>1. c < Num /\ NumFits /\ chained[c] = Linked(c, 0)
  BY TableThere
<1>2. /\ Num \in Nat /\ digest_num_written \in Nat /\ ChainedMax \in Nat
      /\ First(c) \in Nat /\ First(c + 1) = First(c) + ChainedMax
  BY FirstStep, SizesAssumption DEF BaseInv, TypeOK, GenTypeOK, Num
<1>3. CASE c = Num - 1
  <2>1. chained[c] = File(First(c), digest_num_written - First(c), TRUE)
    <3>1. Payload(c) = File(First(c), digest_num_written - First(c), TRUE)
      BY <1>3 DEF Payload
    <3>2. Linked(c, 0) = Payload(c)
      BY <1>2, <1>3 DEF Linked
    <3> QED
      BY <3>1, <3>2, <1>1
  <2>2. c + 1 = Num
    BY <1>2, <1>3
  <2>3. digest_num_written <= First(c + 1)
    BY <2>2, <1>1 DEF NumFits
  <2>4. Covered(c + 1) = digest_num_written
    BY <2>3, <1>2 DEF Covered, Lesser
  <2>5. chained[c].fresh = TRUE /\ chained[c].pad /\ ~chained[c].linked
    BY <2>1 DEF File
  <2>6. chained[c].first = First(c) /\ chained[c].count = digest_num_written - First(c)
    BY <2>1 DEF File
  <2>7. ~(First(c + 1) < digest_num_written) /\ digest_num_written - First(c) \in Nat
    BY <2>3, <1>2
  <2>8. /\ First(c) + chained[c].count = Covered(c + 1)
        /\ Covered(c + 1) <= First(c + 1)
    BY <2>3, <2>4, <2>6, <1>2
  <2>9. chained[c].count \in Nat
    BY <2>6, <2>7
  <2> QED
    BY <2>5, <2>6, <2>7, <2>8, <2>9
<1>4. CASE c # Num - 1
  <2>1. chained[c] = WithChain(File(First(c), ChainedMax, FALSE), chained[c + 1])
    <3>1. Payload(c) = File(First(c), ChainedMax, FALSE)
      BY <1>4 DEF Payload
    <3>2. 0 <= c /\ c < Num - 1
      BY <1>1, <1>2, <1>4
    <3>3. Linked(c, 0) = WithChain(Payload(c), chained[c + 1])
      BY <3>2 DEF Linked
    <3> QED
      BY <3>1, <3>3, <1>1
  <2>2. First(c + 1) < digest_num_written
    <3>1. Num - 1 \in Nat /\ c + 1 \in Nat /\ c + 1 <= Num - 1
      BY <1>1, <1>2, <1>4
    <3>2. First(c + 1) <= First(Num - 1) /\ First(Num - 1) \in Nat
      BY <3>1, FirstMono, FirstStep
    <3> QED
      BY <3>2, <1>1, <1>2 DEF NumFits
  <2>3. Covered(c + 1) = First(c + 1)
    BY <2>2, <1>2 DEF Covered, Lesser
  <2>4. chained[c].fresh = TRUE /\ ~chained[c].pad /\ chained[c].linked
    BY <2>1 DEF File, WithChain
  <2>5. /\ chained[c].first = First(c) /\ chained[c].count = ChainedMax
        /\ chained[c].chain = chained[c + 1]
    BY <2>1 DEF File, WithChain
  <2> QED
    BY <2>2, <2>3, <2>4, <2>5, <1>2
<1> QED
  BY <1>3, <1>4

\* The contents of the table to sign.
LEMMA SignedContents ==
  ASSUME BaseInv, gpc = "done"
  PROVE  /\ tosign.fresh = TRUE
         /\ tosign.first = 0
         /\ tosign.count = Covered(0)
         /\ Covered(0) \in Nat /\ Covered(0) <= SignedMax
         /\ IF First(0) < digest_num_written
              THEN /\ tosign.linked /\ tosign.count = SignedMax
                   /\ tosign.chain = chained[0]
              ELSE ~tosign.linked /\ Covered(0) = digest_num_written
<1>1. digest_num_written \in Nat /\ SignedMax \in Nat /\ First(0) = SignedMax
  BY FirstStep, SizesAssumption DEF BaseInv, TypeOK, GenTypeOK
<1>2. CASE digest_num_written <= SignedMax
  <2>1. tosign = File(0, digest_num_written, FALSE)
    <3>1. ~NumFits
      BY <1>1, <1>2 DEF NumFits
    <3> QED
      BY <3>1 DEF BaseInv, GenInv
  <2>2. Covered(0) = digest_num_written
    BY <1>1, <1>2 DEF Covered, Lesser
  <2>3. tosign.fresh = TRUE /\ ~tosign.linked
    BY <2>1 DEF File
  <2>4. tosign.first = 0 /\ tosign.count = digest_num_written
    BY <2>1 DEF File
  <2> QED
    BY <2>2, <2>3, <2>4, <1>1, <1>2
<1>3. CASE ~(digest_num_written <= SignedMax)
  <2>1. tosign = WithChain(File(0, SignedMax, FALSE), chained[0])
    BY <1>3 DEF BaseInv, GenInv
  <2>2. Covered(0) = SignedMax
    BY <1>1, <1>3 DEF Covered, Lesser
  <2>3. tosign.fresh = TRUE /\ tosign.linked
    BY <2>1 DEF File, WithChain
  <2>4. /\ tosign.first = 0 /\ tosign.count = SignedMax
        /\ tosign.chain = chained[0]
    BY <2>1 DEF File, WithChain
  <2> QED
    BY <2>2, <2>3, <2>4, <1>1, <1>3
<1> QED
  BY <1>2, <1>3

\* Loading a table that fits appends its digests, in order.
LEMMA LoadInOrder ==
  ASSUME NEW f, NEW n \in Nat, LoadHashes(f, n),
         DevTypeOK, f.fresh = TRUE, f.first = vip_hash_count,
         vip_hash_count + n <= SIM_VIP_MAX_HASHES,
         \A j \in 0 .. vip_hash_count - 1 : vip_hashes[j] = j
  PROVE  /\ vip_hash_count' = vip_hash_count + n
         /\ \A j \in 0 .. vip_hash_count' - 1 : vip_hashes'[j] = j
<1>1. SIM_VIP_MAX_HASHES \in Nat /\ vip_hash_count \in Nat
  BY CapacityNat DEF DevTypeOK
<1>2. Lesser(n, SIM_VIP_MAX_HASHES - vip_hash_count) = n
  BY <1>1 DEF Lesser
<1>3. /\ vip_hash_count' = vip_hash_count + n
      /\ vip_hashes' = [j \in 0 .. SIM_VIP_MAX_HASHES - 1 |->
                          IF vip_hash_count <= j /\ j < vip_hash_count + n
                            THEN Entry(f, j - vip_hash_count) ELSE vip_hashes[j]]
  BY <1>2 DEF LoadHashes
<1>4. ASSUME NEW j \in 0 .. vip_hash_count' - 1 PROVE vip_hashes'[j] = j
  <2>1. j \in 0 .. SIM_VIP_MAX_HASHES - 1 /\ j \in Int /\ j < vip_hash_count + n /\ 0 <= j
    BY <1>1, <1>3
  <2>2. CASE vip_hash_count <= j
    <3>1. vip_hashes'[j] = Entry(f, j - vip_hash_count)
      BY <2>1, <2>2, <1>3
    <3>2. Entry(f, j - vip_hash_count) = vip_hash_count + (j - vip_hash_count)
      BY DEF Entry
    <3> QED
      BY <3>1, <3>2, <2>1, <1>1
  <2>3. CASE ~(vip_hash_count <= j)
    <3>1. vip_hashes'[j] = vip_hashes[j] /\ j \in 0 .. vip_hash_count - 1
      BY <2>1, <2>3, <1>1, <1>3
    <3> QED
      BY <3>1
  <2> QED
    BY <2>2, <2>3
<1> QED
  BY <1>3, <1>4

\* Loading any table keeps the device's table well typed.
LEMMA LoadTypes ==
  ASSUME NEW f, NEW n \in Nat, LoadHashes(f, n), DevTypeOK, IsFile(f)
  PROVE  /\ vip_hashes' \in [0 .. SIM_VIP_MAX_HASHES - 1 -> Int]
         /\ vip_hash_count' \in 0 .. SIM_VIP_MAX_HASHES
<1>1. SIM_VIP_MAX_HASHES \in Nat /\ vip_hash_count \in 0 .. SIM_VIP_MAX_HASHES
  BY CapacityNat DEF DevTypeOK
<1>2. \A j \in Int : Entry(f, j) \in Int
  BY DEF Entry, IsFile
<1>3. vip_hash_count' \in 0 .. SIM_VIP_MAX_HASHES
  BY <1>1 DEF LoadHashes, Lesser
<1>4. vip_hashes' \in [0 .. SIM_VIP_MAX_HASHES - 1 -> Int]
  <2>1. ASSUME NEW j \in 0 .. SIM_VIP_MAX_HASHES - 1
        PROVE  Entry(f, j - vip_hash_count) \in Int /\ vip_hashes[j] \in Int
    <3>1. j - vip_hash_count \in Int
      BY <1>1
    <3> QED
      BY <3>1, <1>2 DEF DevTypeOK
  <2>2. \A j \in 0 .. SIM_VIP_MAX_HASHES - 1 :
          (IF vip_hash_count <= j /\ j < vip_hash_count + Lesser(n, SIM_VIP_MAX_HASHES - vip_hash_count)
             THEN Entry(f, j - vip_hash_count) ELSE vip_hashes[j]) \in Int
    BY <2>1
  <2> QED
    BY <2>2 DEF LoadHashes
<1> QED
  BY <1>3, <1>4

\* Whatever the device is sent, its state stays well typed.
LEMMA RecvTypes ==
  ASSUME NEW f, IsFile(f), DevTypeOK, RecvSigned(f) \/ RecvChained(f), UNCHANGED vip_hash_idx
  PROVE  DevTypeOK'
<1> USE SizesAssumption
<1>1. Entries(f) \in Nat
  BY DEF Entries, IsFile
<1>2. errors' \subseteq ErrorKinds
  <2>1. CASE RecvSigned(f)
    BY <2>1 DEF DevTypeOK, RecvSigned, ErrorKinds
  <2>2. CASE RecvChained(f)
    BY <2>2 DEF DevTypeOK, RecvChained, ErrorKinds
  <2> QED
    BY <2>1, <2>2
<1>3. vip_has_chain_hash' \in BOOLEAN
  <2>1. CASE RecvSigned(f)
    BY <2>1 DEF DevTypeOK, RecvSigned
  <2>2. CASE RecvChained(f)
    BY <2>2 DEF DevTypeOK, RecvChained
  <2> QED
    BY <2>1, <2>2
<1>4. /\ vip_hashes' \in [0 .. SIM_VIP_MAX_HASHES - 1 -> Int]
      /\ vip_hash_count' \in 0 .. SIM_VIP_MAX_HASHES
  <2>1. CASE RecvSigned(f)
    <3>1. CASE Entries(f) = 0
      BY <2>1, <3>1 DEF RecvSigned, DevTypeOK
    <3>2. CASE Entries(f) # 0
      <4>1. PICK n \in Nat : LoadHashes(f, n)
        <5>1. CASE Entries(f) = SignedMax + 1
          BY <2>1, <3>2, <5>1, <1>1 DEF RecvSigned
        <5>2. CASE Entries(f) # SignedMax + 1
          BY <2>1, <3>2, <5>2, <1>1 DEF RecvSigned
        <5> QED
          BY <5>1, <5>2
      <4> QED
        BY <4>1, LoadTypes
    <3> QED
      BY <3>1, <3>2
  <2>2. CASE RecvChained(f)
    <3>1. PICK n \in Nat : LoadHashes(f, n)
      <4>1. CASE ~f.pad /\ Entries(f) = ChainedMax + 1
        <5>1. LoadHashes(f, Entries(f) - 1) /\ Entries(f) - 1 \in Nat
          BY <2>2, <4>1, <1>1 DEF RecvChained
        <5> QED
          BY <5>1
      <4>2. CASE ~(~f.pad /\ Entries(f) = ChainedMax + 1)
        <5>1. LoadHashes(f, Entries(f))
          BY <2>2, <4>2 DEF RecvChained
        <5> QED
          BY <5>1, <1>1
      <4> QED
        BY <4>1, <4>2
    <3> QED
      BY <3>1, LoadTypes
  <2> QED
    BY <2>1, <2>2
<1> QED
  BY <1>2, <1>3, <1>4 DEF DevTypeOK

\* The signed table, sent first, is taken whole and announces chained table 0
\* when there is one.
LEMMA SignedTaken ==
  ASSUME BaseInv, InOrder, hpc = "tables", state = "INIT", RecvSigned(signed_table)
  PROVE  /\ vip_hash_count' = Covered(0)
         /\ \A j \in 0 .. vip_hash_count' - 1 : vip_hashes'[j] = j
         /\ errors' = errors
         /\ First(0) < digest_num_written => vip_has_chain_hash' /\ vip_chain_hash' = chained[0]
<1> DEFINE f == tosign
<1>1. /\ gpc = "done" /\ digest_num_written \in Nat /\ digest_num_written > 0
      /\ signed_table = f /\ vip_hash_count = 0 /\ DevTypeOK
  BY DEF BaseInv, TypeOK, GenTypeOK, HostTypeOK, SyncInv, InOrder, Complete
<1>2. SignedMax \in Nat /\ SignedMax <= SIM_VIP_MAX_HASHES /\ First(0) = SignedMax
      /\ SIM_VIP_MAX_HASHES \in Nat
  BY CapacityNat, FirstStep, SizesAssumption
<1>3. /\ f.fresh = TRUE /\ f.first = 0 /\ f.count = Covered(0)
      /\ Covered(0) \in Nat /\ Covered(0) <= SignedMax
  BY <1>1, SignedContents
<1>6. ASSUME LoadHashes(f, Covered(0))
      PROVE  /\ vip_hash_count' = Covered(0)
             /\ \A j \in 0 .. vip_hash_count' - 1 : vip_hashes'[j] = j
  <2>1. /\ f.first = vip_hash_count /\ vip_hash_count + Covered(0) <= SIM_VIP_MAX_HASHES
        /\ \A j \in 0 .. vip_hash_count - 1 : vip_hashes[j] = j
        /\ vip_hash_count + Covered(0) = Covered(0)
    BY <1>1, <1>2, <1>3
  <2> QED
    BY <1>1, <1>3, <1>6, <2>1, LoadInOrder
<1>4. CASE First(0) < digest_num_written
  <2>1. f.linked /\ f.count = SignedMax /\ f.chain = chained[0]
    BY <1>1, <1>4, SignedContents
  <2>2. Entries(f) = SignedMax + 1 /\ Entries(f) # 0 /\ Entries(f) - 1 = Covered(0)
    BY <2>1, <1>2, <1>3 DEF Entries
  <2>3. /\ LoadHashes(f, Covered(0)) /\ vip_chain_hash' = chained[0]
        /\ ~(vip_hash_count + f.count > SIM_VIP_MAX_HASHES)
    <3>1. ~(vip_hash_count + f.count > SIM_VIP_MAX_HASHES)
      BY <1>1, <1>2, <1>3
    <3>2. LoadHashes(f, Entries(f) - 1) /\ vip_chain_hash' = f.chain
      BY <2>2, <1>1 DEF RecvSigned
    <3> QED
      BY <3>1, <3>2, <2>1, <2>2
  <2>4. vip_has_chain_hash'
    BY <2>2, <1>1 DEF RecvSigned
  <2>5. errors' = errors
    BY <2>2, <2>3, <1>1 DEF RecvSigned
  <2> QED
    BY <2>3, <2>4, <2>5, <1>6
<1>5. CASE ~(First(0) < digest_num_written)
  <2>1. ~f.linked /\ Covered(0) = digest_num_written
    BY <1>1, <1>5, SignedContents
  <2>2. Entries(f) = Covered(0)
    BY <2>1, <1>3 DEF Entries
  <2>3. Entries(f) # 0 /\ Entries(f) # SignedMax + 1
    BY <2>1, <2>2, <1>1, <1>2, <1>3
  <2>4. LoadHashes(f, Covered(0)) /\ ~(vip_hash_count + f.count > SIM_VIP_MAX_HASHES)
    <3>1. ~(vip_hash_count + f.count > SIM_VIP_MAX_HASHES)
      BY <1>1, <1>2, <1>3
    <3>2. LoadHashes(f, Entries(f))
      BY <2>3, <1>1 DEF RecvSigned
    <3> QED
      BY <3>1, <3>2, <2>2
  <2>5. errors' = errors
    BY <2>3, <2>4, <1>1 DEF RecvSigned
  <2> QED
    BY <2>4, <2>5, <1>5, <1>6
<1> QED
  BY <1>4, <1>5

\* The packets before table c are those of the tables before it.
LEMMA StartOfTable ==
  ASSUME NEW c \in Nat
  PROVE  Start(c) + (IF c = 0 THEN SignedMax ELSE ChainedMax) = First(c) /\ Start(c) \in Nat
<1>1. CASE c = 0
  BY <1>1, FirstStep, SizesAssumption DEF Start
<1>2. CASE c # 0
  <2>1. c - 1 \in Nat /\ (c - 1) + 1 = c
    BY <1>2
  <2>2. First((c - 1) + 1) = First(c - 1) + ChainedMax /\ First(c - 1) \in Nat
    BY <2>1, FirstStep
  <2> QED
    BY <2>1, <2>2, <1>2 DEF Start
<1> QED
  BY <1>1, <1>2

\* When the host finds that a chained table is due, the digests of all tables
\* sent so far are used up and packets remain.
LEMMA TableDue ==
  ASSUME BaseInv, InOrder, hpc = "tables", state = "SEND_NEXT_TABLE"
  PROVE  /\ frame = First(chained_cur)
         /\ First(chained_cur) < digest_num_written
         /\ vip_hash_count = frame /\ vip_hash_idx = frame
         /\ vip_has_chain_hash /\ vip_chain_hash = chained[chained_cur]
<1>1. /\ InStep /\ frame < npackets /\ vip_hash_idx = frame /\ npackets = digest_num_written
      /\ chained_cur \in Nat /\ frames_sent \in Nat /\ frame \in Nat /\ npackets \in Nat
  BY DEF BaseInv, TypeOK, GenTypeOK, HostTypeOK, SyncInv, InOrder, Complete
<1>2. frames_sent = frames_left
  BY <1>1 DEF InStep
<1>3. frame = First(chained_cur)
  BY <1>1, <1>2, StartOfTable DEF InStep
<1>4. vip_hash_count = frame
  BY <1>1, <1>3 DEF InStep, Covered, Lesser
<1> QED
  BY <1>1, <1>3, <1>4 DEF InStep

\* The chained table that is due is the announced one, is taken whole and
\* announces its successor when there is one.
LEMMA ChainedTaken ==
  ASSUME BaseInv, InOrder, hpc = "tables", state = "SEND_NEXT_TABLE", chained_cur < chained_num,
         RecvChained(chained[chained_cur])
  PROVE  /\ vip_hash_count' = Covered(chained_cur + 1)
         /\ \A j \in 0 .. vip_hash_count' - 1 : vip_hashes'[j] = j
         /\ errors' = errors
         /\ First(chained_cur + 1) < digest_num_written =>
              vip_has_chain_hash' /\ vip_chain_hash' = chained[chained_cur + 1]
<1> DEFINE c == chained_cur
           f == chained[c]
<1>1. /\ gpc = "done" /\ digest_num_written \in Nat /\ DevTypeOK /\ c \in Nat
      /\ chained_num \in 0 .. MaxChained
      /\ \A j \in 0 .. vip_hash_count - 1 : vip_hashes[j] = j
  BY DEF BaseInv, TypeOK, GenTypeOK, HostTypeOK, SyncInv, InOrder, Complete
<1>2. /\ First(c) < digest_num_written /\ vip_hash_count = First(c)
      /\ vip_has_chain_hash /\ vip_chain_hash = f
  BY TableDue
<1>3. ChainedMax \in Nat /\ First(c) \in Nat /\ First(c + 1) = First(c) + ChainedMax
  BY <1>1, FirstStep, SizesAssumption
<1>4. SIM_VIP_MAX_HASHES \in Nat /\ First(c + 1) <= SIM_VIP_MAX_HASHES
  <2>1. c + 1 \in Nat /\ MaxChained \in Nat /\ c + 1 <= MaxChained
    BY <1>1, SizesAssumption
  <2> QED
    BY <2>1, FirstMono, CapacityNat
<1>5. /\ f.fresh = TRUE /\ f.first = First(c) /\ f.count \in Nat
      /\ First(c) + f.count = Covered(c + 1) /\ Covered(c + 1) <= First(c + 1)
  BY <1>1, <1>2, TableContents
<1>6. f.count \in Nat /\ vip_hash_count + f.count = Covered(c + 1)
      /\ vip_hash_count + f.count <= SIM_VIP_MAX_HASHES
  BY <1>2, <1>3, <1>4, <1>5
<1>7. CASE First(c + 1) < digest_num_written
  <2>1. ~f.pad /\ f.linked /\ f.count = ChainedMax /\ f.chain = chained[c + 1]
    BY <1>1, <1>2, <1>7, TableContents
  <2>2. Entries(f) = ChainedMax + 1 /\ Entries(f) - 1 = f.count
    BY <2>1, <1>3 DEF Entries
  <2>3. /\ LoadHashes(f, f.count) /\ vip_chain_hash' = chained[c + 1]
        /\ ~(vip_hash_count + f.count > SIM_VIP_MAX_HASHES)
    BY <2>1, <2>2, <1>2, <1>3, <1>4, <1>6 DEF RecvChained
  <2>4. vip_has_chain_hash'
    BY <2>1, <2>2 DEF RecvChained
  <2>5. errors' = errors
    BY <2>1, <2>2, <2>3, <1>2 DEF RecvChained
  <2> QED
    BY <2>3, <2>4, <2>5, <1>1, <1>2, <1>5, <1>6, LoadInOrder
<1>8. CASE ~(First(c + 1) < digest_num_written)
  <2>1. f.pad /\ ~f.linked
    BY <1>1, <1>2, <1>8, TableContents
  <2>2. Entries(f) = f.count
    BY <2>1, <1>5 DEF Entries
  <2>3. LoadHashes(f, f.count) /\ ~(vip_hash_count + f.count > SIM_VIP_MAX_HASHES)
    BY <2>1, <2>2, <1>2, <1>3, <1>4, <1>6 DEF RecvChained
  <2>4. errors' = errors
    BY <2>1, <2>2, <2>3, <1>2 DEF RecvChained
  <2> QED
    BY <2>3, <2>4, <1>1, <1>2, <1>5, <1>6, <1>8, LoadInOrder
<1> QED
  BY <1>7, <1>8

-----------------------------------------------------------------------------
(* The steps of the session.                                               *)

\* The bounds that describe the tables do not move during a session.
LEMMA TablesFixed ==
  ASSUME UNCHANGED genVars
  PROVE  /\ npackets' = npackets /\ digest_num_written' = digest_num_written
         /\ tosign' = tosign /\ chained' = chained /\ gpc' = gpc
         /\ Num' = Num /\ Complete' = Complete
         /\ \A c : Covered(c)' = Covered(c)
BY DEF genVars, Num, Complete, Covered, First, Lesser

LEMMA TransferInitInv == ASSUME BaseInv, TransferInit PROVE BaseInv'
<1>1. /\ gpc = "done" /\ hpc = "off" /\ hpc' = "tables" /\ state' = "INIT"
      /\ signed_table' = tosign /\ chained_cur' = 0
      /\ UNCHANGED <<frame, frames_sent, frames_left, fh_parse_status, table_read,
                     vipFailed, devVars, genVars>>
  BY DEF TransferInit, OpenTables
<1>2. /\ chained_num' \in 0 .. MaxChained
      /\ 0 .. chained_num' - 1 \subseteq DOMAIN chained
      /\ chained_num' < MaxChained => chained_num' \notin DOMAIN chained
  BY DEF TransferInit, OpenTables
<1>3. IsFile(signed_table')
  BY <1>1 DEF BaseInv, TypeOK, GenTypeOK
<1>4. HostTypeOK'
  <2>1. fh_parse_status' \in BOOLEAN /\ table_read' \in BOOLEAN /\ vipFailed' \in BOOLEAN
    BY <1>1 DEF BaseInv, TypeOK, HostTypeOK
  <2> QED
    BY <2>1, <1>1, <1>2, <1>3 DEF BaseInv, TypeOK, HostTypeOK
<1>5. DevTypeOK'
  BY <1>1 DEF BaseInv, TypeOK, DevTypeOK, devVars, SIM_VIP_MAX_HASHES
<1>6. SyncInv'
  <2>1. errors' = {} /\ vip_hash_count' = 0 /\ vip_hash_idx' = 0 /\ frame' = 0
    BY <1>1 DEF BaseInv, SyncInv, devVars
  <2>2. gpc' = "done" /\ npackets' = npackets /\ npackets > 0 /\ npackets \in Nat
    BY <1>1, TablesFixed DEF BaseInv, GenInv, TypeOK, GenTypeOK
  <2>3. chained_num' < MaxChained => Num' <= chained_num'
    <3> SUFFICES ASSUME chained_num' < MaxChained, chained_num' < Num PROVE FALSE
      BY <1>1, <1>2, TablesFixed, SizesAssumption DEF BaseInv, TypeOK, GenTypeOK, Num
    <3>1. chained_num' \in 0 .. Num - 1 /\ ~(Num = 0)
      BY <1>2, SizesAssumption DEF BaseInv, TypeOK, GenTypeOK, Num
    <3>2. chained_num' \in DOMAIN chained
      BY <1>1, <3>1 DEF BaseInv, GenInv
    <3> QED
      BY <3>2, <1>2
  <2>4. 0 <= chained_num' /\ chained_cur' = 0
    BY <1>1, <1>2, SizesAssumption
  <2>5. \A j \in 0 .. vip_hash_count' - 1 : vip_hashes'[j] = j
    BY <2>1
  <2>6. chained' = chained /\ tosign' = tosign
    BY <1>1, TablesFixed
  <2> QED
    BY <2>1, <2>2, <2>3, <2>4, <2>5, <2>6, <1>1, <1>2 DEF SyncInv
<1> QED
  BY <1>1, <1>4, <1>5, <1>6, HostKeepsGen DEF BaseInv, TypeOK

\* What SyncInv says of a session in progress whose first table was sent.
LEMMA InStepSync ==
  ASSUME BaseInv, hpc # "off", UNCHANGED <<genVars, chained_num, signed_table>>,
         hpc' \in {"tables", "status", "write"},
         InOrder' => /\ InOrder /\ hpc \in {"tables", "status", "write"}
                     /\ errors' = errors /\ frame' < npackets
                     /\ vip_hash_idx' = frame'
                     /\ \A j \in 0 .. vip_hash_count' - 1 : vip_hashes'[j] = j
                     /\ chained_cur' <= chained_num
                     /\ state' # "INIT" /\ InStep'
  PROVE  SyncInv'
<1>1. 0 .. chained_num' - 1 \subseteq DOMAIN chained'
  BY TablesFixed DEF BaseInv, SyncInv
<1>2. InOrder' => /\ errors' = {} /\ frame' < npackets'
                  /\ signed_table' = tosign'
                  /\ chained_num' < MaxChained => Num' <= chained_num'
  BY TablesFixed DEF BaseInv, SyncInv
<1> QED
  BY <1>1, <1>2 DEF SyncInv

LEMMA NoTableDueInv == ASSUME BaseInv, NoTableDue PROVE BaseInv'
<1>1. /\ hpc = "tables" /\ state = "SEND_DATA" /\ gpc = "done"
      /\ UNCHANGED <<frame, signed_table, chained_num, chained_cur, fh_parse_status,
                     table_read, vipFailed, devVars, genVars>>
      /\ hpc' \in {"status", "write"}
      /\ frames_sent' = frames_sent + 1 /\ frames_left' = frames_left
      /\ state' = IF frames_sent + 1 >= frames_left THEN "SEND_NEXT_TABLE" ELSE "SEND_DATA"
  BY SessionAfterGen DEF NoTableDue, CountFrame
<1>2. HostTypeOK'
  <2>1. fh_parse_status' \in BOOLEAN /\ table_read' \in BOOLEAN /\ vipFailed' \in BOOLEAN
    BY <1>1 DEF BaseInv, TypeOK, HostTypeOK
  <2>2. IsFile(signed_table')
    BY <1>1 DEF BaseInv, TypeOK, HostTypeOK
  <2> QED
    BY <2>1, <2>2, <1>1 DEF BaseInv, TypeOK, HostTypeOK
<1>3. DevTypeOK'
  BY <1>1 DEF BaseInv, TypeOK, DevTypeOK, devVars, SIM_VIP_MAX_HASHES
<1>4. SyncInv'
  <2> SUFFICES ASSUME InOrder'
               PROVE  /\ InOrder /\ errors' = errors /\ frame' < npackets
                      /\ vip_hash_idx' = frame'
                      /\ \A j \in 0 .. vip_hash_count' - 1 : vip_hashes'[j] = j
                      /\ chained_cur' <= chained_num
                      /\ state' # "INIT" /\ InStep'
    BY <1>1, InStepSync
  <2>1. InOrder
    BY <1>1, TablesFixed DEF InOrder
  <2>2. /\ InStep /\ frame < npackets /\ vip_hash_idx = frame /\ chained_cur <= chained_num
        /\ \A j \in 0 .. vip_hash_count - 1 : vip_hashes[j] = j
    BY <2>1, <1>1 DEF BaseInv, SyncInv
  <2>3. frames_sent \in Nat /\ frames_left \in Nat /\ frame \in Nat /\ Start(chained_cur) \in Nat
    BY StartOfTable DEF BaseInv, TypeOK, HostTypeOK
  <2>4. frames_sent # frames_left
    BY <2>2, <1>1 DEF InStep
  <2>8. frames_sent <= frames_left /\ frame + 0 = Start(chained_cur) + frames_sent
    BY <2>2, <1>1 DEF InStep
  <2>5. frames_sent + 1 <= frames_left
    BY <2>3, <2>4, <2>8
  <2>6. /\ frames_sent' <= frames_left'
        /\ state' = IF frames_sent' = frames_left' THEN "SEND_NEXT_TABLE" ELSE "SEND_DATA"
        /\ frame' + 1 = Start(chained_cur) + frames_sent'
    BY <2>3, <2>5, <2>8, <1>1
  <2>7. InStep'
    BY <2>2, <2>6, <1>1, TablesFixed DEF InStep, devVars, Start, First
  <2> QED
    BY <2>1, <2>2, <2>7, <1>1 DEF devVars
<1> QED
  BY <1>1, <1>2, <1>3, <1>4, HostKeepsGen DEF BaseInv, TypeOK

LEMMA SendSignedInv == ASSUME BaseInv, SendSigned PROVE BaseInv'
<1>1. /\ hpc = "tables" /\ state = "INIT" /\ gpc = "done" /\ hpc' = "status"
      /\ UNCHANGED <<frame, signed_table, chained_num, chained_cur, table_read,
                     vipFailed, vip_hash_idx, genVars>>
      /\ RecvSigned(signed_table) /\ fh_parse_status' = TRUE
      /\ frames_sent' = 0 + 1 /\ frames_left' = SignedMax
      /\ state' = IF 0 + 1 >= SignedMax THEN "SEND_NEXT_TABLE" ELSE "SEND_DATA"
  BY SessionAfterGen DEF SendSigned, CountFrame
<1>2. HostTypeOK'
  <2>1. fh_parse_status' \in BOOLEAN /\ table_read' \in BOOLEAN /\ vipFailed' \in BOOLEAN
    BY <1>1 DEF BaseInv, TypeOK, HostTypeOK
  <2>2. IsFile(signed_table')
    BY <1>1 DEF BaseInv, TypeOK, HostTypeOK
  <2> QED
    BY <2>1, <2>2, <1>1, SizesAssumption DEF BaseInv, TypeOK, HostTypeOK
<1>3. DevTypeOK'
  <2>1. IsFile(signed_table)
    BY <1>1 DEF BaseInv, TypeOK, HostTypeOK
  <2> QED
    BY <2>1, <1>1, RecvTypes DEF BaseInv, TypeOK
<1>4. SyncInv'
  <2> SUFFICES ASSUME InOrder'
               PROVE  /\ InOrder /\ errors' = errors /\ frame' < npackets
                      /\ vip_hash_idx' = frame'
                      /\ \A j \in 0 .. vip_hash_count' - 1 : vip_hashes'[j] = j
                      /\ chained_cur' <= chained_num
                      /\ state' # "INIT" /\ InStep'
    BY <1>1, InStepSync
  <2>1. InOrder
    BY <1>1, TablesFixed DEF InOrder
  <2>2. /\ frame < npackets /\ vip_hash_idx = frame /\ chained_cur <= chained_num
        /\ frame = 0 /\ chained_cur = 0
    BY <2>1, <1>1 DEF BaseInv, SyncInv
  <2>3. /\ vip_hash_count' = Covered(0)
        /\ \A j \in 0 .. vip_hash_count' - 1 : vip_hashes'[j] = j
        /\ errors' = errors
        /\ First(0) < digest_num_written => vip_has_chain_hash' /\ vip_chain_hash' = chained[0]
    BY <2>1, <1>1, SignedTaken
  <2>4. /\ frames_sent' <= frames_left'
        /\ state' = IF frames_sent' = frames_left' THEN "SEND_NEXT_TABLE" ELSE "SEND_DATA"
        /\ frame' + 1 = Start(0) + frames_sent'
    BY <2>2, <1>1, SizesAssumption DEF Start
  <2>5. InStep'
    BY <2>2, <2>3, <2>4, <1>1, TablesFixed DEF InStep, Start, First
  <2> QED
    BY <2>1, <2>2, <2>3, <2>5, <1>1
<1> QED
  BY <1>1, <1>2, <1>3, <1>4, HostKeepsGen DEF BaseInv, TypeOK

LEMMA SendChainedInv == ASSUME BaseInv, SendChained PROVE BaseInv'
<1>1. /\ hpc = "tables" /\ state = "SEND_NEXT_TABLE" /\ gpc = "done" /\ hpc' = "status"
      /\ UNCHANGED <<frame, signed_table, chained_num, table_read,
                     vipFailed, vip_hash_idx, genVars>>
      /\ chained_cur < chained_num /\ chained_cur' = chained_cur + 1
      /\ RecvChained(chained[chained_cur]) /\ fh_parse_status' = TRUE
      /\ frames_sent' = 0 + 1 /\ frames_left' = ChainedMax
      /\ state' = IF 0 + 1 >= ChainedMax THEN "SEND_NEXT_TABLE" ELSE "SEND_DATA"
  BY SessionAfterGen DEF SendChained, CountFrame
<1>2. chained_cur \in Nat /\ chained_num \in Nat
  BY SizesAssumption DEF BaseInv, TypeOK, HostTypeOK
<1>3. HostTypeOK'
  <2>1. fh_parse_status' \in BOOLEAN /\ table_read' \in BOOLEAN /\ vipFailed' \in BOOLEAN
    BY <1>1 DEF BaseInv, TypeOK, HostTypeOK
  <2>2. IsFile(signed_table')
    BY <1>1 DEF BaseInv, TypeOK, HostTypeOK
  <2> QED
    BY <2>1, <2>2, <1>1, SizesAssumption DEF BaseInv, TypeOK, HostTypeOK
<1>4. DevTypeOK'
  <2>1. chained_cur \in DOMAIN chained
    BY <1>1, <1>2 DEF BaseInv, SyncInv
  <2>2. IsFile(chained[chained_cur])
    BY <2>1 DEF BaseInv, TypeOK, GenTypeOK
  <2> QED
    BY <2>2, <1>1, RecvTypes DEF BaseInv, TypeOK
<1>5. SyncInv'
  <2> SUFFICES ASSUME InOrder'
               PROVE  /\ InOrder /\ errors' = errors /\ frame' < npackets
                      /\ vip_hash_idx' = frame'
                      /\ \A j \in 0 .. vip_hash_count' - 1 : vip_hashes'[j] = j
                      /\ chained_cur' <= chained_num
                      /\ state' # "INIT" /\ InStep'
    BY <1>1, InStepSync
  <2>1. InOrder
    BY <1>1, TablesFixed DEF InOrder
  <2>2. frame < npackets /\ vip_hash_idx = frame
    BY <2>1, <1>1 DEF BaseInv, SyncInv
  <2>3. /\ vip_hash_count' = Covered(chained_cur')
        /\ \A j \in 0 .. vip_hash_count' - 1 : vip_hashes'[j] = j
        /\ errors' = errors
        /\ First(chained_cur') < digest_num_written =>
             vip_has_chain_hash' /\ vip_chain_hash' = chained[chained_cur']
    BY <2>1, <1>1, ChainedTaken
  <2>4. frame = First(chained_cur)
    BY <2>1, <1>1, TableDue
  <2>5. chained_cur' # 0 /\ chained_cur' - 1 = chained_cur /\ chained_cur' <= chained_num
    BY <1>1, <1>2
  <2>6. /\ frames_sent' <= frames_left'
        /\ state' = IF frames_sent' = frames_left' THEN "SEND_NEXT_TABLE" ELSE "SEND_DATA"
    BY <1>1, SizesAssumption
  <2>7. frame' + 1 = Start(chained_cur') + frames_sent'
    BY <2>4, <2>5, <1>1 DEF Start
  <2>8. InStep'
    BY <2>3, <2>5, <2>6, <2>7, <1>1, TablesFixed DEF InStep, Start, First
  <2> QED
    BY <2>1, <2>2, <2>3, <2>5, <2>8, <1>1
<1> QED
  BY <1>1, <1>3, <1>4, <1>5, HostKeepsGen DEF BaseInv, TypeOK

LEMMA TableAcceptedInv == ASSUME BaseInv, TableAccepted PROVE BaseInv'
<1>1. /\ hpc = "status" /\ gpc = "done" /\ hpc' = "write" /\ fh_parse_status' = FALSE
      /\ UNCHANGED <<frame, state, signed_table, chained_num, chained_cur, frames_sent,
                     frames_left, table_read, vipFailed, devVars, genVars>>
  BY SessionAfterGen DEF TableAccepted
<1>2. HostTypeOK'
  <2>1. fh_parse_status' \in BOOLEAN /\ table_read' \in BOOLEAN /\ vipFailed' \in BOOLEAN
    BY <1>1 DEF BaseInv, TypeOK, HostTypeOK
  <2>2. IsFile(signed_table')
    BY <1>1 DEF BaseInv, TypeOK, HostTypeOK
  <2> QED
    BY <2>1, <2>2, <1>1 DEF BaseInv, TypeOK, HostTypeOK
<1>3. DevTypeOK'
  BY <1>1 DEF BaseInv, TypeOK, DevTypeOK, devVars, SIM_VIP_MAX_HASHES
<1>4. SyncInv'
  <2> SUFFICES ASSUME InOrder'
               PROVE  /\ InOrder /\ errors' = errors /\ frame' < npackets
                      /\ vip_hash_idx' = frame'
                      /\ \A j \in 0 .. vip_hash_count' - 1 : vip_hashes'[j] = j
                      /\ chained_cur' <= chained_num
                      /\ state' # "INIT" /\ InStep'
    BY <1>1, InStepSync
  <2>1. InOrder
    BY <1>1, TablesFixed DEF InOrder
  <2>2. /\ state # "INIT" /\ InStep /\ frame < npackets /\ vip_hash_idx = frame
        /\ chained_cur <= chained_num
        /\ \A j \in 0 .. vip_hash_count - 1 : vip_hashes[j] = j
    BY <2>1, <1>1 DEF BaseInv, SyncInv
  <2>3. InStep'
    BY <2>2, <1>1, TablesFixed DEF InStep, devVars, Start, First
  <2> QED
    BY <2>1, <2>2, <2>3, <1>1 DEF devVars
<1> QED
  BY <1>1, <1>2, <1>3, <1>4, HostKeepsGen DEF BaseInv, TypeOK

\* Before a packet is written the device holds its digest, next in line.
LEMMA DigestThere ==
  ASSUME BaseInv, InOrder, hpc \in {"status", "write"}
  PROVE  vip_hash_idx = frame /\ frame < vip_hash_count /\ vip_hashes[frame] = frame
<1>1. /\ InStep /\ frame < npackets /\ vip_hash_idx = frame
      /\ \A j \in 0 .. vip_hash_count - 1 : vip_hashes[j] = j
  BY DEF BaseInv, SyncInv
<1>2. /\ frames_sent \in Nat /\ frames_left \in Nat /\ frame \in Nat /\ chained_cur \in Nat
      /\ npackets = digest_num_written /\ digest_num_written \in Nat
  BY DEF BaseInv, TypeOK, GenTypeOK, HostTypeOK, InOrder, Complete
<1>3. /\ frame + 1 = Start(chained_cur) + frames_sent /\ frames_sent <= frames_left
      /\ frames_left = IF chained_cur = 0 THEN SignedMax ELSE ChainedMax
      /\ vip_hash_count = Covered(chained_cur)
  BY <1>1 DEF InStep
<1>4. frame < First(chained_cur)
  BY <1>2, <1>3, StartOfTable, SizesAssumption
<1>5. frame < vip_hash_count
  <2>1. First(chained_cur) \in Nat
    BY <1>2, FirstStep
  <2> QED
    BY <2>1, <1>1, <1>2, <1>3, <1>4 DEF Covered, Lesser
<1>6. vip_hash_count \in Nat
  BY CapacityNat DEF BaseInv, TypeOK, DevTypeOK
<1>7. frame \in 0 .. vip_hash_count - 1
  BY <1>2, <1>5, <1>6
<1> QED
  BY <1>1, <1>5, <1>7

LEMMA WritePacketInv == ASSUME BaseInv, WritePacket PROVE BaseInv'
<1>1. /\ hpc = "write" /\ gpc = "done"
      /\ CheckChunk(frame) /\ frame' = frame + 1
      /\ hpc' = IF frame + 1 < npackets THEN "tables" ELSE "done"
      /\ UNCHANGED <<state, signed_table, chained_num, chained_cur, frames_sent,
                     frames_left, fh_parse_status, table_read, vipFailed,
                     vip_hashes, vip_hash_count, vip_chain_hash, vip_has_chain_hash,
                     genVars>>
  BY SessionAfterGen DEF WritePacket
<1>2. HostTypeOK'
  <2>1. fh_parse_status' \in BOOLEAN /\ table_read' \in BOOLEAN /\ vipFailed' \in BOOLEAN
    BY <1>1 DEF BaseInv, TypeOK, HostTypeOK
  <2>2. IsFile(signed_table')
    BY <1>1 DEF BaseInv, TypeOK, HostTypeOK
  <2> QED
    BY <2>1, <2>2, <1>1 DEF BaseInv, TypeOK, HostTypeOK
<1>3. DevTypeOK'
  <2>1. vip_hash_idx' \in Nat /\ errors' \subseteq ErrorKinds
    <3>1. /\ vip_hash_idx' \in {vip_hash_idx, vip_hash_idx + 1}
          /\ errors' \in {errors, errors \cup {"noentry"}, errors \cup {"mismatch"}}
      BY <1>1 DEF CheckChunk
    <3>2. vip_hash_idx \in Nat /\ errors \subseteq ErrorKinds
      BY DEF BaseInv, TypeOK, DevTypeOK
    <3> QED
      BY <3>1, <3>2 DEF ErrorKinds
  <2>2. vip_has_chain_hash' \in BOOLEAN
    BY <1>1 DEF BaseInv, TypeOK, DevTypeOK
  <2> QED
    BY <2>1, <2>2, <1>1 DEF BaseInv, TypeOK, DevTypeOK, SIM_VIP_MAX_HASHES
<1>4. InOrder' => InOrder
  BY <1>1, TablesFixed DEF InOrder
<1>5. ASSUME InOrder PROVE errors' = errors /\ vip_hash_idx' = frame'
  <2>1. /\ vip_hash_idx = frame /\ frame < vip_hash_count /\ vip_hashes[frame] = frame
        /\ frame \in Nat /\ vip_hash_count \in Nat
    BY <1>1, <1>5, DigestThere, CapacityNat DEF BaseInv, TypeOK, HostTypeOK, DevTypeOK
  <2> QED
    BY <2>1, <1>1 DEF CheckChunk
<1>6. CASE frame + 1 < npackets
  <2>1. hpc' = "tables"
    BY <1>1, <1>6
  <2> SUFFICES ASSUME InOrder'
               PROVE  /\ InOrder /\ errors' = errors /\ frame' < npackets
                      /\ vip_hash_idx' = frame'
                      /\ \A j \in 0 .. vip_hash_count' - 1 : vip_hashes'[j] = j
                      /\ chained_cur' <= chained_num
                      /\ state' # "INIT" /\ InStep'
    BY <2>1, <1>1, <1>2, <1>3, InStepSync, HostKeepsGen DEF BaseInv, TypeOK
  <2>2. /\ state # "INIT" /\ InStep /\ chained_cur <= chained_num
        /\ \A j \in 0 .. vip_hash_count - 1 : vip_hashes[j] = j
    BY <1>1, <1>4 DEF BaseInv, SyncInv
  <2>3. frame' + 0 = Start(chained_cur) + frames_sent
    BY <2>2, <1>1 DEF InStep, BaseInv, TypeOK, HostTypeOK
  <2>4. InStep'
    BY <2>1, <2>2, <2>3, <1>1, TablesFixed DEF InStep, Start, First
  <2> QED
    BY <2>2, <2>4, <1>1, <1>4, <1>5, <1>6
<1>7. CASE ~(frame + 1 < npackets)
  <2>1. hpc' = "done"
    BY <1>1, <1>7
  <2>2. ASSUME InOrder
        PROVE  errors' = {} /\ vip_hash_idx' = npackets /\ vip_hash_count' = npackets
    <3>1. /\ frame < npackets /\ frame \in Nat /\ npackets \in Nat
          /\ npackets = digest_num_written /\ chained_cur \in Nat
          /\ vip_hash_count = Covered(chained_cur) /\ errors = {}
      BY <2>2, <1>1 DEF BaseInv, SyncInv, InStep, TypeOK, GenTypeOK, HostTypeOK, InOrder, Complete
    <3>2. frame + 1 = npackets
      BY <3>1, <1>7
    <3>3. frame < vip_hash_count /\ First(chained_cur) \in Nat
      BY <2>2, <3>1, <1>1, DigestThere, FirstStep
    <3>4. vip_hash_count = npackets
      BY <3>1, <3>2, <3>3 DEF Covered, Lesser
    <3> QED
      BY <3>1, <3>2, <3>4, <2>2, <1>1, <1>5
  <2>3. 0 .. chained_num' - 1 \subseteq DOMAIN chained'
    BY <1>1, TablesFixed DEF BaseInv, SyncInv
  <2>4. SyncInv'
    BY <2>1, <2>2, <2>3, <1>1, <1>4, TablesFixed DEF SyncInv
  <2> QED
    BY <2>4, <1>1, <1>2, <1>3, HostKeepsGen DEF BaseInv, TypeOK
<1> QED
  BY <1>6, <1>7

\* A run that gives up reports nothing; one that goes on is no longer in order.
LEMMA GiveUpInv ==
  ASSUME BaseInv, hpc # "off", NEW why \in {"failed", "missing"}, GiveUp(why), DevTypeOK',
         UNCHANGED <<state, signed_table, chained_num, chained_cur, frames_sent,
                     frames_left, fh_parse_status, genVars>>,
         table_read' \in BOOLEAN,
         InOrder => errors' = errors /\ (why = "missing" => frame = Capacity)
  PROVE  BaseInv'
<1>1. gpc = "done" /\ hpc' \in {"tables", "done", "failed", "missing"}
  BY SessionAfterGen DEF GiveUp
<1>2. \/ vipFailed' = TRUE
      \/ vipFailed' = vipFailed /\ hpc' = why /\ frame' = frame
  BY DEF GiveUp
<1>3. HostTypeOK'
  <2>1. fh_parse_status' \in BOOLEAN /\ vipFailed' \in BOOLEAN
    BY <1>2 DEF BaseInv, TypeOK, HostTypeOK
  <2>2. IsFile(signed_table')
    BY DEF BaseInv, TypeOK, HostTypeOK
  <2>3. frame' \in Nat
    BY DEF BaseInv, TypeOK, HostTypeOK, GiveUp
  <2> QED
    BY <2>1, <2>2, <2>3, <1>1 DEF BaseInv, TypeOK, HostTypeOK
<1>4. SyncInv'
  <2>1. 0 .. chained_num' - 1 \subseteq DOMAIN chained'
    BY TablesFixed DEF BaseInv, SyncInv
  <2>2. CASE vipFailed' = TRUE
    <3>1. ~InOrder'
      BY <2>2 DEF InOrder
    <3> QED
      BY <2>1, <3>1, <1>1 DEF SyncInv
  <2>3. CASE vipFailed' = vipFailed /\ hpc' = why /\ frame' = frame
    <3>1. InOrder' => InOrder
      BY <2>3, TablesFixed DEF InOrder
    <3>2. InOrder => errors = {}
      BY DEF BaseInv, SyncInv
    <3>3. InOrder' => errors' = {} /\ (hpc' = "missing" => frame' = Capacity')
      BY <2>3, <3>1, <3>2 DEF Capacity, SIM_VIP_MAX_HASHES
    <3>4. hpc' \in {"failed", "missing"}
      BY <2>3
    <3> QED
      BY <2>1, <3>3, <3>4 DEF SyncInv
  <2> QED
    BY <1>2, <2>2, <2>3
<1> QED
  BY <1>1, <1>3, <1>4, HostKeepsGen DEF BaseInv, TypeOK

LEMMA MissingTableInv == ASSUME BaseInv, MissingTable PROVE BaseInv'
<1>1. /\ hpc = "tables" /\ state = "SEND_NEXT_TABLE" /\ chained_cur >= chained_num
      /\ GiveUp("missing")
      /\ UNCHANGED <<state, signed_table, chained_num, chained_cur, frames_sent,
                     frames_left, fh_parse_status, table_read, devVars, genVars>>
  BY DEF MissingTable
<1>2. DevTypeOK'
  BY <1>1 DEF BaseInv, TypeOK, DevTypeOK, devVars, SIM_VIP_MAX_HASHES
<1>3. table_read' \in BOOLEAN
  BY <1>1 DEF BaseInv, TypeOK, HostTypeOK
<1>4. ASSUME InOrder PROVE frame = Capacity
  <2>1. /\ chained_cur <= chained_num
        /\ chained_num < MaxChained => Num <= chained_num
        /\ gpc = "done"
    BY <1>1, <1>4, SessionAfterGen DEF BaseInv, SyncInv
  <2>2. /\ chained_cur \in Nat /\ chained_num \in 0 .. MaxChained /\ Num \in Nat
        /\ MaxChained \in Nat
    BY SizesAssumption DEF BaseInv, TypeOK, GenTypeOK, HostTypeOK, Num
  <2>3. frame = First(chained_cur) /\ First(chained_cur) < digest_num_written
    BY <1>1, <1>4, TableDue
  <2>4. chained_cur < Num
    BY <2>1, <2>2, <2>3, TableThere
  <2>5. chained_cur = MaxChained
    BY <1>1, <2>1, <2>2, <2>4
  <2> QED
    BY <2>3, <2>5, CapacityNat DEF Capacity
<1>5. errors' = errors
  BY <1>1 DEF devVars
<1> QED
  BY <1>1, <1>2, <1>3, <1>4, <1>5, GiveUpInv

LEMMA TableWriteFailsInv == ASSUME BaseInv, TableWriteFails PROVE BaseInv'
<1>1. /\ hpc = "tables" /\ table_read' = TRUE
      /\ GiveUp("failed")
      /\ UNCHANGED <<state, signed_table, chained_num, chained_cur, frames_sent,
                     frames_left, fh_parse_status, genVars>>
  BY DEF TableWriteFails
<1>2. CASE UNCHANGED devVars
  <2>1. DevTypeOK'
    BY <1>2 DEF BaseInv, TypeOK, DevTypeOK, devVars, SIM_VIP_MAX_HASHES
  <2> QED
    BY <2>1, <1>1, <1>2, GiveUpInv DEF devVars
<1>3. CASE state = "INIT" /\ RecvSigned(signed_table) /\ UNCHANGED vip_hash_idx
  <2>1. IsFile(signed_table)
    BY <1>1 DEF BaseInv, TypeOK, HostTypeOK
  <2>2. DevTypeOK'
    BY <2>1, <1>3, RecvTypes DEF BaseInv, TypeOK
  <2>3. InOrder => errors' = errors
    BY <1>1, <1>3, SignedTaken
  <2> QED
    BY <2>2, <2>3, <1>1, GiveUpInv
<1>4. CASE /\ state = "SEND_NEXT_TABLE" /\ chained_cur < chained_num
           /\ RecvChained(chained[chained_cur]) /\ UNCHANGED vip_hash_idx
  <2>1. chained_cur \in DOMAIN chained
    BY <1>1, <1>4, SizesAssumption DEF BaseInv, SyncInv, TypeOK, HostTypeOK
  <2>2. IsFile(chained[chained_cur])
    BY <2>1 DEF BaseInv, TypeOK, GenTypeOK
  <2>3. DevTypeOK'
    BY <2>2, <1>4, RecvTypes DEF BaseInv, TypeOK
  <2>4. InOrder => errors' = errors
    BY <1>1, <1>4, ChainedTaken
  <2> QED
    BY <2>3, <2>4, <1>1, GiveUpInv
<1> QED
  BY <1>2, <1>3, <1>4 DEF TableWriteFails

LEMMA StatusOrWriteFailsInv == ASSUME BaseInv, StatusOrWriteFails PROVE BaseInv'
<1>1. /\ hpc # "off" /\ GiveUp("failed")
      /\ UNCHANGED <<state, signed_table, chained_num, chained_cur, frames_sent,
                     frames_left, fh_parse_status, table_read, devVars, genVars>>
  BY DEF StatusOrWriteFails
<1>2. DevTypeOK' /\ errors' = errors
  BY <1>1 DEF BaseInv, TypeOK, DevTypeOK, devVars, SIM_VIP_MAX_HASHES
<1>3. table_read' \in BOOLEAN
  BY <1>1 DEF BaseInv, TypeOK, HostTypeOK
<1> QED
  BY <1>1, <1>2, <1>3, GiveUpInv

LEMMA StutterInv == ASSUME BaseInv, UNCHANGED vars PROVE BaseInv'
<1>1. UNCHANGED <<genVars, hostVars, devVars>>
  BY DEF vars
<1>2. GenTypeOK'
  <2>1. table_open' \in BOOLEAN
    BY <1>1 DEF BaseInv, TypeOK, GenTypeOK, genVars
  <2>2. /\ \A i \in DOMAIN chained' : i \in Nat /\ IsFile(chained'[i])
        /\ \A i \in DOMAIN chain_ctxs' : IsFile(chain_ctxs'[i])
        /\ IsFile(tosign')
    BY <1>1 DEF BaseInv, TypeOK, GenTypeOK, genVars
  <2> QED
    BY <2>1, <2>2, <1>1 DEF BaseInv, TypeOK, GenTypeOK, genVars
<1>3. GenInv'
  BY <1>1 DEF BaseInv, GenInv, genVars, hostVars, NumFits, Num, Linked, Payload, First, File, WithChain
<1>4. SyncInv'
  BY <1>1, TablesFixed DEF BaseInv, SyncInv, InOrder, InStep, Start, First, Capacity,
     SIM_VIP_MAX_HASHES, hostVars, devVars
<1> QED
  BY <1>1, <1>2, <1>3, <1>4, GenKeepsTypes DEF BaseInv, TypeOK

-----------------------------------------------------------------------------
(* A session over tables that lost digests.                                *)

LEMMA InitShort == Init => ShortInv
BY DEF Init, GenInit, HostInit, ShortInv, Unnoticed

\* Loading a table that fits makes room for nothing else.
LEMMA LoadCount ==
  ASSUME NEW f, NEW n \in Nat, LoadHashes(f, n), DevTypeOK,
         vip_hash_count + n <= SIM_VIP_MAX_HASHES
  PROVE  vip_hash_count' = vip_hash_count + n
<1>1. SIM_VIP_MAX_HASHES \in Nat /\ vip_hash_count \in Nat
  BY CapacityNat DEF DevTypeOK
<1>2. Lesser(n, SIM_VIP_MAX_HASHES - vip_hash_count) = n
  BY <1>1 DEF Lesser
<1> QED
  BY <1>2 DEF LoadHashes

\* A signed table taken without error is not empty and announces table 0
\* exactly when there is one.
LEMMA SignedKept ==
  ASSUME BaseInv, ShortInv, Unnoticed, hpc = "tables", state = "INIT",
         RecvSigned(signed_table), errors' = {}
  PROVE  /\ vip_hash_count' = Covered(0)
         /\ vip_hash_count' > 0
         /\ vip_has_chain_hash' => First(0) < digest_num_written /\ vip_chain_hash' = chained[0]
<1> DEFINE f == tosign
<1>1. /\ gpc = "done" /\ signed_table = f /\ vip_hash_count = 0 /\ ~vip_has_chain_hash
      /\ DevTypeOK /\ digest_num_written \in Nat
  BY DEF BaseInv, ShortInv, Unnoticed, TypeOK, GenTypeOK
<1>2. /\ SignedMax \in Nat /\ SignedMax > 0 /\ First(0) = SignedMax
      /\ SignedMax <= SIM_VIP_MAX_HASHES /\ SIM_VIP_MAX_HASHES \in Nat
  BY CapacityNat, FirstStep, SizesAssumption
<1>3. f.count = Covered(0) /\ Covered(0) \in Nat /\ Covered(0) <= SignedMax
  BY <1>1, SignedContents
<1>4. RecvSigned(f)
  BY <1>1
<1>5. Entries(f) # 0
  BY <1>4 DEF RecvSigned
<1>6. 0 + Covered(0) <= SIM_VIP_MAX_HASHES /\ 0 + Covered(0) = Covered(0)
  BY <1>2, <1>3
<1>7. CASE First(0) < digest_num_written
  <2>1. f.linked /\ f.count = SignedMax /\ f.chain = chained[0]
    BY <1>1, <1>7, SignedContents
  <2>2. Entries(f) = SignedMax + 1 /\ Entries(f) - 1 = Covered(0)
    BY <2>1, <1>2, <1>3 DEF Entries
  <2>3. LoadHashes(f, Covered(0)) /\ vip_chain_hash' = chained[0]
    BY <2>1, <2>2, <1>4, <1>5 DEF RecvSigned
  <2>4. vip_hash_count' = Covered(0)
    BY <2>3, <1>1, <1>3, <1>6, LoadCount
  <2> QED
    BY <2>1, <2>3, <2>4, <1>2, <1>3, <1>7
<1>8. CASE ~(First(0) < digest_num_written)
  <2>1. ~f.linked
    BY <1>1, <1>8, SignedContents
  <2>2. Entries(f) = Covered(0)
    BY <2>1, <1>3 DEF Entries
  <2>3. Entries(f) # SignedMax + 1
    BY <2>2, <1>2, <1>3
  <2>4. LoadHashes(f, Covered(0)) /\ vip_has_chain_hash' = (FALSE \/ vip_has_chain_hash)
    BY <2>2, <2>3, <1>4, <1>5 DEF RecvSigned
  <2>5. vip_hash_count' = Covered(0)
    BY <2>4, <1>1, <1>3, <1>6, LoadCount
  <2>6. Covered(0) > 0
    BY <2>2, <1>3, <1>5
  <2> QED
    BY <2>4, <2>5, <2>6, <1>1
<1> QED
  BY <1>7, <1>8

\* A chained table taken without error was announced, fits and announces its
\* successor when there is one: a table that nothing announced is an error.
LEMMA ChainedKept ==
  ASSUME BaseInv, ShortInv, Unnoticed, hpc = "tables", state = "SEND_NEXT_TABLE",
         RecvChained(chained[chained_cur]), errors' = {}
  PROVE  /\ vip_hash_count' = Covered(chained_cur + 1)
         /\ vip_hash_count' > 0
         /\ vip_has_chain_hash' => /\ First(chained_cur + 1) < digest_num_written
                                   /\ vip_chain_hash' = chained[chained_cur + 1]
<1> DEFINE f     == chained[chained_cur]
           chain == ~f.pad /\ Entries(f) = ChainedMax + 1
           count == IF chain THEN Entries(f) - 1 ELSE Entries(f)
<1>1. /\ gpc = "done" /\ DevTypeOK /\ digest_num_written \in Nat /\ chained_cur \in Nat
      /\ vip_hash_count = Covered(chained_cur) /\ vip_hash_count > 0
      /\ vip_has_chain_hash => First(chained_cur) < digest_num_written
  BY DEF BaseInv, ShortInv, Unnoticed, TypeOK, GenTypeOK, HostTypeOK
<1>2. /\ LoadHashes(f, count)
      /\ vip_chain_hash' = IF chain THEN f.chain ELSE vip_chain_hash
      /\ vip_has_chain_hash' = chain
      /\ vip_has_chain_hash /\ ~(vip_hash_count + count > SIM_VIP_MAX_HASHES)
  BY DEF RecvChained
<1>3. First(chained_cur) < digest_num_written
  BY <1>1, <1>2
<1>4. /\ ChainedMax \in Nat /\ First(chained_cur) \in Nat /\ SIM_VIP_MAX_HASHES \in Nat
      /\ vip_hash_count \in Nat
  BY <1>1, FirstStep, SizesAssumption, CapacityNat DEF DevTypeOK
<1>5. vip_hash_count = First(chained_cur)
  BY <1>1, <1>3 DEF Covered, Lesser
<1>6. f.count \in Nat /\ First(chained_cur) + f.count = Covered(chained_cur + 1)
  BY <1>1, <1>3, TableContents
<1>7. CASE First(chained_cur + 1) < digest_num_written
  <2>1. ~f.pad /\ f.linked /\ f.count = ChainedMax /\ f.chain = chained[chained_cur + 1]
    BY <1>1, <1>3, <1>7, TableContents
  <2>2. Entries(f) = ChainedMax + 1 /\ chain
    BY <2>1, <1>4 DEF Entries
  <2>3. count = f.count
    BY <2>1, <2>2, <1>4
  <2>4. LoadHashes(f, f.count) /\ vip_hash_count + f.count <= SIM_VIP_MAX_HASHES
    BY <2>3, <1>2, <1>4, <1>6
  <2>5. vip_hash_count' = vip_hash_count + f.count
    BY <2>4, <1>1, <1>6, LoadCount
  <2> HIDE DEF f, chain, count
  <2>6. vip_hash_count' = Covered(chained_cur + 1) /\ vip_hash_count' > 0
    BY <2>5, <1>1, <1>4, <1>5, <1>6
  <2>7. vip_chain_hash' = chained[chained_cur + 1]
    BY <2>1, <2>2, <1>2
  <2> QED
    BY <2>6, <2>7, <1>7
<1>8. CASE ~(First(chained_cur + 1) < digest_num_written)
  <2>1. f.pad /\ ~f.linked
    BY <1>1, <1>3, <1>8, TableContents
  <2>2. ~chain
    BY <2>1
  <2>3. count = f.count
    BY <2>1, <2>2, <1>6 DEF Entries
  <2>4. LoadHashes(f, f.count) /\ vip_hash_count + f.count <= SIM_VIP_MAX_HASHES
    BY <2>3, <1>2, <1>4, <1>6
  <2>5. vip_hash_count' = vip_hash_count + f.count
    BY <2>4, <1>1, <1>6, LoadCount
  <2> HIDE DEF f, chain, count
  <2>6. vip_hash_count' = Covered(chained_cur + 1) /\ vip_hash_count' > 0
    BY <2>5, <1>1, <1>4, <1>5, <1>6
  <2> QED
    BY <2>2, <2>6, <1>2
<1> QED
  BY <1>7, <1>8

\* A session that gives up, or skips a packet, is none of those meant.
LEMMA GiveUpShort ==
  ASSUME NEW why \in {"failed", "missing"}, GiveUp(why)
  PROVE  ShortInv'
<1>1. hpc' # "off"
  BY DEF GiveUp
<1>2. \/ vipFailed' = TRUE
      \/ hpc' \in {"failed", "missing"}
  BY DEF GiveUp
<1> QED
  BY <1>1, <1>2 DEF ShortInv, Unnoticed

\* Errors are never taken back, and the tables do not move.
LEMMA StillUnnoticed ==
  ASSUME UNCHANGED <<genVars, vipFailed>>, errors \subseteq errors', Unnoticed'
  PROVE  Unnoticed /\ errors' = {}
BY TablesFixed DEF Unnoticed

LEMMA StutterShort ==
  ASSUME ShortInv, UNCHANGED vars
  PROVE  ShortInv'
<1>1. UNCHANGED <<genVars, hostVars, devVars>>
  BY DEF vars
<1>2. Unnoticed' = Unnoticed
  BY <1>1, TablesFixed DEF Unnoticed, hostVars, devVars
<1> QED
  BY <1>1, <1>2, TablesFixed DEF ShortInv, hostVars, devVars, First

LEMMA NoTableDueShort == ASSUME BaseInv, ShortInv, NoTableDue PROVE ShortInv'
<1>1. /\ hpc = "tables" /\ state = "SEND_DATA" /\ hpc' \in {"status", "write"}
      /\ state' \in {"SEND_NEXT_TABLE", "SEND_DATA"}
      /\ UNCHANGED <<frame, signed_table, chained_cur, vipFailed, devVars, genVars>>
  BY DEF NoTableDue, CountFrame
<1>2. ASSUME Unnoticed' PROVE Unnoticed
  BY <1>1, <1>2, StillUnnoticed DEF devVars
<1> QED
  BY <1>1, <1>2, TablesFixed DEF ShortInv, devVars, First

LEMMA TableAcceptedShort == ASSUME BaseInv, ShortInv, TableAccepted PROVE ShortInv'
<1>1. /\ hpc = "status" /\ hpc' = "write"
      /\ UNCHANGED <<frame, state, signed_table, chained_cur, vipFailed, devVars, genVars>>
  BY DEF TableAccepted
<1>2. ASSUME Unnoticed' PROVE Unnoticed
  BY <1>1, <1>2, StillUnnoticed DEF devVars
<1> QED
  BY <1>1, <1>2, TablesFixed DEF ShortInv, devVars, First

LEMMA SendSignedShort == ASSUME BaseInv, ShortInv, SendSigned PROVE ShortInv'
<1>1. /\ hpc = "tables" /\ state = "INIT" /\ hpc' = "status"
      /\ RecvSigned(signed_table)
      /\ state' \in {"SEND_NEXT_TABLE", "SEND_DATA"}
      /\ UNCHANGED <<frame, signed_table, chained_cur, vipFailed, vip_hash_idx, genVars>>
  BY DEF SendSigned, CountFrame
<1>2. errors \subseteq errors'
  BY <1>1 DEF RecvSigned
<1>3. ASSUME Unnoticed'
      PROVE  /\ frame' <= digest_num_written' /\ vip_hash_idx' = frame'
             /\ signed_table' = tosign'
             /\ vip_hash_count' = Covered(chained_cur') /\ vip_hash_count' > 0
             /\ vip_has_chain_hash' => /\ First(chained_cur') < digest_num_written'
                                       /\ vip_chain_hash' = chained'[chained_cur']
  <2>1. Unnoticed /\ errors' = {}
    BY <1>1, <1>2, <1>3, StillUnnoticed
  <2>2. chained_cur = 0 /\ vip_hash_idx = frame /\ frame <= digest_num_written
        /\ signed_table = tosign
    BY <2>1, <1>1 DEF ShortInv
  <2>3. /\ vip_hash_count' = Covered(0) /\ vip_hash_count' > 0
        /\ vip_has_chain_hash' => First(0) < digest_num_written /\ vip_chain_hash' = chained[0]
    BY <2>1, <1>1, SignedKept
  <2> QED
    BY <2>2, <2>3, <1>1, TablesFixed
<1> QED
  BY <1>1, <1>3, TablesFixed DEF ShortInv, First

LEMMA SendChainedShort == ASSUME BaseInv, ShortInv, SendChained PROVE ShortInv'
<1>1. /\ hpc = "tables" /\ state = "SEND_NEXT_TABLE" /\ hpc' = "status"
      /\ RecvChained(chained[chained_cur]) /\ chained_cur' = chained_cur + 1
      /\ state' \in {"SEND_NEXT_TABLE", "SEND_DATA"}
      /\ UNCHANGED <<frame, signed_table, vipFailed, vip_hash_idx, genVars>>
  BY DEF SendChained, CountFrame
<1>2. errors \subseteq errors'
  BY <1>1 DEF RecvChained
<1>3. ASSUME Unnoticed'
      PROVE  /\ frame' <= digest_num_written' /\ vip_hash_idx' = frame'
             /\ signed_table' = tosign'
             /\ vip_hash_count' = Covered(chained_cur') /\ vip_hash_count' > 0
             /\ vip_has_chain_hash' => /\ First(chained_cur') < digest_num_written'
                                       /\ vip_chain_hash' = chained'[chained_cur']
  <2>1. Unnoticed /\ errors' = {}
    BY <1>1, <1>2, <1>3, StillUnnoticed
  <2>2. vip_hash_idx = frame /\ frame <= digest_num_written /\ signed_table = tosign
    BY <2>1, <1>1 DEF ShortInv
  <2>3. /\ vip_hash_count' = Covered(chained_cur + 1) /\ vip_hash_count' > 0
        /\ vip_has_chain_hash' => /\ First(chained_cur + 1) < digest_num_written
                                  /\ vip_chain_hash' = chained[chained_cur + 1]
    BY <2>1, <1>1, ChainedKept
  <2> QED
    BY <2>2, <2>3, <1>1, TablesFixed
<1> QED
  BY <1>1, <1>3, TablesFixed DEF ShortInv, First

\* The packet after the last digest of a session that lost some is an error:
\* the session does not reach its end unnoticed.
LEMMA WritePacketShort == ASSUME BaseInv, ShortInv, WritePacket PROVE ShortInv'
<1>1. /\ hpc = "write" /\ CheckChunk(frame) /\ frame' = frame + 1
      /\ hpc' = IF frame + 1 < npackets THEN "tables" ELSE "done"
      /\ UNCHANGED <<state, signed_table, chained_cur, vipFailed, vip_hash_count,
                     vip_chain_hash, vip_has_chain_hash, genVars>>
  BY DEF WritePacket
<1>2. errors \subseteq errors'
  BY <1>1 DEF CheckChunk
<1>3. ASSUME Unnoticed'
      PROVE  /\ Unnoticed /\ vip_hash_idx' = frame' /\ frame' <= digest_num_written
             /\ hpc' = "tables"
  <2>1. Unnoticed /\ errors' = {}
    BY <1>1, <1>2, <1>3, StillUnnoticed
  <2>2. /\ vip_hash_idx = frame /\ vip_hash_count = Covered(chained_cur) /\ vip_hash_count > 0
        /\ digest_num_written < npackets
    BY <2>1, <1>1 DEF ShortInv, Unnoticed
  <2>3. /\ frame \in Nat /\ digest_num_written \in Nat /\ npackets \in Nat
        /\ First(chained_cur) \in Nat /\ vip_hash_count \in Nat
    <3>1. /\ frame \in Nat /\ digest_num_written \in Nat /\ npackets \in Nat
          /\ chained_cur \in Nat
      BY DEF BaseInv, TypeOK, GenTypeOK, HostTypeOK
    <3>2. vip_hash_count \in Nat
      BY CapacityNat DEF BaseInv, TypeOK, DevTypeOK
    <3> QED
      BY <3>1, <3>2, FirstStep
  <2>4. vip_hash_count <= digest_num_written
    BY <2>2, <2>3 DEF Covered, Lesser
  <2>5. vip_hash_idx' = vip_hash_idx + 1 /\ ~(vip_hash_idx >= vip_hash_count)
    <3>1. vip_hash_count # 0
      BY <2>2, <2>3
    <3> QED
      BY <3>1, <2>1, <1>1 DEF CheckChunk
  <2>6. frame + 1 <= digest_num_written /\ frame + 1 < npackets
    BY <2>2, <2>3, <2>4, <2>5
  <2> QED
    BY <2>1, <2>2, <2>5, <2>6, <1>1
<1>4. hpc' # "off"
  BY <1>1
<1> QED
  BY <1>1, <1>3, <1>4, TablesFixed DEF ShortInv, First

LEMMA TransferInitKept == ASSUME BaseInv, ShortInv, TransferInit PROVE ShortInv'
<1>1. /\ hpc = "off" /\ hpc' = "tables" /\ state' = "INIT"
      /\ signed_table' = tosign /\ chained_cur' = 0
      /\ UNCHANGED <<frame, vipFailed, devVars, genVars>>
  BY DEF TransferInit, OpenTables
<1>2. /\ ~vip_has_chain_hash /\ vip_hash_count = 0 /\ vip_hash_idx = 0 /\ frame = 0
      /\ digest_num_written \in Nat
  BY <1>1 DEF BaseInv, SyncInv, ShortInv, TypeOK, GenTypeOK
<1> QED
  BY <1>1, <1>2, TablesFixed DEF ShortInv, devVars

LEMMA NextShort == ASSUME BaseInv, ShortInv, [Next]_vars PROVE ShortInv'
<1>1. CASE GenNext /\ UNCHANGED <<hostVars, devVars>>
  <2>1. hpc = "off"
    BY <1>1 DEF BaseInv, GenInv, GenNext, StorePacket, WriteToSign, WriteChained, LinkTable,
       TableError
  <2> QED
    BY <2>1, <1>1 DEF ShortInv, hostVars, devVars
<1>2. CASE TransferInit
  BY <1>2, TransferInitKept
<1>3. CASE HostStep
  BY <1>3, NoTableDueShort, SendSignedShort, SendChainedShort, TableAcceptedShort,
     WritePacketShort DEF HostStep
<1>4. CASE Faults
  BY <1>4, GiveUpShort DEF Faults, MissingTable, TableWriteFails, StatusOrWriteFails
<1>5. CASE UNCHANGED vars
  BY <1>5, StutterShort
<1> QED
  BY <1>1, <1>2, <1>3, <1>4, <1>5 DEF Next, Finished

-----------------------------------------------------------------------------
(* The theorems.                                                           *)

LEMMA NextInv == ASSUME BaseInv, [Next]_vars PROVE BaseInv'
<1>1. CASE GenNext /\ UNCHANGED <<hostVars, devVars>>
  BY <1>1, StorePacketInv, WriteToSignInv, WriteChainedInv, LinkTableInv, TableErrorInv
  DEF GenNext
<1>2. CASE TransferInit
  BY <1>2, TransferInitInv
<1>3. CASE HostStep
  BY <1>3, NoTableDueInv, SendSignedInv, SendChainedInv, TableAcceptedInv, WritePacketInv
  DEF HostStep
<1>4. CASE Faults
  BY <1>4, MissingTableInv, TableWriteFailsInv, StatusOrWriteFailsInv DEF Faults
<1>5. CASE UNCHANGED vars
  BY <1>5, StutterInv
<1> QED
  BY <1>1, <1>2, <1>3, <1>4, <1>5 DEF Next, Finished

\* The inductive invariant holds throughout, whatever the sizes of the tables.
THEOREM Invariance == Spec => []IInv
<1>1. Init => IInv
  BY InitInv, InitShort DEF IInv
<1>2. IInv /\ [Next]_vars => IInv'
  BY NextInv, NextShort DEF IInv
<1> QED
  BY <1>1, <1>2, PTL DEF Spec

\* Generator, transfer and checker keep to their types; in particular the
\* device's table never holds more digests than its array.
THEOREM TypeCorrect == Spec => []TypeOK
<1>1. IInv => TypeOK
  BY DEF IInv, BaseInv
<1> QED
  BY <1>1, Invariance, PTL

\* A session over the tables of its own dry run meets no verification error.
THEOREM NoFalseRejectionHolds == Spec => []NoFalseRejection
<1>1. IInv => NoFalseRejection
  BY DEF IInv, BaseInv, SyncInv, NoFalseRejection
<1> QED
  BY <1>1, Invariance, PTL

\* The digest of the packet about to be written is the next unused one.
THEOREM DigestReadyHolds == Spec => []DigestReady
<1>1. IInv => DigestReady
  BY DigestThere DEF IInv, DigestReady
<1> QED
  BY <1>1, Invariance, PTL

\* A finished session has used every digest it was sent.
THEOREM DigestsConsumedHolds == Spec => []DigestsConsumed
<1>1. IInv => DigestsConsumed
  BY DEF IInv, BaseInv, SyncInv, DigestsConsumed
<1> QED
  BY <1>1, Invariance, PTL

\* Tables run out only at the capacity of the session.
THEOREM MissingOnlyBeyondCapacityHolds == Spec => []MissingOnlyBeyondCapacity
<1>1. IInv => MissingOnlyBeyondCapacity
  BY DEF IInv, BaseInv, SyncInv, MissingOnlyBeyondCapacity
<1> QED
  BY <1>1, Invariance, PTL

\* A session that lost digests in its dry run does not end as if all its
\* packets had been verified.
THEOREM TruncationIsDetected == Spec => []TruncationDetected
<1>1. IInv => TruncationDetected
  BY DEF IInv, ShortInv, Unnoticed, TruncationDetected
<1> QED
  BY <1>1, Invariance, PTL

LEMMA OnDemandStep ==
  ASSUME BaseInv, [Next]_vars, InOrder, vip_hash_count' # vip_hash_count
  PROVE  vip_hash_idx = vip_hash_count /\ vip_hash_idx' = vip_hash_idx
<1>1. /\ hpc = "tables" /\ vip_hash_idx' = vip_hash_idx
      /\ state = "INIT" \/ state = "SEND_NEXT_TABLE"
  <2>1. CASE GenNext /\ UNCHANGED <<hostVars, devVars>>
    BY <2>1 DEF devVars
  <2>2. CASE TransferInit
    BY <2>2 DEF TransferInit, OpenTables, devVars
  <2>3. CASE HostStep
    BY <2>3 DEF HostStep, NoTableDue, SendSigned, SendChained, TableAccepted, WritePacket, devVars
  <2>4. CASE Faults
    BY <2>4 DEF Faults, MissingTable, TableWriteFails, StatusOrWriteFails, devVars
  <2>5. CASE UNCHANGED vars
    BY <2>5 DEF vars, devVars
  <2> QED
    BY <2>1, <2>2, <2>3, <2>4, <2>5 DEF Next, Finished
<1>2. CASE state = "INIT"
  BY <1>1, <1>2 DEF BaseInv, SyncInv
<1>3. CASE state = "SEND_NEXT_TABLE"
  BY <1>1, <1>3, TableDue
<1> QED
  BY <1>1, <1>2, <1>3

\* A table reaches the device only when the digests of the one before it are
\* used up.
THEOREM TablesOnDemandHolds == Spec => TablesOnDemand
<1>1. IInv /\ [Next]_vars =>
        [InOrder /\ vip_hash_count' # vip_hash_count =>
           vip_hash_idx = vip_hash_count /\ vip_hash_idx' = vip_hash_idx]_vars
  BY OnDemandStep DEF IInv
<1> QED
  BY <1>1, Invariance, PTL DEF Spec, TablesOnDemand
=============================================================================
