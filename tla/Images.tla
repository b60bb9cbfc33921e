------------------------------- MODULE Images -------------------------------
(***************************************************************************)
(* The operations that files of program, erase, patch and read tags stand  *)
(* for: program.c, patch.c and read.c in src/src.  XML, addresses and      *)
(* images are taken as parsed; good says whether a tag can be, there and   *)
(* header describe the file that it names.                                 *)
(***************************************************************************)
EXTENDS Integers, Sequences, FiniteSets, SequencesExt

CONSTANTS
  NoFile,        \* no file name
  NoTable        \* the data of an operation that does not hold a partition table

\* An operation.  chunk is the chunk of a sparse image that is written, 0 for all of
\* the file.  A negative start counts from the end of the disk (NUM_DISK_SECTORS - n).
NewOp(k) ==
  [k |-> k, storage |-> "none", name |-> "", given |-> 0, lun |-> 0, start |-> 0,
   len |-> 0, size |-> 0, label |-> "", file |-> NoFile, chunk |-> 0, table |-> NoTable]

Loaded(s) == [ok |-> TRUE, ops |-> s]
Failed    == [ok |-> FALSE, ops |-> <<>>]

Join(r, more) == IF r.ok /\ more.ok THEN Loaded(r.ops \o more.ops) ELSE Failed
JoinAll(rs)   == FoldLeft(Join, Loaded(<<>>), rs)

-----------------------------------------------------------------------------
(* Tags.                                                                   *)

\* The attributes that a tag shares with its operation.
FromTag(t) ==
  [NewOp(t.k) EXCEPT !.given = t.lun, !.lun = t.lun, !.start = t.start, !.len = t.len,
                     !.size = t.size, !.label = t.label, !.file = t.file, !.table = t.table]

\* Variant: chunks that are not written take no room.
AdvanceWritten(start, c) == IF c.kind = "skip" THEN start ELSE start + c.len

\* The sector behind a chunk; what is counted from the end of the disk reads as 0.
Advance(start, c) ==
  IF c.len = 0 THEN start ELSE (IF start < 0 THEN 0 ELSE start) + c.len

\* program_load_sparse(): the sector of chunk i, ...
ChunkStart(t, i) == FoldLeft(Advance, t.start, SubSeq(t.chunks, 1, i - 1))

\* ... and an operation for each chunk that holds data.
LoadChunk(t, i) ==
  LET c == t.chunks[i]
  IN IF c.kind = "bad" THEN Failed
     ELSE IF c.kind = "skip" \/ c.len = 0 THEN Loaded(<<>>)
     ELSE Loaded(<<[FromTag(t) EXCEPT !.start = ChunkStart(t, i), !.len = c.len, !.chunk = i]>>)

LoadSparse(t) == JoinAll([i \in DOMAIN t.chunks |-> LoadChunk(t, i)])

\* load_program_tag(): the file may be missing, and be sparse or only said to be.
LoadProgram(t, allow_missing) ==
  LET sparse == LoadSparse(t)
  IN CASE ~t.good -> Failed
       [] t.good /\ t.file # NoFile /\ ~t.there ->
            IF allow_missing THEN Loaded(<<[FromTag(t) EXCEPT !.file = NoFile]>>) ELSE Failed
       [] t.good /\ t.file # NoFile /\ t.there /\ t.sparse /\ ~t.header ->
            IF t.fits THEN Loaded(<<FromTag(t)>>) ELSE Failed
       [] t.good /\ t.file # NoFile /\ t.there /\ t.sparse /\ t.header ->
            IF t.size = 0 \/ ~sparse.ok THEN Failed
            ELSE Loaded(Append(sparse.ops,
                               [FromTag(t) EXCEPT !.start = ChunkStart(t, Len(t.chunks) + 1),
                                                  !.file = NoFile]))
       [] OTHER -> Loaded(<<FromTag(t)>>)

\* load_erase_tag()
LoadErase(t) == IF t.good /\ t.len > 0 THEN Loaded(<<FromTag(t)>>) ELSE Failed

\* patch_load_xml() and read_op_load() pass over the tags of others.
LoadPatch(t) ==
  IF t.k # "patch" THEN Loaded(<<>>) ELSE IF t.good THEN Loaded(<<FromTag(t)>>) ELSE Failed

LoadRead(t) ==
  IF t.k # "read" THEN Loaded(<<>>) ELSE IF t.good THEN Loaded(<<FromTag(t)>>) ELSE Failed

\* Program files hold nothing else.
LoadTag(type, t, allow_missing) ==
  CASE type = "program" /\ t.k = "write" -> LoadProgram(t, allow_missing)
    [] type = "program" /\ t.k = "erase" -> LoadErase(t)
    [] type = "patch" -> LoadPatch(t)
    [] type = "read" -> LoadRead(t)
    [] OTHER -> Failed

LoadFile(type, tags, allow_missing) ==
  JoinAll([i \in DOMAIN tags |-> LoadTag(type, tags[i], allow_missing)])

-----------------------------------------------------------------------------
(* For the properties of the lists that are made of them.                  *)

Writes(s) == SelectSeq(s, LAMBDA o : o.k = "write" /\ o.file # NoFile)

\* The sectors that a list of operations writes: where, and from which place in a file.
Sectors(s) ==
  UNION {{<<s[i].lun, s[i].start + n, s[i].file, s[i].chunk, n>> : n \in 0 .. s[i].len - 1} :
           i \in DOMAIN s}

\* Those that a tag describes: a sparse image has its chunks one behind the other.
TagSectors(t) ==
  LET Behind(i) == FoldLeft(LAMBDA n, c : n + c.len, t.start, SubSeq(t.chunks, 1, i - 1))
      Chunks    == {i \in DOMAIN t.chunks : t.chunks[i].kind \in {"raw", "fill"}}
  IN IF t.k # "write" \/ t.file = NoFile \/ ~t.there THEN {}
     ELSE IF t.sparse /\ t.header
       THEN UNION {{<<t.lun, Behind(i) + n, t.file, i, n>> : n \in 0 .. t.chunks[i].len - 1} :
                     i \in Chunks}
       ELSE {<<t.lun, t.start + n, t.file, 0, n>> : n \in 0 .. t.len - 1}
=============================================================================
