--------------------------------- MODULE Gpt ---------------------------------
(***************************************************************************)
(* A flashing run: the command line becomes a list of operations (module   *)
(* OpList), and firehose_execute_ops() executes it.  It probes the sector  *)
(* size, loads the partition tables of the selected storage                *)
(* (src/src/gpt.c), resolves every operation that names a partition, and   *)
(* then executes the list, which may select several storages and rewrite   *)
(* partition tables.                                                       *)
(*                                                                         *)
(* One read of the device is one step (its exchange is in module Firehose);*)
(* it fails where the code would see a failure: a sector size that does    *)
(* not fit, a physical partition that is not there, or a transient error.  *)
(***************************************************************************)
EXTENDS OpList

CONSTANTS
  Disks,        \* what the storages may hold: storage -> <<table of LUN 0, ...>>
  SectorSize,   \* storage -> its sector size
  Nand,         \* storages whose sector size is not probed
  Sizes,        \* sector sizes tried, in order
  PerSector,    \* GPT entries per sector
  MaxBad        \* bound: reads and commands that fail for no good reason

ASSUME GptAssumption ==
  /\ PerSector \in Nat \ {0} /\ MaxBad \in Nat
  /\ Sizes \in Seq(Nat \ {0})
  /\ \A s \in Storages : SectorSize[s] \in Nat \ {0}
  /\ \A d \in Disks : d \in [Storages -> Range(d)]
  /\ \A d \in Disks, s \in Storages :
       d[s] \in Seq(Range(d[s])) /\ \A t \in Range(d[s]) : t.parts \in Seq(Range(t.parts))

VARIABLES
  disk,         \* the tables on the device, for each storage
  storage,      \* the storage selected by the last configure
  sector_size,  \* qdl->sector_size, 0 while unknown
  gpt_partitions, \* the partitions loaded: [name, lun, entry, start, fits]
  def,          \* operation being resolved
  lun, entry,   \* table being loaded
  accesses,     \* history: what operations did, [op, storage, lun, start, size]
  bad

\* hpc is "op", "probe", "resolve", "header" or "entries" here, "end" at the end.
runVars == <<disk, storage, sector_size, gpt_partitions, def, lun, entry, accesses, bad>>
vars    == <<buildVars, ops, idx, hpc, ret, runVars>>

Deferred(o) == o.name # ""

-----------------------------------------------------------------------------
(* Reads.                                                                  *)

LunThere(l) == l < Len(disk[storage])

\* A read of LUN l with sectors of the given size succeeds.
ReadWorks(l, size) == size = SectorSize[storage] /\ LunThere(l) /\ UNCHANGED bad

\* It fails.
ReadFails(l, size) ==
  \/ ~(size = SectorSize[storage] /\ LunThere(l)) /\ UNCHANGED bad
  \/ bad < MaxBad /\ bad' = bad + 1

\* The table of LUN l: LUNs count from 0.
Table(l) == disk[storage][l + 1]

-----------------------------------------------------------------------------
(* firehose_detect_and_configure()                                         *)

rest == <<ops, disk, idx, accesses>>

\* The sector size is probed once, and not on NAND.
MustProbe(s) == s \notin Nand /\ sector_size = 0

Configure ==
  /\ hpc = "op" /\ idx <= Len(ops) /\ ops[idx].k = "configure"
  /\ \/ /\ ops[idx].storage \in Storages
        /\ storage' = ops[idx].storage
        /\ hpc' = IF MustProbe(storage') THEN "probe" ELSE "resolve"
        /\ UNCHANGED <<ret, bad>>
     \/ ops[idx].storage \notin Storages /\ Return(-1) /\ UNCHANGED <<storage, bad>>
     \/ bad < MaxBad /\ bad' = bad + 1 /\ Return(-1) /\ UNCHANGED storage
  /\ entry' = 1 /\ def' = 1
  /\ UNCHANGED <<rest, sector_size, gpt_partitions, lun>>

\* The sector size after an attempt.
Probed(worked) == IF worked THEN Sizes[entry] ELSE sector_size

\* firehose_try_configure(): sizes are tried until a read of sector 1 works.
Probe ==
  /\ hpc = "probe"
  /\ \E worked \in BOOLEAN :
       /\ IF worked THEN ReadWorks(0, Sizes[entry]) ELSE ReadFails(0, Sizes[entry])
       /\ sector_size' = Probed(worked)
       /\ hpc' = IF worked \/ entry = Len(Sizes) THEN "resolve" ELSE "probe"
       /\ entry' = entry + 1
  /\ UNCHANGED <<rest, storage, gpt_partitions, def, lun, ret>>

-----------------------------------------------------------------------------
(* gpt_resolve_deferrals(), over all operations of the list at every       *)
(* configure.                                                              *)

\* gpt_load_tables() leaves what it has loaded alone.
TablesLoaded == gpt_partitions # {}

ResolveNone ==
  /\ hpc = "resolve"
  /\ IF def > Len(ops)
       THEN hpc' = "op" /\ idx' = idx + 1 /\ UNCHANGED def
       ELSE ~Deferred(ops[def]) /\ def' = def + 1 /\ UNCHANGED <<hpc, idx>>
  /\ UNCHANGED <<ops, disk, storage, sector_size, gpt_partitions, lun, entry, ret, accesses, bad>>

\* Those a name and, if given, a physical partition may stand for.
NamedAs(o) == {p \in gpt_partitions : p.name = o.name /\ o.lun \in {-1, p.lun}}

\* Those compared: the first match fixes the physical partition, and the tables are
\* searched in their order.
Candidates(o) == {p \in NamedAs(o) : \A q \in NamedAs(o) : p.lun <= q.lun}

\* gpt_find_by_name(): exactly one, of a size that can be expressed.
Usable(o, p) == Candidates(o) = {p} /\ p.fits

MovedTo(o, p) == [o EXCEPT !.lun = p.lun, !.start = p.start]

\* Variant: a name that is not found is left to a later configure.
LookupLater ==
  /\ \/ \E p \in gpt_partitions :
          Usable(ops[def], p) /\ ops' = [ops EXCEPT ![def] = MovedTo(@, p)]
     \/ (\A p \in gpt_partitions : ~Usable(ops[def], p)) /\ UNCHANGED ops
  /\ def' = def + 1
  /\ hpc' = "resolve" /\ UNCHANGED ret

\* gpt_find_by_name() once the tables are there.
Lookup ==
  \/ /\ \E p \in gpt_partitions :
          Usable(ops[def], p) /\ ops' = [ops EXCEPT ![def] = MovedTo(@, p)]
     /\ def' = def + 1
     /\ hpc' = "resolve" /\ UNCHANGED ret
  \/ /\ \A p \in gpt_partitions : ~Usable(ops[def], p)
     /\ Return(-1) /\ UNCHANGED <<ops, def>>

Resolve ==
  /\ hpc = "resolve" /\ def <= Len(ops) /\ Deferred(ops[def])
  /\ IF TablesLoaded
       THEN Lookup /\ UNCHANGED lun
       ELSE hpc' = "header" /\ lun' = 0 /\ UNCHANGED <<ops, def, ret>>
  /\ UNCHANGED <<disk, storage, sector_size, gpt_partitions, idx, entry, accesses, bad>>

\* A header that cannot be read, for whatever reason, is taken to be beyond the last
\* physical partition: the tables are complete.
NoHeader == Lookup /\ UNCHANGED lun

PassOver == lun + 1

\* gpt_load_table_from_partition(): the header, ...
LoadHeader ==
  /\ hpc = "header"
  /\ \/ ReadFails(lun, sector_size) /\ NoHeader /\ UNCHANGED entry
     \/ /\ ReadWorks(lun, sector_size)
        /\ \/ Table(lun).header = "none"                    \* no signature: not an error
              /\ lun' = PassOver /\ UNCHANGED <<hpc, ret, entry>>
           \/ Table(lun).header = "invalid" /\ Return(-1) /\ UNCHANGED <<lun, entry>>
           \/ Table(lun).header = "gpt"
              /\ hpc' = "entries" /\ entry' = 0 /\ UNCHANGED <<lun, ret>>
        /\ UNCHANGED <<ops, def>>
  /\ UNCHANGED <<disk, storage, sector_size, gpt_partitions, idx, accesses>>

\* Variant: the address of the entry before.
PartitionShifted(i) ==
  LET p == Table(lun).parts[i]
  IN [name |-> p.name, lun |-> lun, entry |-> i,
      start |-> IF i > 1 THEN Table(lun).parts[i - 1].start ELSE p.start, fits |-> p.fits]

Partition(i) ==
  LET p == Table(lun).parts[i]
  IN [name |-> p.name, lun |-> lun, entry |-> i, start |-> p.start, fits |-> p.fits]

\* The entries of a sector that are used; the others have no name.
InSector ==
  {i \in DOMAIN Table(lun).parts : i \in entry + 1 .. entry + PerSector /\ Table(lun).parts[i].name # ""}

\* Variant: the last sector of entries is left out.
NextEntriesShort == entry + PerSector

NextEntries == entry

\* ... and its entries, a sector at a time.
LoadEntries ==
  /\ hpc = "entries"
  /\ IF NextEntries >= Len(Table(lun).parts)
       THEN /\ hpc' = "header" /\ lun' = lun + 1
            /\ UNCHANGED <<gpt_partitions, entry, ret, bad>>
       ELSE \/ ReadFails(lun, sector_size) /\ Return(-1) /\ UNCHANGED <<gpt_partitions, entry, lun>>
            \/ /\ ReadWorks(lun, sector_size)
               /\ gpt_partitions' = gpt_partitions \cup {Partition(i) : i \in InSector}
               /\ entry' = entry + PerSector
               /\ UNCHANGED <<hpc, ret, lun>>
  /\ UNCHANGED <<rest, storage, sector_size, def>>

-----------------------------------------------------------------------------
(* firehose_execute_ops(), for operations other than configure.            *)

\* The sector size of an operation: its own or the probed one.
SizeOf(o) == IF o.size # 0 THEN o.size ELSE sector_size

\* What is written over a partition table replaces it.
Effect(o) ==
  IF o.k = "write" /\ o.table # NoTable
    THEN disk' = [disk EXCEPT ![storage][o.lun + 1] = o.table]
    ELSE UNCHANGED disk

\* Nothing is sent for a program without a file and for a patch of a file.
Idle(o) == (o.k = "write" /\ o.file = NoFile) \/ (o.k = "patch" /\ o.file # "DISK")

Touches(o) == o.k \in {"write", "read", "erase", "sha256", "patch"} /\ ~Idle(o)

\* An unknown sector size fails at once, but for an erase and a digest, which tell the
\* device it is 0.  The device refuses a size that is not its own.
Execute ==
  /\ hpc = "op" /\ idx <= Len(ops) /\ Touches(ops[idx])
  /\ LET o == ops[idx]
         a == [op |-> idx, storage |-> storage, lun |-> o.lun, start |-> o.start,
               size |-> SizeOf(o)]
         sent == SizeOf(o) # 0 \/ o.k \in {"erase", "sha256"}
     IN \/ /\ sent /\ ReadWorks(o.lun, SizeOf(o))
           /\ Effect(o)
           /\ idx' = idx + 1
           /\ accesses' = Append(accesses, a)
           /\ UNCHANGED <<hpc, ret>>
        \/ /\ ReadFails(o.lun, SizeOf(o))
           /\ Return(-1)
           /\ accesses' = IF sent THEN Append(accesses, a) ELSE accesses
           /\ UNCHANGED <<disk, idx>>
  /\ UNCHANGED <<ops, storage, sector_size, gpt_partitions, def, lun, entry>>

\* The bootable drive is set or not, nobody looks.
PassBy ==
  /\ hpc = "op" /\ idx <= Len(ops)
  /\ ops[idx].k = "setbootable" \/ Idle(ops[idx])
  /\ idx' = idx + 1
  /\ UNCHANGED <<ops, hpc, ret, runVars>>

\* firehose_reset(): its acknowledgement may be lost with the device.
Reset ==
  /\ hpc = "op" /\ idx <= Len(ops) /\ ops[idx].k = "reset"
  /\ \/ idx' = idx + 1 /\ UNCHANGED <<hpc, ret, bad>>
     \/ bad < MaxBad /\ bad' = bad + 1 /\ Return(-1) /\ UNCHANGED idx
  /\ UNCHANGED <<ops, disk, storage, sector_size, gpt_partitions, def, lun, entry, accesses>>

Finish ==
  /\ hpc = "op" /\ idx > Len(ops)
  /\ Return(0)
  /\ UNCHANGED <<ops, idx, runVars>>

Done == hpc = "end" /\ UNCHANGED vars

Init ==
  /\ BuildInit
  /\ disk \in Disks
  /\ storage = "none" /\ sector_size = 0 /\ gpt_partitions = {}
  /\ def = 1 /\ lun = 0 /\ entry = 0 /\ accesses = <<>> /\ bad = 0

Run == \/ Configure \/ Probe \/ ResolveNone \/ Resolve \/ LoadHeader \/ LoadEntries
       \/ Execute \/ PassBy \/ Reset \/ Finish

Next == \/ Build /\ UNCHANGED runVars
        \/ Run /\ UNCHANGED buildVars
        \/ Done

Spec == Init /\ [][Next]_vars

-----------------------------------------------------------------------------
(* Properties.                                                             *)

\* The partitions of storage s, as <<table, entry>>, that an operation as it was given
\* may mean.
Meant(s, name, l) ==
  UNION {{<<i, j>> : j \in {k \in DOMAIN disk[s][i].parts : disk[s][i].parts[k].name = name}} :
           i \in {k \in DOMAIN disk[s] : disk[s][k].header = "gpt" /\ l \in {-1, k - 1}}}

PlaceOf(s, p) == [lun |-> p[1] - 1, start |-> disk[s][p[1]].parts[p[2]].start]

\* A step that executes an operation on a named partition.
NamedAccess == accesses' # accesses /\ Deferred(ops[idx])

\* The tables are those that names were resolved in: no other storage was selected and
\* no operation that could have written a table was executed before this one.
SameTables ==
  \A i \in 1 .. idx - 1 :
    /\ ops[i].k = "configure" => ops[i].storage = storage
    /\ ops[i].k = "write" => ops[i].table = NoTable

\* A loaded partition that an operation as it was given may mean, and the place of one.
Matches(o, p) == p.name = o.name /\ o.given \in {-1, p.lun}
Placed(o) ==
  \E p \in gpt_partitions : Matches(o, p) /\ o.lun = p.lun /\ o.start = p.start

\* No operation reaches the device before every name in the list has been resolved to
\* the place of a partition of that name: a list that has a wrong name
\* changes nothing.
ResolvedFirst ==
  accesses # <<>> => \A i \in DOMAIN ops : Deferred(ops[i]) => Placed(ops[i])

\* An operation is where the tables of the storage have a partition of its name, on the
\* physical partition the user gave, if any; and that is the only one on the first physical
\* partition that has one, if every sector that can be read was.
InPlace(o) ==
  LET meant == Meant(storage, o.name, o.given)
  IN \E p \in meant :
       /\ PlaceOf(storage, p) = [lun |-> o.lun, start |-> o.start]
       /\ bad = 0 => \A q \in meant : q = p \/ q[1] > p[1]

\* An operation on a named partition is executed in its place.
NamedPlace == [][NamedAccess /\ SameTables => InPlace(ops[idx])]_vars

\* Probing finds the sector size of a storage: it is one that is tried, by reads of LUN 0.
SizeFound(s) == s \notin Nand /\ disk[s] # <<>> /\ SectorSize[s] \in Range(Sizes)

\* Every name in a list is good for its first storage, where it is used; every address is
\* on the storage it is for, with a sector size of its own unless the first one was found.
ListGood ==
  LET first == StorageAt(1)
  IN /\ idx > 0 /\ ops[1].k = "configure"
     /\ \A i \in DOMAIN ops : LET o == ops[i] s == StorageAt(i) IN
          /\ s \in Storages
          /\ Deferred(o) =>
               /\ s = first /\ SizeFound(first)
               /\ \A l \in DOMAIN disk[s] : disk[s][l].header # "invalid"
               /\ \E p \in Meant(s, o.name, o.given) :
                    /\ Meant(s, o.name, o.given) = {p}
                    /\ disk[s][p[1]].parts[p[2]].fits
          /\ ~Deferred(o) /\ Touches(o) =>
               /\ o.lun < Len(disk[s])
               /\ \/ o.size = SectorSize[s]
                  \/ o.size = 0 /\ SizeFound(first) /\ SectorSize[s] = SectorSize[first]

\* Such a list is executed, whatever the tables look like and wherever in them the
\* partitions are.
GoodListsRun == hpc = "end" /\ bad = 0 /\ ~ufs /\ ListGood => ret = 0

=============================================================================
