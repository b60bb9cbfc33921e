------------------------------- MODULE OpList -------------------------------
(***************************************************************************)
(* How a flashing command line becomes the list of operations that         *)
(* firehose_run() executes: qdl_flash() in src/src/qdl.c.  Module Gpt      *)
(* executes it.                                                            *)
(*                                                                         *)
(* An argument is [t, ...]: a file of type t with its tags, a build, or a  *)
(* verb with its address.                                                  *)
(***************************************************************************)
EXTENDS Builds

CONSTANT CommandLines  \* [args, opts]; see MCGpt

IsSeq(s) == s \in Seq(Range(s))

\* The tags of a file, as they are read, and what an argument holds.
TagList(tags) ==
  IsSeq(tags) /\ \A i \in DOMAIN tags : "chunks" \in DOMAIN tags[i] /\ IsSeq(tags[i].chunks)
ContentsList(b) == IsSeq(b.entries) /\ \A i \in DOMAIN b.entries : TagList(b.entries[i].tags)
LayoutList(l) ==
  /\ IsSeq(l.parts)
  /\ \A i \in DOMAIN l.parts :
       LET files == l.parts[i].files
       IN IsSeq(files) /\ \A j \in DOMAIN files : TagList(files[j].tags)

WellFormed(a) ==
  /\ a.t \in {"program", "patch", "read"} => TagList(a.tags)
  /\ a.t = "flash" /\ a.kind = "contents" => ContentsList(a.build) /\ IsSeq(a.pattern)
  /\ a.t = "flash" /\ a.kind # "contents" =>
       IsSeq(a.build.layouts) /\ \A i \in DOMAIN a.build.layouts : LayoutList(a.build.layouts[i])

\* The files and arguments of a command line are lists.
ASSUME CommandLineAssumption ==
  \A c \in CommandLines : IsSeq(c.args) /\ \A i \in DOMAIN c.args : WellFormed(c.args[i])

VARIABLES
  args, opts,    \* the command line
  argi,          \* argument being looked at
  saw,           \* "file" and "verb"
  ufs,           \* a provisioning file was loaded
  ops,           \* the operations; resolving fills in lun and start
  idx,           \* operation being executed, 0 before the list is complete
  hpc,           \* "args", "provision" and those of module Gpt
  ret

buildVars == <<args, opts, argi, saw, ufs>>

Return(r) == hpc' = "end" /\ ret' = r

-----------------------------------------------------------------------------
(* Arguments.                                                              *)

\* program_find_partition() takes the first of these.
FindPartition(s, label) == SelectSeq(s, LAMBDA o : o.k = "write" /\ o.label = label)

\* program_is_sec_partition_flashed()
SecFlashed(s) ==
  LET sec == FindPartition(s, "secdata") IN sec # <<>> /\ Head(sec).file # NoFile

\* read_cmd_add() and sha256_cmd_add() want a length or a name.
Unbounded(a) == a.t \in {"read-verb", "sha256-verb"} /\ a.len = 0 /\ a.name = ""

\* program_cmd_add() and the others: a program's label is its file name.
LoadVerb(a) ==
  IF ~a.good \/ Unbounded(a) THEN Failed
  ELSE Loaded(<<[NewOp(a.k) EXCEPT !.name = a.name, !.given = a.lun, !.lun = a.lun,
                                   !.start = a.start, !.len = a.len, !.table = a.table,
                                   !.file = a.file, !.label = IF a.k = "write" THEN a.file ELSE ""]>>)

Verbs == {"read-verb", "write-verb", "erase-verb", "sha256-verb", "flash", "reset"}

Kind(a) == IF a.t \in Verbs THEN "verb" ELSE "file"

\* What an argument adds to the list.
Load(a) ==
  CASE a.t \in {"patch", "read"} -> LoadFile(a.t, a.tags, opts.allow_missing)
    [] a.t = "program" ->
         LET r == LoadFile(a.t, a.tags, opts.allow_missing)
         IN IF ~opts.allow_fusing /\ SecFlashed(ops \o r.ops) THEN Failed ELSE r
    [] a.t = "ufs" -> IF opts.storage = "ufs" /\ a.good THEN Loaded(<<>>) ELSE Failed
    [] a.t = "flash" -> LoadBuild(a)
    [] a.t = "reset" -> Loaded(<<NewOp("reset")>>)
    [] a.t \in Verbs \ {"flash", "reset"} -> LoadVerb(a)
    [] OTHER -> Failed

\* qdl_build_op_list(): files and verbs do not mix, and what is behind a reset is left
\* alone.  A programmer precedes any first argument but flash.
Argument ==
  /\ hpc = "args" /\ argi <= Len(args)
  /\ LET a == args[argi]
         r == IF argi = 1 /\ a.t # "flash" /\ ~opts.programmer THEN Failed ELSE Load(a)
     IN /\ saw' = saw \cup {Kind(a)}
        /\ IF saw' = {"file", "verb"} \/ ~r.ok
             THEN Return(-1) /\ UNCHANGED <<ops, argi, opts, ufs>>
             ELSE /\ ops' = ops \o r.ops
                  /\ argi' = IF a.t = "reset" THEN Len(args) + 1 ELSE argi + 1
                  /\ opts' = [opts EXCEPT !.skip_reset = @ \/ a.t = "reset"]
                  /\ ufs' = (ufs \/ a.t = "ufs")
                  /\ UNCHANGED <<hpc, ret>>
  /\ UNCHANGED <<args, idx>>

-----------------------------------------------------------------------------
(* The rest of the list.                                                   *)

\* qdl_ensure_configured()
EnsureConfigured(s) ==
  IF s = <<>> \/ Head(s).k = "configure" THEN s
  ELSE <<[NewOp("configure") EXCEPT !.storage = opts.storage]>> \o s

\* program_find_bootable_partition(): "xbl" before "xbl_a" before "sbl1".
Bootable(s) ==
  FindPartition(s, "xbl") \o FindPartition(s, "xbl_a") \o FindPartition(s, "sbl1")

\* A name without a physical partition has lun -1 until it is resolved, and the first
\* boot loader decides, even if a later one has a physical partition.
NoBootable(s) == Bootable(s) = <<>> \/ Head(Bootable(s)).lun < 0

\* Variant: a boot loader whose physical partition is not known is taken as well.
WithBootableUnplaced(s) ==
  IF Bootable(s) = <<>> THEN s
  ELSE Append(s, [NewOp("setbootable") EXCEPT !.lun = Head(Bootable(s)).lun])

\* qdl_determine_bootable()
WithBootable(s) ==
  IF NoBootable(s) THEN s
  ELSE Append(s, [NewOp("setbootable") EXCEPT !.lun = Head(Bootable(s)).lun])

\* Provisioning takes the place of all operations.
Complete ==
  /\ hpc = "args" /\ argi > Len(args)
  /\ LET s == WithBootable(EnsureConfigured(ops))
     IN ops' = IF opts.skip_reset THEN s ELSE Append(s, NewOp("reset"))
  /\ hpc' = IF ufs THEN "provision" ELSE "op"
  /\ idx' = 1
  /\ UNCHANGED <<buildVars, ret>>

\* firehose_provision(); see module Ufs.
Provision ==
  /\ hpc = "provision"
  /\ \E r \in {0, -1} : Return(r)
  /\ UNCHANGED <<buildVars, ops, idx>>

BuildInit ==
  /\ \E c \in CommandLines : args = c.args /\ opts = c.opts
  /\ argi = 1 /\ saw = {} /\ ufs = FALSE
  /\ ops = <<>> /\ idx = 0 /\ hpc = "args" /\ ret = 1

Build == Argument \/ Complete \/ Provision

-----------------------------------------------------------------------------
(* Properties.                                                             *)

Tags == FlattenSeq([i \in DOMAIN args |-> IF args[i].t = "program" THEN args[i].tags ELSE <<>>])

KindsOf(s) == [i \in DOMAIN s |-> s[i].k]

\* The storage that an operation of the list is for.
StorageAt(i) ==
  LET confs == {j \in 1 .. i : ops[j].k = "configure"}
  IN ops[CHOOSE j \in confs : \A k \in confs : k <= j].storage

\* The flavors that a selection may mean for a storage.
Asked(b, pattern, s) ==
  {f \in {b.entries[i].flavor : i \in DOMAIN b.entries} :
     pattern = <<>> \/ \E i \in DOMAIN pattern : pattern[i] \in {<<s>>, <<f>>, <<s, f>>}}

\* The places where the operations for a storage write and where the tags of an entry say.
Places(s)    == {<<ops[i].lun, ops[i].start>> :
                   i \in {j \in DOMAIN ops : ops[j].k = "write" /\ StorageAt(j) = s}}
PlacesOf(e)  == {<<e.tags[i].lun, e.tags[i].start>> : i \in {j \in DOMAIN e.tags : e.tags[j].k = "write"}}

\* The images that a contents.xml has for a storage and a flavor, wherever they are.
ImagesFor(b, s, f) ==
  {Path(b.entries[i].dir, n) :
     i \in {j \in DOMAIN b.entries : b.entries[j].storage \in {"none", s} /\ b.entries[j].flavor \in {"", f}},
     n \in b.names}

\* A storage gets all program files of one flavor that was asked for, and no image of
\* another one.
OneFlavor(b, pattern, s) ==
  \E f \in Asked(b, pattern, s) :
    /\ \A i \in DOMAIN ops :
         ops[i].k = "write" /\ ops[i].file # NoFile /\ StorageAt(i) = s =>
           ops[i].file \in b.names \cup ImagesFor(b, s, f)
    /\ \A i \in DOMAIN b.entries :
         LET e == b.entries[i]
         IN e.type = "program" /\ e.storage \in {"none", s} /\ e.flavor \in {"", f} =>
              PlacesOf(e) \subseteq Places(s)

\* A build puts on each storage what was selected, of one flavor if its files have any,
\* and touches no other storage that it knows.
BuildAsSelected(a) ==
  LET confs    == SelectSeq(ops, LAMBDA o : o.k = "configure")
      storages == {confs[i].storage : i \in DOMAIN confs}
  IN IF a.kind = "contents"
       THEN /\ Cardinality(storages) = Len(confs)
            /\ Len(confs) = (IF a.pattern = <<>> THEN 1 ELSE Len(a.pattern))
            /\ \A s \in storages : Flavored(a.build, s) => OneFlavor(a.build, a.pattern, s)
       ELSE a.pattern.storages # {} => storages \subseteq a.pattern.storages \cup {"none"}

\* The complete list is one of operations, those behind the first configure; a name in it
\* has the physical partition that was given, and no sector size of its own.
ListReady ==
  hpc = "op" /\ idx = 1 =>
    /\ IsSeq(ops)
    /\ \A i \in DOMAIN ops :
         /\ DOMAIN ops[i] = DOMAIN NewOp("none")
         /\ ops[i].k \notin {"configure", "setbootable", "reset"} => ops[1].k = "configure"
         /\ ops[i].name # "" => ops[i].lun = ops[i].given /\ ops[i].size = 0

\* The list that goes to the device writes what program files say where they say it,
\* sparse or not (unless a sparse image is placed from the end of the disk); it holds
\* the verbs in their order, up to a reset; it starts by selecting a storage, sets
\* the bootable drive once if the first boot loader's physical partition is given, and
\* resets once.  Of a build it holds what was selected.
ListAsAsked == ListReady /\
  (hpc = "op" /\ idx = 1 =>
    LET Of(k) == SelectSeq(ops, LAMBDA o : o.k = k)
        verbs == SelectSeq(args, LAMBDA a : a.t \in Verbs \ {"flash", "reset"})
        named == SelectSeq(ops, LAMBDA o : o.k \notin {"configure", "setbootable", "reset"})
        types == {args[i].t : i \in DOMAIN args}
    IN /\ saw = {"file"} /\ (\A i \in DOMAIN Tags : Tags[i].sparse => Tags[i].start >= 0) =>
            Sectors(Writes(ops)) = UNION {TagSectors(Tags[i]) : i \in DOMAIN Tags}
       /\ saw = {"verb"} /\ "flash" \notin types =>
            /\ IsPrefix(KindsOf(named), KindsOf(verbs))
            /\ "reset" \notin types => Len(named) = Len(verbs)
       /\ Len(args) = 1 /\ args[1].t = "flash" => BuildAsSelected(args[1])
       /\ Len(Of("setbootable")) = (IF NoBootable(ops) THEN 0 ELSE 1)
       /\ Len(Of("reset")) <= 1 /\ (Of("reset") = <<>> => opts.skip_reset))

\* The comment at src/src/qdl.c:880: reset is the last operation in any flashing run.
ResetLast ==
  hpc = "op" /\ idx = 1 => \A i \in DOMAIN ops : ops[i].k = "reset" => i = Len(ops)
=============================================================================
