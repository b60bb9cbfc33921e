------------------------------- MODULE Builds -------------------------------
(***************************************************************************)
(* What "flash" makes of a build and a selection: contents.c and           *)
(* flashmap.c in src/src.                                                  *)
(*                                                                         *)
(* A contents.xml has entries [type, storage, flavor, dir, name, ...];     *)
(* storage "none" and flavor "" stand for all.  It is selected from with   *)
(* a sequence of tokens, <<storage or flavor>> or <<storage, flavor>>.     *)
(* A flashmap has layouts of parts [memory, files], and is selected from   *)
(* with a layout and a set of storages.                                    *)
(***************************************************************************)
EXTENDS Images

CONSTANT Storages  \* the names of storage types

Configured(s) == Loaded(<<[NewOp("configure") EXCEPT !.storage = s]>>)

-----------------------------------------------------------------------------
(* contents.xml                                                            *)

IsData(e)      == e.type \in {"program", "patch"}
Flavored(b, s) == \E i \in DOMAIN b.entries :
                    LET e == b.entries[i] IN IsData(e) /\ e.storage = s /\ e.flavor # ""

\* contents_collect_valid_selectors(): no flavor only where there are none.
ValidSelectors(b) ==
  {[storage |-> b.entries[i].storage, flavor |-> b.entries[i].flavor] :
     i \in {j \in DOMAIN b.entries :
              LET e == b.entries[j]
              IN IsData(e) /\ e.storage # "none" /\ (e.flavor # "" \/ ~Flavored(b, e.storage))}}

\* Those that a token may stand for: contents_select_by_storage(),
\* contents_select_by_flavor(), contents_flavor_is_valid().
Candidate(b, token) ==
  {v \in ValidSelectors(b) :
     IF Len(token) = 2 THEN token = <<v.storage, v.flavor>> /\ v.flavor \in b.flavors
     ELSE IF token[1] \in Storages THEN v.storage = token[1]
     ELSE v.flavor = token[1]}

\* contents_decode_selectors(): every token stands for one, each of another storage.  The
\* result is empty if they do not; without tokens there must be one to choose from.
Selectors(b, pattern) ==
  LET each == IF pattern = <<>> THEN <<ValidSelectors(b)>>
              ELSE [i \in DOMAIN pattern |-> Candidate(b, pattern[i])]
      one  == [i \in DOMAIN each |-> CHOOSE v \in each[i] : TRUE]
  IN IF /\ \A i \in DOMAIN each : Cardinality(each[i]) = 1
        /\ \A i, j \in DOMAIN each : one[i].storage = one[j].storage => i = j
       THEN one ELSE <<>>

OfStorage(e, sel) == e.storage \in {"none", sel.storage}

\* A file that contents_load() loads.
Included(e, sel) == OfStorage(e, sel) /\ e.flavor \in {"", sel.flavor}

\* Variant: files of all flavors.
SearchedAll(e, sel) == OfStorage(e, sel)

\* An entry among which contents_resolve_path() looks for an image.
Searched(e, sel) == OfStorage(e, sel) /\ (sel.flavor = "" \/ e.flavor \in {"", sel.flavor})

Path(dir, name) == dir \o "/" \o name

\* program_resolve_path(): by name, or else beside another file, or else as it is given.
ResolveImage(b, sel, t) ==
  LET near   == SelectSeq(b.entries, LAMBDA e : Searched(e, sel))
      same   == SelectSeq(near, LAMBDA e : e.name = t.file)
      beside == SelectSeq(near, LAMBDA e : Path(e.dir, t.file) \in b.files)
      At(e)  == [t EXCEPT !.file = Path(e.dir, t.file), !.there = Path(e.dir, t.file) \in b.files]
  IN CASE t.k # "write" \/ t.file = NoFile -> t
       [] t.k = "write" /\ t.file # NoFile /\ same # <<>> -> At(Head(same))
       [] t.k = "write" /\ t.file # NoFile /\ same = <<>> /\ beside # <<>> -> At(Head(beside))
       [] OTHER -> t

\* contents_find_programmers(): the first configuration that can be read, or else the first
\* programmer, of whatever storage and flavor.
FindsProgrammer(b) ==
  LET Openable(type) == SelectSeq(b.entries, LAMBDA e : e.type = type /\ e.opens)
      configs == SelectSeq(Openable("config"), LAMBDA e : e.xml)
  IN IF configs # <<>> THEN Head(configs).good
     ELSE SelectSeq(Openable("programmer"), LAMBDA e : ~e.lite) # <<>>

\* What an entry adds to the files of a type.
LoadEntry(b, sel, type, e) ==
  IF e.type # type \/ ~Included(e, sel) THEN Loaded(<<>>)
  ELSE IF ~e.opens THEN Failed
  ELSE LoadFile(type, [i \in DOMAIN e.tags |-> ResolveImage(b, sel, e.tags[i])], FALSE)

\* A storage with its programs, then its patches.
LoadStorage(b, sel) ==
  LET All(type) == JoinAll([i \in DOMAIN b.entries |-> LoadEntry(b, sel, type, b.entries[i])])
  IN Join(Configured(sel.storage), Join(All("program"), All("patch")))

\* contents_load()
LoadContents(b, pattern) ==
  LET sels == Selectors(b, pattern)
  IN IF sels = <<>> \/ ~FindsProgrammer(b) THEN Failed
     ELSE JoinAll([i \in DOMAIN sels |-> LoadStorage(b, sels[i])])

-----------------------------------------------------------------------------
(* flashmap.json                                                           *)

\* flashmap_select_layout(): the first of these; a single one needs no name.
SelectedLayouts(b, name) ==
  {i \in DOMAIN b.layouts : IF name = "" THEN Len(b.layouts) = 1 ELSE b.layouts[i].name = name}

\* flashmap_enumerate_programmables(): a memory that is not known is left to the device.
LoadPart(p) ==
  Join(Configured(IF p.memory \in Storages THEN p.memory ELSE "none"),
       JoinAll([i \in DOMAIN p.files |-> LoadFile(p.files[i].t, p.files[i].tags, FALSE)]))

\* The storage that operation i is for; one that selects no known storage goes with those
\* before it.
TypeAt(s, i) ==
  LET known == {j \in 1 .. i : s[j].storage # "none"}
  IN IF known = {} THEN "none" ELSE s[Max(known)].storage

\* The operations for the storages asked for.
Filtered(s, storages) ==
  LET Keep(i) == storages = {} \/ TypeAt(s, i) \in storages
  IN JoinAll([i \in DOMAIN s |-> Loaded(IF Keep(i) THEN <<s[i]>> ELSE <<>>)]).ops

\* flashmap_load()
LoadFlashmap(b, pattern) ==
  LET layouts == SelectedLayouts(b, pattern.layout)
      layout  == b.layouts[Min(layouts)]
      parts   == layout.parts
      r       == JoinAll([i \in DOMAIN parts |-> LoadPart(parts[i])])
      s       == Filtered(r.ops, pattern.storages)
  IN IF \/ ~(pattern.storages \subseteq Storages) \/ layouts = {}
        \/ ~layout.programmer \/ parts = <<>> \/ ~r.ok \/ s = <<>>
       THEN Failed ELSE Loaded(s)

\* qdl_cmd_flash()
LoadBuild(a) ==
  IF ~a.good THEN Failed
  ELSE IF a.kind = "contents" THEN LoadContents(a.build, a.pattern)
  ELSE LoadFlashmap(a.build, a.pattern)
=============================================================================
