------------------------------ MODULE GptProof ------------------------------
(* The inductive invariants behind the resolution of names in Gpt and behind  *)
(* the list it is executed on, and proofs that they are and of what follows,  *)
(* for every command line and every disk.                                     *)
EXTENDS Gpt, SequenceTheorems, WellFoundedInduction, TLAPS

Building  == hpc \in {"args", "provision"}
Loading   == hpc \in {"header", "entries"}
Resolving == hpc = "resolve" \/ Loading
Running   == hpc \in {"op", "probe"} \/ Resolving

TypesInv ==
  /\ hpc \in {"args", "provision", "op", "probe", "resolve", "header", "entries", "end"}
  /\ idx \in Nat /\ def \in Nat \ {0} /\ lun \in Nat /\ bad \in Nat
  /\ \A p \in gpt_partitions : p.lun \in Nat

\* The one that an operation was resolved to: no other that it may mean is on the same
\* physical partition or one before it.
Only(o, p) ==
  /\ p \in gpt_partitions
  /\ Matches(o, p) /\ o.lun = p.lun /\ o.start = p.start /\ p.fits
  /\ \A q \in gpt_partitions : Matches(o, q) => q = p \/ q.lun > p.lun

Resolved(o) == Deferred(o) => \E p \in gpt_partitions : Only(o, p)
AsGiven(o)  == o.lun = o.given

IsList ==
  /\ ops \in Seq(Range(ops))
  /\ \A i \in DOMAIN ops : DOMAIN ops[i] = DOMAIN NewOp("none")

\* The list while it is executed.
ListOK ==
  /\ IsList
  /\ \A i \in DOMAIN ops : ops[i].k \notin {"configure", "setbootable", "reset"} => ops[1].k = "configure"
  /\ \A i \in DOMAIN ops : Deferred(ops[i]) => AsGiven(ops[i]) \/ Resolved(ops[i])

ListInv ==
  Running => /\ ListOK
             /\ idx >= 1
             /\ hpc # "op" => idx <= Len(ops) /\ ops[idx].k = "configure"

\* Which operations have been resolved.
Below(n) == \A i \in DOMAIN ops : i < n => Resolved(ops[i])
All      == \A i \in DOMAIN ops : Resolved(ops[i])

\* Tables are loaded for the first name in the list.
FirstName ==
  /\ def \in DOMAIN ops /\ Deferred(ops[def])
  /\ \A i \in DOMAIN ops : Deferred(ops[i]) => i >= def /\ AsGiven(ops[i])

ResolveInv ==
  /\ Building => accesses = <<>> /\ gpt_partitions = {}
  /\ hpc = "probe" => def = 1
  /\ hpc = "resolve" => Below(def)
  /\ Loading => accesses = <<>> /\ FirstName
  /\ hpc = "op" /\ idx > 1 /\ ops[1].k = "configure" => All
  /\ accesses # <<>> => All

Inv == TypesInv /\ ListInv /\ ResolveInv

-----------------------------------------------------------------------------
(* What is known of the partitions that are loaded.                        *)

\* Operations that have been begun.
Begun == IF hpc = "op" THEN idx - 1 ELSE idx

\* They wrote no table, and selected the storage that is selected now.
Unwritten  == \A i \in 1 .. Begun : ops[i].k = "write" => ops[i].table = NoTable
OneStorage == \A i \in 1 .. Begun : ops[i].k = "configure" => ops[i].storage = storage

\* The used entry e of the table of physical partition l, as it is loaded.
IsEntry(l, e) ==
  /\ l + 1 \in DOMAIN disk[storage] /\ Table(l).header = "gpt"
  /\ e \in DOMAIN Table(l).parts /\ Table(l).parts[e].name # ""
AsLoaded(l, e) ==
  [name |-> Table(l).parts[e].name, lun |-> l, entry |-> e,
   start |-> Table(l).parts[e].start, fits |-> Table(l).parts[e].fits]

Full(l) == \A e \in Nat : IsEntry(l, e) => AsLoaded(l, e) \in gpt_partitions

SelectionInv ==
  /\ entry \in Nat
  /\ Building => disk \in Disks
  /\ Running /\ Unwritten => disk \in Disks
  /\ Running /\ hpc # "op" => ops[idx].storage = storage /\ storage \in Storages
  /\ Running /\ gpt_partitions # {} =>
       /\ storage \in Storages
       /\ \E i \in 1 .. Begun : ops[i].k = "configure" /\ ops[i].storage = storage
  /\ hpc = "probe" => sector_size = 0

\* What is loaded is on the disk.
OnDisk ==
  /\ gpt_partitions # {} => sector_size = SectorSize[storage]
  /\ \A p \in gpt_partitions : \E l, e \in Nat : IsEntry(l, e) /\ p = AsLoaded(l, e)

AtTable ==
  hpc = "entries" =>
    LunThere(lun) /\ Table(lun).header = "gpt" /\ sector_size = SectorSize[storage]

\* While no read failed for no reason, nothing is missing of what has been passed.
NoneMissing ==
  bad = 0 =>
    /\ Loading => \A l \in Nat : l < lun => Full(l)
    /\ hpc = "entries" =>
         \A e \in Nat : e <= entry /\ IsEntry(lun, e) => AsLoaded(lun, e) \in gpt_partitions
    /\ hpc \in {"op", "resolve"} /\ gpt_partitions # {} => \A l \in Nat : Full(l)

LoadedInv == Running /\ Unwritten /\ OneStorage => OnDisk /\ AtTable /\ NoneMissing

TablesInv == SelectionInv /\ LoadedInv

-----------------------------------------------------------------------------
(* Lists and names.                                                        *)

LEMMA ListLen ==
  ASSUME IsList
  PROVE  Len(ops) \in Nat /\ DOMAIN ops = 1 .. Len(ops)
BY LenProperties DEF IsList

LEMMA IsSequence ==
  ASSUME NEW S, NEW n \in Nat, NEW s \in [1 .. n -> S]
  PROVE  s \in Seq(S)
BY SeqDef

\* Filling in the place of an operation changes nothing else of the list.
LEMMA Moved ==
  ASSUME IsList, NEW i \in DOMAIN ops, NEW p, ops' = [ops EXCEPT ![i] = MovedTo(@, p)]
  PROVE  /\ IsList' /\ DOMAIN ops' = DOMAIN ops /\ Len(ops') = Len(ops)
         /\ ops'[i] = MovedTo(ops[i], p)
         /\ \A j \in DOMAIN ops : j # i => ops'[j] = ops[j]
<1>1. /\ Len(ops) \in Nat /\ DOMAIN ops = 1 .. Len(ops)
      /\ ops = [j \in DOMAIN ops |-> ops[j]]
  BY ListLen, LenProperties DEF IsList
<1>2. /\ DOMAIN ops' = DOMAIN ops /\ ops'[i] = MovedTo(ops[i], p)
      /\ \A j \in DOMAIN ops : j # i => ops'[j] = ops[j]
  OBVIOUS
<1>3. ops' = [j \in 1 .. Len(ops) |-> ops'[j]]
  BY <1>1
<1>4. \A j \in 1 .. Len(ops) : ops'[j] \in Range(ops')
  BY <1>1, <1>2 DEF Range
<1>5. ops' \in [1 .. Len(ops) -> Range(ops')]
  BY <1>3, <1>4
<1>6. ops' \in Seq(Range(ops'))
  BY <1>1, <1>5, IsSequence
<1>7. Len(ops') = Len(ops)
  BY <1>1, <1>5, <1>6, LenProperties
<1>8. DOMAIN MovedTo(ops[i], p) = DOMAIN ops[i]
  BY DEF MovedTo
<1>9. \A j \in DOMAIN ops' : DOMAIN ops'[j] = DOMAIN NewOp("none")
  BY <1>2, <1>8 DEF IsList
<1> QED
  BY <1>2, <1>6, <1>7, <1>9 DEF IsList

\* The place is filled in, and only that.
LEMMA MovedFields ==
  ASSUME NEW o, NEW p, DOMAIN o = DOMAIN NewOp("none")
  PROVE  LET m == MovedTo(o, p)
         IN /\ m.k = o.k /\ m.storage = o.storage /\ m.name = o.name /\ m.given = o.given
            /\ m.table = o.table /\ m.size = o.size /\ m.lun = p.lun /\ m.start = p.start
<1>1. {"k", "storage", "name", "given", "table", "size", "lun", "start"} \subseteq DOMAIN o
  BY DEF NewOp
<1> QED
  BY <1>1 DEF MovedTo

\* A name that is found, for the first time or again, is resolved to the only partition
\* on the first physical partition that has it.
LEMMA FoundIsOnly ==
  ASSUME TypesInv, NEW o, DOMAIN o = DOMAIN NewOp("none"), NEW p, Usable(o, p),
         Deferred(o), AsGiven(o) \/ Resolved(o)
  PROVE  p \in gpt_partitions /\ Only(MovedTo(o, p), p)
<1> DEFINE m == MovedTo(o, p)
<1>1. m.name = o.name /\ m.given = o.given /\ m.lun = p.lun /\ m.start = p.start
  BY MovedFields
<1>2. \A q : Matches(m, q) <=> Matches(o, q)
  BY <1>1 DEF Matches
<1>3. /\ p \in gpt_partitions /\ p.name = o.name /\ o.lun \in {-1, p.lun} /\ p.fits
      /\ \A q \in NamedAs(o) : p.lun <= q.lun
      /\ \A q \in Candidates(o) : q = p
  <2>1. p \in Candidates(o) /\ (\A q \in Candidates(o) : q = p) /\ p.fits
    BY DEF Usable
  <2> QED
    BY <2>1 DEF Candidates, NamedAs
<1>4. \A q \in gpt_partitions : q.lun \in Nat
  BY DEF TypesInv
<1> HIDE DEF m
<1>5. CASE AsGiven(o)
  <2>1. \A q \in gpt_partitions : Matches(o, q) <=> q \in NamedAs(o)
    BY <1>5 DEF AsGiven, Matches, NamedAs
  <2>2. ASSUME NEW q \in gpt_partitions, Matches(o, q) PROVE q = p \/ q.lun > p.lun
    <3>1. q \in NamedAs(o) /\ p.lun <= q.lun
      BY <2>1, <2>2, <1>3
    <3>2. CASE q.lun = p.lun
      <4>1. \A r \in NamedAs(o) : q.lun <= r.lun
        BY <3>2, <1>3
      <4>2. q \in Candidates(o)
        BY <3>1, <4>1 DEF Candidates
      <4> QED
        BY <4>2, <1>3
    <3>3. CASE q.lun # p.lun
      BY <3>1, <3>3, <1>3, <1>4
    <3> QED
      BY <3>2, <3>3
  <2>3. Matches(o, p)
    BY <1>3, <1>5 DEF AsGiven, Matches
  <2>4. Only(m, p)
    BY <2>2, <2>3, <1>1, <1>2, <1>3 DEF Only
  <2> QED
    BY <2>4, <1>3 DEF m
<1>6. CASE Resolved(o)
  <2>1. PICK r \in gpt_partitions : Only(o, r)
    BY <1>6 DEF Resolved
  <2>2. /\ Matches(o, r) /\ o.lun = r.lun /\ o.start = r.start
        /\ \A q \in gpt_partitions : Matches(o, q) => q = r \/ q.lun > r.lun
    BY <2>1 DEF Only
  <2>3. p.lun = r.lun
    BY <2>2, <1>3, <1>4
  <2>4. Matches(o, p)
    BY <2>2, <2>3, <1>3 DEF Matches
  <2>5. p = r
    BY <2>2, <2>3, <2>4, <1>3, <1>4
  <2>6. Only(m, p)
    BY <2>2, <2>5, <1>1, <1>2, <1>3 DEF Only
  <2> QED
    BY <2>6, <1>3 DEF m
<1> QED
  BY <1>5, <1>6

-----------------------------------------------------------------------------
(* The steps.                                                              *)

LEMMA SameList ==
  ASSUME UNCHANGED <<ops, gpt_partitions>>
  PROVE  ListOK' = ListOK /\ All' = All /\ \A n : Below(n)' = Below(n)
BY DEF ListOK, IsList, All, Below, Resolved, Only, AsGiven

\* While no table is loaded, no name is resolved.
LEMMA NoneLoaded ==
  ASSUME gpt_partitions = {}, NEW o, Deferred(o)
  PROVE  ~Resolved(o)
BY DEF Resolved

\* The step of a run that leaves the list and the partitions alone and goes on with
\* another operation, or ends.
LEMMA OpStepInv ==
  ASSUME Inv, hpc = "op", UNCHANGED <<ops, gpt_partitions, def, lun>>, bad' \in Nat,
         \/ hpc' = "op" /\ idx' = idx + 1 /\ (idx = 1 => ops[1].k # "configure")
         \/ hpc' = "end" /\ idx' = idx,
         accesses' # <<>> => accesses # <<>> \/ All
  PROVE  Inv'
<1>1. ListOK' /\ All' = All
  BY SameList DEF Inv, ListInv, Running
<1>2. TypesInv'
  BY DEF Inv, TypesInv
<1>3. ListInv'
  BY <1>1 DEF Inv, TypesInv, ListInv, Running, Resolving, Loading
<1>4. hpc' = "op" /\ idx' > 1 /\ ops'[1].k = "configure" => All
  BY DEF Inv, TypesInv, ResolveInv
<1>5. accesses' # <<>> => All
  BY DEF Inv, ResolveInv
<1>6. ResolveInv'
  BY <1>1, <1>4, <1>5 DEF ResolveInv, Building, Loading
<1> QED
  BY <1>2, <1>3, <1>6 DEF Inv

LEMMA InitInv == Init => Inv
BY DEF Init, BuildInit, Inv, TypesInv, ListInv, ResolveInv, Building, Running, Resolving, Loading

LEMMA BuildStepInv ==
  ASSUME Inv, Build, UNCHANGED runVars, ListReady'
  PROVE  Inv'
<1>1. Building /\ UNCHANGED <<accesses, gpt_partitions, def, lun, bad>>
  BY DEF Build, Argument, Complete, Provision, Building, runVars
<1>2. /\ hpc' \in {"args", "provision", "end"} \/ (hpc' = "op" /\ idx' = 1)
      /\ idx' \in Nat
  BY DEF Build, Argument, Complete, Provision, Return, Inv, TypesInv
<1>3. TypesInv'
  BY <1>1, <1>2 DEF Inv, TypesInv
<1>4. accesses = <<>> /\ gpt_partitions = {}
  BY <1>1 DEF Inv, ResolveInv
<1>5. ListInv'
  <2>1. hpc' = "op" /\ idx' = 1 => ListOK'
    BY DEF ListReady, IsSeq, ListOK, IsList, AsGiven, Deferred
  <2> QED
    BY <2>1, <1>2 DEF ListInv, Running, Resolving, Loading
<1>6. ResolveInv'
  BY <1>1, <1>2, <1>4 DEF ResolveInv, Building, Loading
<1> QED
  BY <1>3, <1>5, <1>6 DEF Inv

LEMMA ConfigureInv == ASSUME Inv, Configure PROVE Inv'
<1>1. /\ hpc = "op" /\ idx <= Len(ops) /\ ops[idx].k = "configure"
      /\ hpc' \in {"probe", "resolve", "end"} /\ def' = 1
      /\ UNCHANGED <<ops, idx, gpt_partitions, accesses, lun>>
      /\ bad' \in {bad, bad + 1}
  BY DEF Configure, rest, Return
<1>2. ListOK' /\ All' = All /\ DOMAIN ops = 1 .. Len(ops)
  BY <1>1, SameList, ListLen DEF Inv, ListInv, Running, ListOK
<1>3. TypesInv'
  BY <1>1 DEF Inv, TypesInv
<1>4. ListInv'
  BY <1>1, <1>2 DEF Inv, ListInv, Running, Resolving, Loading
<1>5. Below(def)'
  BY <1>1, <1>2 DEF Below
<1>6. ResolveInv'
  BY <1>1, <1>2, <1>5 DEF Inv, ResolveInv, Building, Loading
<1> QED
  BY <1>3, <1>4, <1>6 DEF Inv

LEMMA ProbeInv == ASSUME Inv, Probe PROVE Inv'
<1>1. /\ hpc = "probe" /\ hpc' \in {"probe", "resolve"}
      /\ UNCHANGED <<ops, idx, gpt_partitions, accesses, lun, def>>
      /\ bad' \in {bad, bad + 1}
  BY DEF Probe, rest, ReadWorks, ReadFails
<1>2. ListOK' /\ All' = All /\ DOMAIN ops = 1 .. Len(ops)
  BY <1>1, SameList, ListLen DEF Inv, ListInv, Running, ListOK
<1>3. TypesInv'
  BY <1>1 DEF Inv, TypesInv
<1>4. ListInv'
  BY <1>1, <1>2 DEF Inv, ListInv, Running, Resolving, Loading
<1>5. Below(def)'
  BY <1>1, <1>2 DEF Below, Inv, ResolveInv
<1>6. ResolveInv'
  BY <1>1, <1>2, <1>5 DEF Inv, ResolveInv, Building, Loading
<1> QED
  BY <1>3, <1>4, <1>6 DEF Inv

LEMMA ResolveNoneInv == ASSUME Inv, ResolveNone PROVE Inv'
<1>1. /\ hpc = "resolve" /\ UNCHANGED <<ops, gpt_partitions, accesses, lun, bad>>
      /\ ListOK /\ Below(def) /\ idx >= 1 /\ idx <= Len(ops)
  BY DEF ResolveNone, Inv, ListInv, ResolveInv, Running, Resolving
<1>2. /\ ListOK' /\ All' = All /\ (\A n : Below(n)' = Below(n))
      /\ DOMAIN ops = 1 .. Len(ops) /\ Len(ops) \in Nat
  BY <1>1, SameList, ListLen DEF ListOK
<1>3. def \in Nat \ {0} /\ idx \in Nat
  BY DEF Inv, TypesInv
<1>4. CASE def > Len(ops)
  <2>1. hpc' = "op" /\ idx' = idx + 1 /\ def' = def
    BY <1>4 DEF ResolveNone
  <2>2. All
    BY <1>1, <1>2, <1>3, <1>4 DEF Below, All
  <2>3. TypesInv'
    BY <2>1, <1>1 DEF Inv, TypesInv
  <2>4. ListInv'
    BY <2>1, <1>1, <1>2, <1>3 DEF ListInv
  <2>5. ResolveInv'
    BY <2>1, <2>2, <1>2 DEF ResolveInv, Building, Loading
  <2> QED
    BY <2>3, <2>4, <2>5 DEF Inv
<1>5. CASE ~(def > Len(ops))
  <2>1. hpc' = "resolve" /\ idx' = idx /\ def' = def + 1 /\ ~Deferred(ops[def])
    BY <1>1, <1>5 DEF ResolveNone
  <2>2. Below(def + 1)
    <3>1. Resolved(ops[def])
      BY <2>1 DEF Resolved
    <3>2. \A i \in DOMAIN ops : i < def + 1 => i < def \/ i = def
      BY <1>2, <1>3
    <3> QED
      BY <3>1, <3>2, <1>1 DEF Below
  <2>3. Below(def)'
    <3>1. PICK n : n = def + 1
      OBVIOUS
    <3>2. Below(n) /\ Below(n)' /\ def' = n
      BY <3>1, <2>1, <2>2, <1>2
    <3> QED
      BY <3>2 DEF Below
  <2>4. TypesInv'
    BY <2>1, <1>1, <1>3 DEF Inv, TypesInv
  <2>5. ListInv'
    BY <2>1, <1>1, <1>2 DEF ListInv, Inv, Running, Resolving
  <2>6. ResolveInv'
    BY <2>1, <2>3, <1>1, <1>2 DEF Inv, ResolveInv, Building, Loading
  <2> QED
    BY <2>4, <2>5, <2>6 DEF Inv
<1> QED
  BY <1>4, <1>5

\* Once the tables are there, the name of the next operation is resolved, for the first
\* time or again, or the run ends.
LEMMA LookupInv ==
  ASSUME TypesInv, ListInv, hpc \in {"resolve", "header"},
         def \in DOMAIN ops, Deferred(ops[def]), Below(def), accesses # <<>> => All,
         Lookup, UNCHANGED <<idx, gpt_partitions, accesses, lun>>, bad' \in Nat
  PROVE  Inv' /\ (All => All')
<1>0. PICK d : d = def
  OBVIOUS
<1>1. /\ ListOK /\ IsList /\ idx >= 1 /\ idx <= Len(ops) /\ ops[idx].k = "configure"
      /\ DOMAIN ops[def] = DOMAIN NewOp("none")
      /\ AsGiven(ops[def]) \/ Resolved(ops[def])
  BY DEF ListInv, ListOK, IsList, Running, Resolving, Loading
<1>2. /\ Len(ops) \in Nat /\ DOMAIN ops = 1 .. Len(ops)
      /\ def \in Nat \ {0} /\ idx \in Nat
  BY <1>1, ListLen DEF TypesInv
<1>3. CASE \E p \in gpt_partitions :
             Usable(ops[def], p) /\ ops' = [ops EXCEPT ![def] = MovedTo(@, p)]
  <2>1. PICK p \in gpt_partitions :
          Usable(ops[def], p) /\ ops' = [ops EXCEPT ![def] = MovedTo(@, p)]
    BY <1>3
  <2>2. def' = def + 1 /\ hpc' = "resolve"
    <3>1. Lookup => \/ def' = def + 1 /\ hpc' = "resolve"
                    \/ \A q \in gpt_partitions : ~Usable(ops[def], q)
      BY DEF Lookup
    <3> QED
      BY <3>1, <2>1
  <2>3. /\ IsList' /\ DOMAIN ops' = DOMAIN ops /\ Len(ops') = Len(ops)
        /\ ops'[def] = MovedTo(ops[def], p)
        /\ \A j \in DOMAIN ops : j # def => ops'[j] = ops[j]
    BY <2>1, <1>1, Moved
  <2>4. Only(MovedTo(ops[def], p), p)
    BY <2>1, <1>1, FoundIsOnly
  <2>5. ops'[def].k = ops[def].k
    BY <2>3, <1>1, MovedFields
  <2>6. \A j \in DOMAIN ops : ops'[j].k = ops[j].k
    BY <2>3, <2>5
  <2>7. Resolved(ops[d])'
    BY <1>0, <2>3, <2>4 DEF Resolved, Only
  <2>8. ASSUME NEW j \in DOMAIN ops, Resolved(ops[j]) PROVE Resolved(ops[j])'
    <3>1. CASE j = d
      BY <3>1, <2>7
    <3>2. CASE j # d
      BY <3>2, <1>0, <2>3, <2>8 DEF Resolved, Only
    <3> QED
      BY <3>1, <3>2
  <2>9. Below(def)'
    <3>1. \A j \in DOMAIN ops : j < d + 1 => j < def \/ j = d
      BY <1>0, <1>2
    <3>2. \A j \in DOMAIN ops : j < d + 1 => Resolved(ops[j])'
      BY <3>1, <2>7, <2>8 DEF Below
    <3> QED
      BY <3>2, <1>0, <2>2, <2>3 DEF Below
  <2>10. ListOK'
    <3>1. \A j \in DOMAIN ops : AsGiven(ops[j]) /\ j # d => AsGiven(ops[j])'
      BY <1>0, <2>3 DEF AsGiven
    <3>2. \A j \in DOMAIN ops : Deferred(ops[j])' => Deferred(ops[j])
      <4>1. ops'[def].name = ops[def].name
        BY <2>3, <1>1, MovedFields
      <4> QED
        BY <4>1, <2>3 DEF Deferred
    <3>3. \A j \in DOMAIN ops : Deferred(ops[j])' => AsGiven(ops[j])' \/ Resolved(ops[j])'
      BY <3>1, <3>2, <2>7, <2>8, <1>1 DEF ListOK
    <3>4. \A j \in DOMAIN ops :
            ops[j].k' \notin {"configure", "setbootable", "reset"} => ops[1].k' = "configure"
      <4>1. 1 \in DOMAIN ops
        BY <1>2, <1>1
      <4> QED
        BY <4>1, <2>6, <1>1 DEF ListOK
    <3> QED
      BY <3>3, <3>4, <2>3 DEF ListOK
  <2>11. All => All'
    BY <2>8, <2>3 DEF All
  <2>12. TypesInv'
    BY <2>2, <1>2 DEF TypesInv
  <2>13. ListInv'
    <3>1. idx \in DOMAIN ops
      BY <1>1, <1>2
    <3> QED
      BY <3>1, <2>2, <2>3, <2>6, <2>10, <1>1 DEF ListInv
  <2>14. ResolveInv'
    BY <2>2, <2>9, <2>11 DEF ResolveInv, Building, Loading
  <2> QED
    BY <2>11, <2>12, <2>13, <2>14 DEF Inv
<1>4. CASE ~\E p \in gpt_partitions :
              Usable(ops[def], p) /\ ops' = [ops EXCEPT ![def] = MovedTo(@, p)]
  <2>1. hpc' = "end" /\ UNCHANGED <<ops, def>>
    BY <1>4 DEF Lookup, Return
  <2>2. All' = All
    BY <2>1, SameList
  <2>3. TypesInv'
    BY <2>1 DEF TypesInv
  <2>4. ListInv' /\ ResolveInv'
    BY <2>1, <2>2 DEF ListInv, ResolveInv, Running, Resolving, Building, Loading
  <2> QED
    BY <2>2, <2>3, <2>4 DEF Inv
<1> QED
  BY <1>3, <1>4

LEMMA ResolveStepInv == ASSUME Inv, Resolve PROVE Inv'
<1>1. /\ hpc = "resolve" /\ def <= Len(ops) /\ Deferred(ops[def])
      /\ UNCHANGED <<gpt_partitions, idx, accesses, bad>>
  BY DEF Resolve
<1>2. /\ ListOK /\ Below(def) /\ idx >= 1 /\ idx <= Len(ops) /\ ops[idx].k = "configure"
      /\ accesses # <<>> => All
  BY <1>1 DEF Inv, ListInv, ResolveInv, Running, Resolving
<1>3. /\ def \in DOMAIN ops /\ DOMAIN ops = 1 .. Len(ops) /\ Len(ops) \in Nat
      /\ def \in Nat \ {0} /\ idx \in Nat /\ bad \in Nat
  BY <1>1, <1>2, ListLen DEF ListOK, Inv, TypesInv
<1>4. CASE TablesLoaded
  <2>1. Lookup /\ UNCHANGED lun
    BY <1>4 DEF Resolve
  <2> QED
    BY <2>1, <1>1, <1>2, <1>3, LookupInv DEF Inv
<1>5. CASE ~TablesLoaded
  <2>1. hpc' = "header" /\ lun' = 0 /\ UNCHANGED <<ops, def, ret>>
    BY <1>5 DEF Resolve
  <2>2. gpt_partitions = {}
    BY <1>5 DEF TablesLoaded
  <2>3. \A j \in DOMAIN ops : Deferred(ops[j]) => j >= def /\ AsGiven(ops[j])
    <3>1. ASSUME NEW j \in DOMAIN ops, Deferred(ops[j]) PROVE j >= def /\ AsGiven(ops[j])
      <4>1. ~Resolved(ops[j])
        BY <3>1, <2>2, NoneLoaded
      <4>2. ~(j < def)
        BY <4>1, <1>2 DEF Below
      <4> QED
        BY <4>1, <4>2, <3>1, <1>2, <1>3 DEF ListOK
    <3> QED
      BY <3>1
  <2>4. accesses = <<>>
    <3>1. ~Resolved(ops[def])
      BY <2>2, <1>1, NoneLoaded
    <3> QED
      BY <3>1, <1>2, <1>3 DEF All
  <2>5. ListOK' /\ FirstName'
    <3>1. ListOK'
      BY <2>1, <1>1, <1>2, SameList
    <3>2. FirstName
      BY <2>3, <1>1, <1>3 DEF FirstName
    <3> QED
      BY <3>1, <3>2, <2>1 DEF FirstName, AsGiven
  <2>6. TypesInv'
    BY <2>1, <1>1 DEF Inv, TypesInv
  <2>7. ListInv'
    BY <2>1, <2>5, <1>1, <1>2 DEF ListInv
  <2>8. ResolveInv'
    BY <2>1, <2>4, <2>5, <1>1 DEF ResolveInv, Building, Loading
  <2> QED
    BY <2>6, <2>7, <2>8 DEF Inv
<1> QED
  BY <1>4, <1>5

LEMMA LoadHeaderInv == ASSUME Inv, LoadHeader PROVE Inv'
<1>1. hpc = "header" /\ UNCHANGED <<gpt_partitions, idx, accesses>> /\ bad' \in {bad, bad + 1}
  BY DEF LoadHeader, ReadFails, ReadWorks
<1>2. /\ ListOK /\ idx >= 1 /\ idx <= Len(ops) /\ ops[idx].k = "configure"
      /\ accesses = <<>> /\ FirstName
  BY <1>1 DEF Inv, ListInv, ResolveInv, Running, Resolving, Loading
<1>3. bad' \in Nat /\ lun \in Nat
  BY <1>1 DEF Inv, TypesInv
<1>4. CASE NoHeader
  <2>1. Below(def)
    BY <1>2 DEF FirstName, Below, Resolved
  <2> QED
    BY <2>1, <1>1, <1>2, <1>3, <1>4, LookupInv DEF Inv, NoHeader, FirstName
<1>5. CASE ~NoHeader
  <2>1. /\ hpc' \in {"header", "entries", "end"} /\ lun' \in {lun, lun + 1}
        /\ UNCHANGED <<ops, def>>
    BY <1>1, <1>5 DEF LoadHeader, PassOver, Return
  <2>2. ListOK' /\ FirstName'
    <3>1. ListOK'
      BY <2>1, <1>1, <1>2, SameList
    <3> QED
      BY <3>1, <1>2, <2>1 DEF FirstName, AsGiven
  <2>3. TypesInv'
    BY <2>1, <1>1, <1>3 DEF Inv, TypesInv
  <2>4. ListInv'
    BY <2>1, <2>2, <1>1, <1>2 DEF ListInv
  <2>5. ResolveInv'
    BY <2>1, <2>2, <1>1, <1>2 DEF ResolveInv, Building, Loading
  <2> QED
    BY <2>3, <2>4, <2>5 DEF Inv
<1> QED
  BY <1>4, <1>5

LEMMA LoadEntriesInv == ASSUME Inv, LoadEntries PROVE Inv'
<1>1. /\ hpc = "entries" /\ UNCHANGED <<ops, idx, accesses, def>> /\ bad' \in {bad, bad + 1}
      /\ hpc' \in {"header", "entries", "end"} /\ lun' \in {lun, lun + 1}
      /\ \/ UNCHANGED gpt_partitions
         \/ gpt_partitions' = gpt_partitions \cup {Partition(i) : i \in InSector}
  BY DEF LoadEntries, ReadFails, ReadWorks, rest, Return
<1>2. /\ ListOK /\ idx >= 1 /\ idx <= Len(ops) /\ ops[idx].k = "configure"
      /\ accesses = <<>> /\ FirstName
  BY <1>1 DEF Inv, ListInv, ResolveInv, Running, Resolving, Loading
<1>3. lun \in Nat /\ bad' \in Nat
  BY <1>1 DEF Inv, TypesInv
<1>4. \A q \in gpt_partitions' : q.lun \in Nat
  BY <1>1, <1>3 DEF Inv, TypesInv, Partition
<1>5. FirstName'
  BY <1>1, <1>2 DEF FirstName, AsGiven
<1>6. ListOK'
  BY <1>1, <1>2, <1>5 DEF ListOK, IsList, FirstName
<1>7. TypesInv'
  BY <1>1, <1>3, <1>4 DEF Inv, TypesInv
<1>8. ListInv'
  BY <1>1, <1>2, <1>6 DEF ListInv
<1>9. ResolveInv'
  BY <1>1, <1>2, <1>5 DEF ResolveInv, Building, Loading
<1> QED
  BY <1>7, <1>8, <1>9 DEF Inv

LEMMA ExecuteInv == ASSUME Inv, Execute PROVE Inv'
<1>1. /\ hpc = "op" /\ idx <= Len(ops) /\ Touches(ops[idx])
      /\ UNCHANGED <<ops, gpt_partitions, def, lun>> /\ bad' \in {bad, bad + 1}
      /\ \/ hpc' = "op" /\ idx' = idx + 1
         \/ hpc' = "end" /\ idx' = idx
  BY DEF Execute, ReadFails, ReadWorks, Return
<1>2. ListOK /\ idx >= 1 /\ idx \in Nat /\ bad' \in Nat
  BY <1>1 DEF Inv, ListInv, Running, TypesInv
<1>3. idx \in DOMAIN ops
  BY <1>1, <1>2, ListLen DEF ListOK
<1>4. ops[idx].k \notin {"configure", "setbootable", "reset"}
  BY <1>1 DEF Touches
<1>5. ops[1].k = "configure" /\ idx > 1
  BY <1>2, <1>3, <1>4 DEF ListOK
<1>6. All
  BY <1>1, <1>5 DEF Inv, ResolveInv
<1> QED
  BY <1>1, <1>2, <1>5, <1>6, OpStepInv

LEMMA PassByInv == ASSUME Inv, PassBy PROVE Inv'
<1>1. /\ hpc = "op" /\ idx <= Len(ops) /\ ops[idx].k # "configure"
      /\ UNCHANGED <<ops, gpt_partitions, def, lun, bad, accesses>>
      /\ hpc' = "op" /\ idx' = idx + 1
  BY DEF PassBy, Idle, runVars
<1> QED
  BY <1>1, OpStepInv DEF Inv, TypesInv

LEMMA ResetInv == ASSUME Inv, Reset PROVE Inv'
<1>1. /\ hpc = "op" /\ idx <= Len(ops) /\ ops[idx].k # "configure"
      /\ UNCHANGED <<ops, gpt_partitions, def, lun, accesses>> /\ bad' \in {bad, bad + 1}
      /\ \/ hpc' = "op" /\ idx' = idx + 1
         \/ hpc' = "end" /\ idx' = idx
  BY DEF Reset, Return
<1> QED
  BY <1>1, OpStepInv DEF Inv, TypesInv

LEMMA FinishInv == ASSUME Inv, Finish PROVE Inv'
<1>1. /\ hpc = "op" /\ UNCHANGED <<ops, gpt_partitions, def, lun, accesses, bad>>
      /\ hpc' = "end" /\ idx' = idx
  BY DEF Finish, Return, runVars
<1> QED
  BY <1>1, OpStepInv DEF Inv, TypesInv

LEMMA StutterInv == ASSUME Inv, UNCHANGED vars PROVE Inv'
<1>1. UNCHANGED <<ops, gpt_partitions, hpc, idx, def, lun, bad, accesses>>
  BY DEF vars, runVars
<1>2. ListOK' = ListOK /\ All' = All
  BY <1>1, SameList
<1>3. Below(def)' = Below(def) /\ FirstName' = FirstName
  BY <1>1 DEF Below, FirstName, Resolved, Only, AsGiven
<1>4. TypesInv'
  BY <1>1 DEF Inv, TypesInv
<1>5. ListInv'
  BY <1>1, <1>2 DEF Inv, ListInv, Running, Resolving, Loading
<1>6. ResolveInv'
  BY <1>1, <1>2, <1>3 DEF Inv, ResolveInv, Building, Loading
<1> QED
  BY <1>4, <1>5, <1>6 DEF Inv

LEMMA StepInv == ASSUME Inv, [Next]_vars, ListReady' PROVE Inv'
<1>1. CASE Build /\ UNCHANGED runVars
  BY <1>1, BuildStepInv
<1>2. CASE Run
  BY <1>2, ConfigureInv, ProbeInv, ResolveNoneInv, ResolveStepInv, LoadHeaderInv,
     LoadEntriesInv, ExecuteInv, PassByInv, ResetInv, FinishInv DEF Run
<1>3. CASE UNCHANGED vars
  BY <1>3, StutterInv
<1> QED
  BY <1>1, <1>2, <1>3 DEF Next, Done

-----------------------------------------------------------------------------
(* Folds over sequences: JoinAll() takes the elements in the order of their *)
(* places, the last one being that of the largest place.                   *)

LEMMA LeastNat ==
  ASSUME NEW T, T \subseteq Nat, T # {}
  PROVE  \E m \in T : \A k \in T : m <= k
<1>1. PICK m \in T : \A k \in T : <<k, m>> \notin OpToRel(<, Nat)
  BY NatLessThanWellFounded, WFMin
<1>2. \A k \in T : ~(k < m)
  BY <1>1 DEF OpToRel
<1> QED
  BY <1>2

LEMMA MinIn ==
  ASSUME NEW T, T \subseteq Nat, T # {}
  PROVE  Min(T) \in T
BY LeastNat DEF Min

LEMMA MaxIn ==
  ASSUME NEW n \in Nat, NEW s \in SUBSET (1 .. n), s # {}
  PROVE  Max(s) \in s /\ \A k \in s : k <= Max(s)
<1> DEFINE T == {m \in Nat : \A k \in s : k <= m}
<1>1. n \in T
  OBVIOUS
<1>2. PICK m \in T : \A k \in T : m <= k
  BY <1>1, LeastNat
<1>3. m \in s
  <2>1. SUFFICES ASSUME m \notin s PROVE FALSE
    OBVIOUS
  <2>2. PICK k \in s : TRUE
    OBVIOUS
  <2>3. k \in 1 .. n /\ k <= m /\ m \in Nat
    BY <2>2
  <2>4. m - 1 \in Nat
    BY <2>3
  <2>5. ASSUME NEW j \in s PROVE j <= m - 1
    <3>1. j \in 1 .. n /\ j <= m /\ j # m
      BY <2>1
    <3> QED
      BY <3>1, <2>3
  <2>6. m - 1 \in T
    BY <2>4, <2>5
  <2> QED
    BY <1>2, <2>3, <2>6
<1>4. \A k \in s : m >= k
  OBVIOUS
<1>5. \A k \in s : Max(s) >= k /\ Max(s) \in s
  BY <1>3, <1>4 DEF Max
<1> QED
  BY <1>3, <1>5

\* What holds of the empty set, and of a set if it does without its largest element.
LEMMA SetsByMax ==
  ASSUME NEW n \in Nat, NEW T, {} \in T,
         \A s \in SUBSET (1 .. n) : s # {} /\ s \ {Max(s)} \in T => s \in T
  PROVE  SUBSET (1 .. n) \subseteq T
<1> DEFINE Bad == {k \in 0 .. n : ~(SUBSET (1 .. k) \subseteq T)}
<1>1. SUFFICES ASSUME Bad # {} PROVE FALSE
  OBVIOUS
<1>2. PICK k \in Bad : \A l \in Bad : k <= l
  <2>1. Bad \subseteq Nat
    OBVIOUS
  <2> HIDE DEF Bad
  <2> QED
    BY <1>1, <2>1, LeastNat
<1>3. k # 0
  <2>1. \A s \in SUBSET (1 .. 0) : s = {}
    OBVIOUS
  <2>2. 0 \notin Bad
    BY <2>1
  <2> QED
    BY <2>2
<1>4. k - 1 \in 0 .. n /\ SUBSET (1 .. k - 1) \subseteq T
  <2>1. k \in 0 .. n /\ k - 1 \in 0 .. n /\ ~(k <= k - 1)
    BY <1>3
  <2>2. k - 1 \notin Bad
    BY <1>2, <2>1
  <2> QED
    BY <2>1, <2>2
<1>5. ASSUME NEW s \in SUBSET (1 .. k), s # {} PROVE s \in T
  <2>1. s \in SUBSET (1 .. n)
    OBVIOUS
  <2>2. Max(s) \in s /\ \A j \in s : j <= Max(s)
    BY <1>5, <2>1, MaxIn
  <2>3. ASSUME NEW j \in s, j # Max(s) PROVE j \in 1 .. k - 1
    <3>1. j \in 1 .. k /\ Max(s) \in 1 .. k /\ j <= Max(s)
      BY <2>2
    <3> QED
      BY <2>3, <3>1
  <2>4. s \ {Max(s)} \in SUBSET (1 .. k - 1)
    BY <2>3
  <2> QED
    BY <1>4, <1>5, <2>1, <2>4
<1> QED
  BY <1>2, <1>5

JoinStep(rs, f, s) == IF s = {} THEN Loaded(<<>>) ELSE Join(f[s \ {Max(s)}], rs[Max(s)])

IsJoin(rs, u, f) == f = [s \in SUBSET u |-> JoinStep(rs, f, s)]

LEMMA JoinExists ==
  ASSUME NEW n \in Nat, NEW rs
  PROVE  \A u \in SUBSET (1 .. n) : \E f : IsJoin(rs, u, f)
<1> DEFINE T == {u \in SUBSET (1 .. n) : \E f : IsJoin(rs, u, f)}
<1>1. {} \in T
  <2> DEFINE f == [s \in SUBSET {} |-> Loaded(<<>>)]
  <2>1. IsJoin(rs, {}, f)
    BY DEF IsJoin, JoinStep
  <2> QED
    BY <2>1
<1>2. ASSUME NEW u \in SUBSET (1 .. n), u # {}, u \ {Max(u)} \in T PROVE u \in T
  <2> DEFINE m == Max(u)
             v == u \ {m}
  <2>1. m \in u /\ \A k \in u : k <= m
    BY <1>2, MaxIn
  <2>2. PICK f : IsJoin(rs, v, f)
    BY <1>2
  <2> DEFINE g == [s \in SUBSET u |-> IF m \in s THEN Join(f[s \ {m}], rs[m]) ELSE f[s]]
  <2>3. ASSUME NEW s \in SUBSET u PROVE g[s] = JoinStep(rs, g, s)
    <3>1. CASE m \in s
      <4>1. s # {} /\ s \in SUBSET (1 .. n)
        BY <3>1
      <4>2. Max(s) \in s /\ \A k \in s : k <= Max(s)
        BY <4>1, MaxIn
      <4>3. Max(s) = m
        <5>1. Max(s) \in u /\ m \in 1 .. n /\ Max(s) \in 1 .. n
          BY <2>1, <4>2
        <5>2. Max(s) <= m /\ m <= Max(s)
          BY <2>1, <3>1, <4>2, <5>1
        <5> QED
          BY <5>1, <5>2
      <4>4. s \ {m} \in SUBSET u /\ m \notin s \ {m}
        OBVIOUS
      <4>5. g[s \ {m}] = f[s \ {m}]
        BY <4>4
      <4>6. g[s] = Join(f[s \ {m}], rs[m])
        BY <3>1
      <4> QED
        BY <4>1, <4>3, <4>5, <4>6 DEF JoinStep
    <3>2. CASE m \notin s
      <4>1. s \in SUBSET v /\ g[s] = f[s] /\ f[s] = JoinStep(rs, f, s)
        BY <3>2, <2>2 DEF IsJoin
      <4>2. s \ {Max(s)} \in SUBSET u /\ m \notin s \ {Max(s)}
        BY <3>2
      <4>3. g[s \ {Max(s)}] = f[s \ {Max(s)}]
        BY <4>2
      <4> QED
        BY <4>1, <4>3 DEF JoinStep
    <3> QED
      BY <3>1, <3>2
  <2>4. IsJoin(rs, u, g)
    <3>1. g = [s \in SUBSET u |-> g[s]]
      OBVIOUS
    <3> HIDE DEF g
    <3> QED
      BY <2>3, <3>1, Zenon DEF IsJoin
  <2> QED
    BY <2>4
<1>3. SUBSET (1 .. n) \subseteq T
  <2> HIDE DEF T
  <2> QED
    BY <1>1, <1>2, SetsByMax
<1> QED
  BY <1>3

TheJoin(rs, u) == CHOOSE f : IsJoin(rs, u, f)

LEMMA JoinAllIs ==
  ASSUME NEW rs
  PROVE  JoinAll(rs) = TheJoin(rs, DOMAIN rs)[DOMAIN rs]
BY Zenon DEF JoinAll, FoldLeft, MapThenFoldSet, TheJoin, IsJoin, JoinStep

LEMMA JoinIsFold ==
  ASSUME NEW n \in Nat, NEW rs, DOMAIN rs = 1 .. n
  PROVE  \E f : IsJoin(rs, 1 .. n, f) /\ JoinAll(rs) = f[1 .. n]
<1>1. \E f : IsJoin(rs, 1 .. n, f)
  BY JoinExists
<1>2. IsJoin(rs, 1 .. n, TheJoin(rs, 1 .. n))
  BY <1>1 DEF TheJoin
<1> QED
  BY <1>2, JoinAllIs

-----------------------------------------------------------------------------
(* Lists of operations, as they are read.                                  *)

\* An operation that was not resolved: a name has the physical partition that was given.
Op(o) ==
  /\ DOMAIN o = DOMAIN NewOp("none")
  /\ o.name # "" => o.lun = o.given /\ o.size = 0

IsOps(s) == IsSeq(s) /\ \A i \in DOMAIN s : Op(s[i])

LEMMA SeqLen ==
  ASSUME NEW s, IsSeq(s)
  PROVE  Len(s) \in Nat /\ DOMAIN s = 1 .. Len(s)
BY LenProperties DEF IsSeq

LEMMA SeqIn ==
  ASSUME NEW s, NEW S, s \in Seq(S)
  PROVE  IsSeq(s)
<1>1. Len(s) \in Nat /\ s \in [1 .. Len(s) -> S]
  BY LenProperties
<1>2. s \in [1 .. Len(s) -> Range(s)]
  BY <1>1 DEF Range
<1> QED
  BY <1>1, <1>2, SeqDef DEF IsSeq

LEMMA EmptyList == IsOps(<<>>)
BY DEF IsOps, IsSeq

LEMMA Single ==
  ASSUME NEW o, Op(o)
  PROVE  IsOps(<<o>>)
<1>1. <<o>> \in Seq({o})
  OBVIOUS
<1>2. \A i \in DOMAIN <<o>> : <<o>>[i] = o
  OBVIOUS
<1> QED
  BY <1>1, <1>2, SeqIn DEF IsOps

LEMMA Concat ==
  ASSUME NEW s, NEW t, IsOps(s), IsOps(t)
  PROVE  /\ IsOps(s \o t) /\ Len(s \o t) = Len(s) + Len(t)
         /\ \A i \in 1 .. Len(s) : (s \o t)[i] = s[i]
<1> DEFINE S == Range(s) \cup Range(t)
<1>1. s \in Seq(S) /\ t \in Seq(S)
  <2>1. s \in Seq(Range(s)) /\ t \in Seq(Range(t))
    BY DEF IsOps, IsSeq
  <2> QED
    BY <2>1, SeqDef
<1>2. /\ Len(s) \in Nat /\ DOMAIN s = 1 .. Len(s)
      /\ Len(t) \in Nat /\ DOMAIN t = 1 .. Len(t)
  BY SeqLen DEF IsOps
<1> HIDE DEF S
<1>3. /\ s \o t \in Seq(S) /\ Len(s \o t) = Len(s) + Len(t)
      /\ \A i \in 1 .. Len(s) + Len(t) : (s \o t)[i] = IF i <= Len(s) THEN s[i] ELSE t[i - Len(s)]
  BY <1>1, ConcatProperties
<1>4. IsSeq(s \o t) /\ DOMAIN (s \o t) = 1 .. Len(s) + Len(t)
  BY <1>3, SeqIn, LenProperties
<1>5. ASSUME NEW i \in 1 .. Len(s) + Len(t) PROVE Op((s \o t)[i])
  <2>1. CASE i <= Len(s)
    <3>1. i \in DOMAIN s /\ (s \o t)[i] = s[i]
      BY <1>2, <1>3, <2>1
    <3> QED
      BY <3>1 DEF IsOps
  <2>2. CASE ~(i <= Len(s))
    <3>1. i - Len(s) \in DOMAIN t /\ (s \o t)[i] = t[i - Len(s)]
      BY <1>2, <1>3, <2>2
    <3> QED
      BY <3>1 DEF IsOps
  <2> QED
    BY <2>1, <2>2
<1>6. \A i \in 1 .. Len(s) : (s \o t)[i] = s[i]
  BY <1>2, <1>3
<1> QED
  BY <1>3, <1>4, <1>5, <1>6 DEF IsOps

LEMMA AppendIs ==
  ASSUME NEW s, NEW o, IsOps(s), Op(o)
  PROVE  /\ IsOps(Append(s, o)) /\ Len(Append(s, o)) = Len(s) + 1
         /\ \A i \in 1 .. Len(s) : Append(s, o)[i] = s[i]
         /\ Append(s, o)[Len(s) + 1] = o
<1> DEFINE S == Range(s) \cup {o}
<1>1. s \in Seq(S) /\ o \in S
  <2>1. s \in Seq(Range(s))
    BY DEF IsOps, IsSeq
  <2> QED
    BY <2>1, SeqDef
<1>2. Len(s) \in Nat /\ DOMAIN s = 1 .. Len(s)
  BY SeqLen DEF IsOps
<1> HIDE DEF S
<1>3. /\ Append(s, o) \in Seq(S) /\ Len(Append(s, o)) = Len(s) + 1
      /\ \A i \in 1 .. Len(s) : Append(s, o)[i] = s[i]
      /\ Append(s, o)[Len(s) + 1] = o
  BY <1>1, AppendProperties
<1>4. IsSeq(Append(s, o)) /\ DOMAIN Append(s, o) = 1 .. Len(s) + 1
  BY <1>3, SeqIn, LenProperties
<1>5. ASSUME NEW i \in 1 .. Len(s) + 1 PROVE Op(Append(s, o)[i])
  BY <1>2, <1>3 DEF IsOps
<1> QED
  BY <1>3, <1>4, <1>5 DEF IsOps

LEMMA JoinIsList ==
  ASSUME NEW r, NEW more, IsOps(r.ops), IsOps(more.ops)
  PROVE  IsOps(Join(r, more).ops)
BY Concat, EmptyList DEF Join, Loaded, Failed

\* Whatever is joined, in any number, is a list of operations if its parts are.
LEMMA JoinAllIsList ==
  ASSUME NEW n \in Nat, NEW rs, DOMAIN rs = 1 .. n, \A i \in 1 .. n : IsOps(rs[i].ops)
  PROVE  IsOps(JoinAll(rs).ops)
<1>1. PICK f : IsJoin(rs, 1 .. n, f) /\ JoinAll(rs) = f[1 .. n]
  BY JoinIsFold
<1> DEFINE T == {s \in SUBSET (1 .. n) : IsOps(f[s].ops)}
<1>2. {} \in T
  <2>1. f[{}] = Loaded(<<>>)
    BY <1>1 DEF IsJoin, JoinStep
  <2> QED
    BY <2>1, EmptyList DEF Loaded
<1>3. ASSUME NEW s \in SUBSET (1 .. n), s # {}, s \ {Max(s)} \in T PROVE s \in T
  <2>1. f[s] = Join(f[s \ {Max(s)}], rs[Max(s)])
    BY <1>1, <1>3 DEF IsJoin, JoinStep
  <2>2. IsOps(rs[Max(s)].ops)
    BY <1>3, MaxIn
  <2>3. IsOps(f[s \ {Max(s)}].ops)
    BY <1>3
  <2> QED
    BY <2>1, <2>2, <2>3, JoinIsList
<1> HIDE DEF T
<1>4. SUBSET (1 .. n) \subseteq T
  BY <1>2, <1>3, SetsByMax
<1>5. 1 .. n \in T
  BY <1>4
<1> QED
  BY <1>1, <1>5 DEF T

-----------------------------------------------------------------------------
(* What is read from files and arguments is a list of operations.          *)

LEMMA FailedIsList == IsOps(Failed.ops)
BY EmptyList DEF Failed

LEMMA NothingIsList == IsOps(Loaded(<<>>).ops)
BY EmptyList DEF Loaded

LEMMA LoadedIsList ==
  ASSUME NEW s, IsOps(s)
  PROVE  IsOps(Loaded(s).ops)
BY DEF Loaded

LEMMA NewIsOp == ASSUME NEW k PROVE Op(NewOp(k))
BY DEF Op, NewOp

LEMMA TagIsOp ==
  ASSUME NEW t
  PROVE  /\ Op(FromTag(t)) /\ Op([FromTag(t) EXCEPT !.file = NoFile])
         /\ \A start, len, i : Op([FromTag(t) EXCEPT !.start = start, !.len = len, !.chunk = i])
         /\ \A start : Op([FromTag(t) EXCEPT !.start = start, !.file = NoFile])
BY DEF Op, FromTag, NewOp

LEMMA SparseIsList ==
  ASSUME NEW t, IsSeq(t.chunks)
  PROVE  IsOps(LoadSparse(t).ops)
<1>1. ASSUME NEW i PROVE IsOps(LoadChunk(t, i).ops)
  <2> DEFINE op == [FromTag(t) EXCEPT !.start = ChunkStart(t, i), !.len = t.chunks[i].len, !.chunk = i]
  <2>1. IsOps(Loaded(<<op>>).ops)
    BY TagIsOp, Single, LoadedIsList
  <2> QED
    BY <2>1, FailedIsList, NothingIsList DEF LoadChunk
<1> DEFINE rs == [i \in DOMAIN t.chunks |-> LoadChunk(t, i)]
<1>2. Len(t.chunks) \in Nat /\ DOMAIN rs = 1 .. Len(t.chunks)
  BY SeqLen
<1>3. \A i \in 1 .. Len(t.chunks) : IsOps(rs[i].ops)
  BY <1>1, <1>2
<1> HIDE DEF rs
<1>4. IsOps(JoinAll(rs).ops)
  BY <1>2, <1>3, JoinAllIsList
<1> QED
  BY <1>4 DEF LoadSparse, rs

LEMMA TagIsList ==
  ASSUME NEW t, IsSeq(t.chunks), NEW type, NEW allow
  PROVE  IsOps(LoadTag(type, t, allow).ops)
<1>1. /\ IsOps(Loaded(<<FromTag(t)>>).ops)
      /\ IsOps(Loaded(<<[FromTag(t) EXCEPT !.file = NoFile]>>).ops)
  BY TagIsOp, Single, LoadedIsList
<1>2. IsOps(LoadProgram(t, allow).ops)
  <2> DEFINE op == [FromTag(t) EXCEPT !.start = ChunkStart(t, Len(t.chunks) + 1), !.file = NoFile]
  <2>1. IsOps(Loaded(Append(LoadSparse(t).ops, op)).ops)
    BY SparseIsList, TagIsOp, AppendIs, LoadedIsList
  <2> QED
    BY <1>1, <2>1, FailedIsList DEF LoadProgram
<1>3. IsOps(LoadErase(t).ops) /\ IsOps(LoadPatch(t).ops) /\ IsOps(LoadRead(t).ops)
  BY <1>1, FailedIsList, NothingIsList DEF LoadErase, LoadPatch, LoadRead
<1> QED
  BY <1>2, <1>3, FailedIsList DEF LoadTag

LEMMA FileIsList ==
  ASSUME NEW tags, TagList(tags), NEW type, NEW allow
  PROVE  IsOps(LoadFile(type, tags, allow).ops)
<1> DEFINE rs == [i \in DOMAIN tags |-> LoadTag(type, tags[i], allow)]
<1>1. Len(tags) \in Nat /\ DOMAIN rs = 1 .. Len(tags) /\ DOMAIN tags = 1 .. Len(tags)
  BY SeqLen DEF TagList
<1>2. \A i \in 1 .. Len(tags) : IsOps(rs[i].ops)
  BY <1>1, TagIsList DEF TagList
<1> HIDE DEF rs
<1>3. IsOps(JoinAll(rs).ops)
  BY <1>1, <1>2, JoinAllIsList
<1> QED
  BY <1>3 DEF LoadFile, rs

LEMMA ConfiguredIsList == ASSUME NEW s PROVE IsOps(Configured(s).ops)
<1>1. Op([NewOp("configure") EXCEPT !.storage = s])
  BY DEF Op, NewOp
<1> QED
  BY <1>1, Single, LoadedIsList DEF Configured

LEMMA EntryIsList ==
  ASSUME NEW b, NEW sel, NEW type, NEW e, TagList(e.tags)
  PROVE  IsOps(LoadEntry(b, sel, type, e).ops)
<1> DEFINE tags == [i \in DOMAIN e.tags |-> ResolveImage(b, sel, e.tags[i])]
<1>1. Len(e.tags) \in Nat /\ DOMAIN e.tags = 1 .. Len(e.tags)
  BY SeqLen DEF TagList
<1>2. \A i \in DOMAIN e.tags :
        "chunks" \in DOMAIN tags[i] /\ tags[i].chunks = e.tags[i].chunks
  <2>1. ASSUME NEW t, "chunks" \in DOMAIN t
        PROVE  LET r == ResolveImage(b, sel, t)
               IN "chunks" \in DOMAIN r /\ r.chunks = t.chunks
    <3>1. \A x, y : LET r == [t EXCEPT !.file = x, !.there = y]
                   IN "chunks" \in DOMAIN r /\ r.chunks = t.chunks
      BY <2>1
    <3>2. \/ ResolveImage(b, sel, t) = t
          \/ \E x, y : ResolveImage(b, sel, t) = [t EXCEPT !.file = x, !.there = y]
      BY Zenon DEF ResolveImage
    <3> QED
      BY <2>1, <3>1, <3>2
  <2> QED
    BY <2>1 DEF TagList
<1>3. tags \in Seq(Range(tags))
  <2>1. tags \in [1 .. Len(e.tags) -> Range(tags)]
    BY <1>1 DEF Range
  <2> QED
    BY <1>1, <2>1, SeqDef
<1>4. TagList(tags)
  BY <1>2, <1>3 DEF TagList, IsSeq
<1> HIDE DEF tags
<1>5. IsOps(LoadFile(type, tags, FALSE).ops)
  BY <1>4, FileIsList
<1> QED
  BY <1>5, FailedIsList, NothingIsList DEF LoadEntry, tags

LEMMA StorageIsList ==
  ASSUME NEW b, ContentsList(b), NEW sel
  PROVE  IsOps(LoadStorage(b, sel).ops)
<1> DEFINE rs(type) == [i \in DOMAIN b.entries |-> LoadEntry(b, sel, type, b.entries[i])]
<1>1. Len(b.entries) \in Nat /\ DOMAIN b.entries = 1 .. Len(b.entries)
  BY SeqLen DEF ContentsList
<1>2. ASSUME NEW type PROVE IsOps(JoinAll(rs(type)).ops)
  <2>1. DOMAIN rs(type) = 1 .. Len(b.entries)
    BY <1>1
  <2>2. \A i \in 1 .. Len(b.entries) : IsOps(rs(type)[i].ops)
    BY <1>1, EntryIsList DEF ContentsList
  <2> HIDE DEF rs
  <2> QED
    BY <1>1, <2>1, <2>2, JoinAllIsList
<1>3. IsOps(Join(JoinAll(rs("program")), JoinAll(rs("patch"))).ops)
  BY <1>2, JoinIsList
<1>4. IsOps(Join(Configured(sel.storage), Join(JoinAll(rs("program")), JoinAll(rs("patch")))).ops)
  BY <1>3, ConfiguredIsList, JoinIsList
<1> QED
  BY <1>4 DEF LoadStorage

LEMMA ContentsIsList ==
  ASSUME NEW b, ContentsList(b), NEW pattern, IsSeq(pattern)
  PROVE  IsOps(LoadContents(b, pattern).ops)
<1> DEFINE sels == Selectors(b, pattern)
           rs   == [i \in DOMAIN sels |-> LoadStorage(b, sels[i])]
<1>1. \E n \in Nat : DOMAIN sels = 1 .. n
  <2>1. DOMAIN <<ValidSelectors(b)>> = 1 .. 1 /\ DOMAIN <<>> = 1 .. 0
    OBVIOUS
  <2>2. Len(pattern) \in Nat /\ DOMAIN pattern = 1 .. Len(pattern)
    BY SeqLen
  <2> QED
    BY <2>1, <2>2 DEF Selectors
<1>2. PICK n \in Nat : DOMAIN sels = 1 .. n
  BY <1>1
<1> HIDE DEF sels
<1>3. DOMAIN rs = 1 .. n /\ \A i \in 1 .. n : IsOps(rs[i].ops)
  BY <1>2, StorageIsList
<1> HIDE DEF rs
<1>4. IsOps(JoinAll(rs).ops)
  BY <1>3, JoinAllIsList
<1> QED
  BY <1>4, FailedIsList DEF LoadContents, sels, rs

LEMMA PartIsList ==
  ASSUME NEW p, IsSeq(p.files), \A j \in DOMAIN p.files : TagList(p.files[j].tags)
  PROVE  IsOps(LoadPart(p).ops)
<1> DEFINE rs == [i \in DOMAIN p.files |-> LoadFile(p.files[i].t, p.files[i].tags, FALSE)]
<1>1. Len(p.files) \in Nat /\ DOMAIN p.files = 1 .. Len(p.files)
  BY SeqLen
<1>2. DOMAIN rs = 1 .. Len(p.files) /\ \A i \in 1 .. Len(p.files) : IsOps(rs[i].ops)
  BY <1>1, FileIsList
<1> HIDE DEF rs
<1>3. IsOps(JoinAll(rs).ops)
  BY <1>1, <1>2, JoinAllIsList
<1> QED
  BY <1>3, ConfiguredIsList, JoinIsList DEF LoadPart, rs

LEMMA FilteredIsList ==
  ASSUME NEW s, IsOps(s), NEW storages
  PROVE  IsOps(Filtered(s, storages))
<1> DEFINE Keep(i) == storages = {} \/ TypeAt(s, i) \in storages
           rs == [i \in DOMAIN s |-> Loaded(IF Keep(i) THEN <<s[i]>> ELSE <<>>)]
<1>1. Len(s) \in Nat /\ DOMAIN s = 1 .. Len(s)
  BY SeqLen DEF IsOps
<1>2. ASSUME NEW i \in DOMAIN s PROVE IsOps(rs[i].ops)
  <2>1. IsOps(<<s[i]>>)
    BY Single DEF IsOps
  <2> HIDE DEF Keep
  <2> QED
    BY <2>1, LoadedIsList, EmptyList
<1>3. DOMAIN rs = 1 .. Len(s) /\ \A i \in 1 .. Len(s) : IsOps(rs[i].ops)
  BY <1>1, <1>2
<1> HIDE DEF rs
<1>4. IsOps(JoinAll(rs).ops)
  BY <1>1, <1>3, JoinAllIsList
<1> QED
  BY <1>4 DEF Filtered, rs

LEMMA FlashmapIsList ==
  ASSUME NEW b, IsSeq(b.layouts), \A i \in DOMAIN b.layouts : LayoutList(b.layouts[i]), NEW pattern
  PROVE  IsOps(LoadFlashmap(b, pattern).ops)
<1> DEFINE layouts == SelectedLayouts(b, pattern.layout)
           parts   == b.layouts[Min(layouts)].parts
           rs      == [i \in DOMAIN parts |-> LoadPart(parts[i])]
<1>1. CASE layouts = {}
  BY <1>1, FailedIsList DEF LoadFlashmap
<1>2. CASE layouts # {}
  <2>1. DOMAIN b.layouts = 1 .. Len(b.layouts) /\ Len(b.layouts) \in Nat
    BY SeqLen
  <2>2. layouts \subseteq DOMAIN b.layouts
    BY DEF SelectedLayouts
  <2>3. Min(layouts) \in DOMAIN b.layouts
    <3>1. layouts \subseteq Nat
      BY <2>1, <2>2
    <3> HIDE DEF layouts
    <3> QED
      BY <1>2, <2>2, <3>1, MinIn
  <2>4. LayoutList(b.layouts[Min(layouts)])
    BY <2>3
  <2>5. IsSeq(parts) /\ \A i \in DOMAIN parts :
          IsSeq(parts[i].files) /\ \A j \in DOMAIN parts[i].files : TagList(parts[i].files[j].tags)
    BY <2>4 DEF LayoutList
  <2> HIDE DEF parts
  <2>6. Len(parts) \in Nat /\ DOMAIN parts = 1 .. Len(parts)
    BY <2>5, SeqLen
  <2>7. DOMAIN rs = 1 .. Len(parts) /\ \A i \in 1 .. Len(parts) : IsOps(rs[i].ops)
    BY <2>5, <2>6, PartIsList
  <2> HIDE DEF rs
  <2>8. IsOps(JoinAll(rs).ops)
    BY <2>6, <2>7, JoinAllIsList
  <2>9. IsOps(Loaded(Filtered(JoinAll(rs).ops, pattern.storages)).ops)
    BY <2>8, FilteredIsList, LoadedIsList
  <2> QED
    BY <2>9, FailedIsList DEF LoadFlashmap, layouts, parts, rs
<1> QED
  BY <1>1, <1>2

LEMMA VerbIsList == ASSUME NEW a PROVE IsOps(LoadVerb(a).ops)
<1> DEFINE op == [NewOp(a.k) EXCEPT !.name = a.name, !.given = a.lun, !.lun = a.lun,
                                    !.start = a.start, !.len = a.len, !.table = a.table,
                                    !.file = a.file,
                                    !.label = IF a.k = "write" THEN a.file ELSE ""]
<1>1. Op(op)
  BY DEF Op, NewOp
<1>2. IsOps(Loaded(<<op>>).ops)
  BY <1>1, Single, LoadedIsList
<1> QED
  BY <1>2, FailedIsList DEF LoadVerb

LEMMA ArgumentIsList ==
  ASSUME NEW a, WellFormed(a)
  PROVE  IsOps(Load(a).ops)
<1>1. CASE a.t \in {"program", "patch", "read"}
  <2>1. \A type, allow : IsOps(LoadFile(type, a.tags, allow).ops)
    BY <1>1, FileIsList DEF WellFormed
  <2>2. Load(a) \in {LoadFile(a.t, a.tags, opts.allow_missing), Failed}
    <3> DEFINE file == LoadFile(a.t, a.tags, opts.allow_missing)
    <3>1. CASE a.t \in {"patch", "read"}
      <4>1. Load(a) = file
        BY <3>1 DEF Load, Verbs
      <4> QED
        BY <4>1
    <3>2. CASE a.t = "program"
      <4>1. a.t \notin {"patch", "read"}
        BY <3>2
      <4>2. Load(a) = IF ~opts.allow_fusing /\ SecFlashed(ops \o LoadFile(a.t, a.tags, opts.allow_missing).ops)
                        THEN Failed ELSE file
        BY <3>2, <4>1 DEF Load, Verbs
      <4> QED
        BY <4>2
    <3> QED
      BY <1>1, <3>1, <3>2
  <2> QED
    BY <2>1, <2>2, FailedIsList
<1>2. CASE a.t = "flash"
  BY <1>2, ContentsIsList, FlashmapIsList, FailedIsList DEF Load, LoadBuild, WellFormed
<1>3. CASE a.t \notin {"program", "patch", "read", "flash"}
  <2>1. IsOps(Loaded(<<NewOp("reset")>>).ops)
    BY NewIsOp, Single, LoadedIsList
  <2> QED
    BY <1>3, <2>1, VerbIsList, FailedIsList, NothingIsList DEF Load
<1> QED
  BY <1>1, <1>2, <1>3

-----------------------------------------------------------------------------
(* The list that qdl_flash() makes.                                        *)

ArgsInv == IsSeq(args) /\ \A i \in DOMAIN args : WellFormed(args[i])

\* While arguments are looked at.
BuildInv ==
  /\ ArgsInv
  /\ argi \in Nat \ {0}
  /\ hpc = "args" => IsOps(ops)

\* A list that is executed.
IsReady(s) ==
  IsOps(s) /\ \A i \in DOMAIN s :
                s[i].k \notin {"configure", "setbootable", "reset"} => s[1].k = "configure"

LEMMA ReadyAppend ==
  ASSUME NEW s, NEW o, IsReady(s), Op(o), o.k \in {"setbootable", "reset"}
  PROVE  IsReady(Append(s, o))
<1> DEFINE t == Append(s, o)
<1>1. IsOps(s) /\ IsOps(t) /\ Len(t) = Len(s) + 1 /\ t[Len(s) + 1] = o
      /\ \A i \in 1 .. Len(s) : t[i] = s[i]
  BY AppendIs DEF IsReady
<1>2. /\ Len(s) \in Nat /\ DOMAIN s = 1 .. Len(s)
      /\ Len(t) \in Nat /\ DOMAIN t = 1 .. Len(t)
  BY <1>1, SeqLen DEF IsOps
<1> HIDE DEF t
<1>3. ASSUME NEW i \in DOMAIN t, t[i].k \notin {"configure", "setbootable", "reset"}
      PROVE  t[1].k = "configure"
  <2>1. i \in 1 .. Len(s)
    BY <1>1, <1>2, <1>3
  <2>2. t[i] = s[i] /\ t[1] = s[1] /\ i \in DOMAIN s
    BY <1>1, <1>2, <2>1
  <2> QED
    BY <1>3, <2>2 DEF IsReady
<1> QED
  BY <1>1, <1>3 DEF IsReady, t

LEMMA EnsureConfiguredReady ==
  ASSUME NEW s, IsOps(s)
  PROVE  IsReady(EnsureConfigured(s))
<1> DEFINE conf == [NewOp("configure") EXCEPT !.storage = opts.storage]
<1>1. Op(conf) /\ conf.k = "configure"
  BY DEF Op, NewOp
<1>2. Len(s) \in Nat /\ DOMAIN s = 1 .. Len(s)
  BY SeqLen DEF IsOps
<1> HIDE DEF conf
<1>3. CASE s = <<>>
  <2>1. IsReady(s)
    BY <1>3 DEF IsReady
  <2> QED
    BY <1>3, <2>1 DEF EnsureConfigured
<1>4. CASE s # <<>> /\ Head(s).k = "configure"
  <2>1. s \in Seq(Range(s)) /\ Head(s) = s[1]
    BY <1>4, HeadTailProperties DEF IsOps, IsSeq
  <2> QED
    BY <1>4, <2>1 DEF EnsureConfigured, IsReady
<1>5. CASE s # <<>> /\ Head(s).k # "configure"
  <2> DEFINE t == <<conf>> \o s
  <2>1. IsOps(<<conf>>) /\ Len(<<conf>>) = 1 /\ <<conf>>[1] = conf
    BY <1>1, Single
  <2>2. IsOps(t) /\ \A i \in 1 .. Len(<<conf>>) : t[i] = <<conf>>[i]
    BY <2>1, Concat
  <2>3. t[1] = conf
    BY <2>1, <2>2
  <2> HIDE DEF t
  <2>4. IsReady(t)
    BY <1>1, <2>2, <2>3 DEF IsReady
  <2> QED
    BY <1>5, <2>4 DEF EnsureConfigured, t, conf
<1> QED
  BY <1>3, <1>4, <1>5

LEMMA WithBootableReady ==
  ASSUME NEW s, IsReady(s)
  PROVE  IsReady(WithBootable(s))
<1> DEFINE o == [NewOp("setbootable") EXCEPT !.lun = Head(Bootable(s)).lun]
<1>1. Op(o) /\ o.k = "setbootable"
  BY DEF Op, NewOp
<1> HIDE DEF o
<1>2. IsReady(Append(s, o))
  BY <1>1, ReadyAppend
<1> QED
  BY <1>2 DEF WithBootable, o

LEMMA InitBuild == Init => BuildInv /\ ListReady
<1> SUFFICES ASSUME Init PROVE BuildInv /\ ListReady
  OBVIOUS
<1>1. PICK c \in CommandLines : args = c.args
  BY DEF Init, BuildInit
<1>2. ArgsInv
  BY <1>1, CommandLineAssumption DEF ArgsInv
<1> QED
  BY <1>2, EmptyList DEF Init, BuildInit, BuildInv, ListReady

LEMMA SameArgs ==
  ASSUME UNCHANGED args
  PROVE  ArgsInv' = ArgsInv
<1>1. IsSeq(args)' = IsSeq(args)
  BY DEF IsSeq
<1>2. ASSUME NEW i PROVE WellFormed(args[i])' = WellFormed(args[i])
  <2>1. args'[i] = args[i]
    OBVIOUS
  <2> QED
    BY <2>1 DEF WellFormed, TagList, ContentsList, LayoutList, IsSeq
<1>3. (DOMAIN args)' = DOMAIN args
  OBVIOUS
<1> QED
  BY <1>1, <1>2, <1>3, Zenon DEF ArgsInv

LEMMA ArgumentBuild ==
  ASSUME BuildInv, Argument
  PROVE  BuildInv' /\ ListReady'
<1> DEFINE a == args[argi]
           r == IF argi = 1 /\ a.t # "flash" /\ ~opts.programmer THEN Failed ELSE Load(a)
<1>1. hpc = "args" /\ argi <= Len(args) /\ args' = args /\ IsOps(ops)
  BY DEF Argument, BuildInv
<1>2. Len(args) \in Nat /\ DOMAIN args = 1 .. Len(args) /\ argi \in DOMAIN args
  BY <1>1, SeqLen DEF BuildInv, ArgsInv
<1>3. IsOps(r.ops)
  <2>1. WellFormed(a)
    BY <1>2 DEF BuildInv, ArgsInv
  <2> QED
    BY <2>1, ArgumentIsList, FailedIsList
<1>4. IsOps(ops \o r.ops)
  BY <1>1, <1>3, Concat
<1>5. \/ hpc' = "end" /\ ops' = ops /\ argi' = argi
      \/ hpc' = "args" /\ ops' = ops \o r.ops /\ argi' \in {argi + 1, Len(args) + 1}
  BY <1>1 DEF Argument, Return
<1>6. argi' \in Nat \ {0}
  BY <1>2, <1>5 DEF BuildInv
<1>7. hpc' = "args" => IsOps(ops')
  BY <1>4, <1>5
<1>8. ArgsInv'
  BY <1>1, SameArgs DEF BuildInv
<1>9. IsOps(ops)' = IsOps(ops')
  BY DEF IsOps, IsSeq, Op
<1> QED
  BY <1>5, <1>6, <1>7, <1>8, <1>9 DEF BuildInv, ListReady

LEMMA CompleteBuild ==
  ASSUME BuildInv, Complete
  PROVE  BuildInv' /\ ListReady'
<1> DEFINE s == WithBootable(EnsureConfigured(ops))
<1>1. /\ hpc = "args" /\ hpc' \in {"provision", "op"} /\ UNCHANGED <<args, argi>>
      /\ ops' = IF opts.skip_reset THEN s ELSE Append(s, NewOp("reset"))
  BY DEF Complete, buildVars
<1>2. IsReady(s)
  BY <1>1, EnsureConfiguredReady, WithBootableReady DEF BuildInv
<1>3. Op(NewOp("reset")) /\ NewOp("reset").k = "reset"
  BY DEF Op, NewOp
<1> HIDE DEF s
<1>4. IsReady(ops')
  BY <1>1, <1>2, <1>3, ReadyAppend
<1>5. ListReady'
  BY <1>4 DEF IsReady, IsOps, IsSeq, Op, ListReady
<1>6. BuildInv'
  BY <1>1, SameArgs DEF BuildInv
<1> QED
  BY <1>5, <1>6

LEMMA OtherBuild ==
  ASSUME BuildInv, UNCHANGED <<args, argi>>, hpc' # "args" \/ UNCHANGED <<hpc, ops>>,
         (hpc' = "op" /\ idx' = 1) => ListReady /\ UNCHANGED <<hpc, idx, ops>>
  PROVE  BuildInv' /\ ListReady'
<1>1. ListReady'
  BY DEF ListReady, IsSeq
<1>2. IsOps(ops') = IsOps(ops)'
  BY DEF IsOps, IsSeq, Op
<1>3. BuildInv'
  BY <1>2, SameArgs DEF BuildInv
<1> QED
  BY <1>1, <1>3

LEMMA RunBuild ==
  ASSUME Inv, BuildInv, Run, UNCHANGED buildVars
  PROVE  BuildInv' /\ ListReady'
<1>1. UNCHANGED <<args, argi>>
  BY DEF buildVars
<1>2. hpc = "op" \/ hpc = "resolve" => idx \in Nat /\ idx >= 1
  BY DEF Inv, TypesInv, ListInv, Running, Resolving
<1>3. hpc' # "args" /\ ~(hpc' = "op" /\ idx' = 1)
  <2>1. CASE Configure
    BY <2>1 DEF Configure, Return
  <2>2. CASE Probe
    BY <2>2 DEF Probe
  <2>3. CASE ResolveNone
    BY <2>3, <1>2 DEF ResolveNone
  <2>4. CASE Resolve
    BY <2>4 DEF Resolve, Lookup, Return
  <2>5. CASE LoadHeader
    BY <2>5 DEF LoadHeader, NoHeader, Lookup, Return
  <2>6. CASE LoadEntries
    BY <2>6 DEF LoadEntries, Return
  <2>7. CASE Execute
    BY <2>7, <1>2 DEF Execute, Return
  <2>8. CASE PassBy
    BY <2>8, <1>2 DEF PassBy
  <2>9. CASE Reset
    BY <2>9, <1>2 DEF Reset, Return
  <2>10. CASE Finish
    BY <2>10 DEF Finish, Return
  <2> QED
    BY <2>1, <2>2, <2>3, <2>4, <2>5, <2>6, <2>7, <2>8, <2>9, <2>10 DEF Run
<1> QED
  BY <1>1, <1>3, OtherBuild

LEMMA StepBuild ==
  ASSUME Inv, BuildInv, ListReady, [Next]_vars
  PROVE  BuildInv' /\ ListReady'
<1>1. CASE Build
  <2>1. CASE Provision
    <3>1. hpc' = "end" /\ UNCHANGED <<args, argi>>
      BY <2>1 DEF Provision, Return, buildVars
    <3> QED
      BY <3>1, OtherBuild
  <2> QED
    BY <1>1, <2>1, ArgumentBuild, CompleteBuild DEF Build
<1>2. CASE Run /\ UNCHANGED buildVars
  BY <1>2, RunBuild
<1>3. CASE UNCHANGED vars
  <2>1. UNCHANGED <<args, argi, hpc, ops, idx>>
    BY <1>3 DEF vars, buildVars
  <2> QED
    BY <2>1, OtherBuild
<1> QED
  BY <1>1, <1>2, <1>3 DEF Next, Done

-----------------------------------------------------------------------------
(* What is loaded.                                                         *)

LEMMA DiskShape ==
  ASSUME disk \in Disks, storage \in Storages
  PROVE  /\ Len(disk[storage]) \in Nat /\ DOMAIN disk[storage] = 1 .. Len(disk[storage])
         /\ \A i \in DOMAIN disk[storage] :
              /\ Len(disk[storage][i].parts) \in Nat
              /\ DOMAIN disk[storage][i].parts = 1 .. Len(disk[storage][i].parts)
<1>1. /\ disk[storage] \in Seq(Range(disk[storage]))
      /\ \A t \in Range(disk[storage]) : t.parts \in Seq(Range(t.parts))
  BY GptAssumption
<1>2. \A i \in DOMAIN disk[storage] : disk[storage][i] \in Range(disk[storage])
  BY DEF Range
<1> QED
  BY <1>1, <1>2, LenProperties

LEMMA SameDisk ==
  ASSUME UNCHANGED <<disk, storage>>
  PROVE  \A l : /\ Table(l)' = Table(l) /\ LunThere(l)' = LunThere(l)
                /\ \A e : IsEntry(l, e)' = IsEntry(l, e) /\ AsLoaded(l, e)' = AsLoaded(l, e)
<1>1. ASSUME NEW l PROVE Table(l)' = Table(l) /\ LunThere(l)' = LunThere(l)
  BY DEF Table, LunThere
<1>2. ASSUME NEW l, NEW e
      PROVE  IsEntry(l, e)' = IsEntry(l, e) /\ AsLoaded(l, e)' = AsLoaded(l, e)
  BY DEF IsEntry, AsLoaded, Table
<1> QED
  BY <1>1, <1>2

LEMMA SameLoaded ==
  ASSUME UNCHANGED <<disk, storage, gpt_partitions>>
  PROVE  /\ \A l : Full(l)' = Full(l)
         /\ sector_size' = sector_size => OnDisk' = OnDisk
<1>1. \A l, e : IsEntry(l, e)' = IsEntry(l, e) /\ AsLoaded(l, e)' = AsLoaded(l, e)
  BY SameDisk
<1>2. ASSUME NEW l PROVE Full(l)' = Full(l)
  BY <1>1, Zenon DEF Full
<1>3. SectorSize[storage]' = SectorSize[storage]
  OBVIOUS
<1>4. ASSUME sector_size' = sector_size PROVE OnDisk' = OnDisk
  BY <1>1, <1>3, <1>4, Zenon DEF OnDisk
<1> QED
  BY <1>2, <1>4

\* A physical partition that is not there, or has no table, has no entry.
LEMMA NoEntry ==
  ASSUME disk \in Disks, storage \in Storages, NEW l \in Nat,
         ~LunThere(l) \/ Table(l).header # "gpt"
  PROVE  Full(l)
<1>1. Len(disk[storage]) \in Nat /\ DOMAIN disk[storage] = 1 .. Len(disk[storage])
  BY DiskShape
<1>2. ~LunThere(l) => l + 1 \notin DOMAIN disk[storage]
  BY <1>1 DEF LunThere
<1>3. \A e : ~IsEntry(l, e)
  BY <1>2 DEF IsEntry
<1> QED
  BY <1>3 DEF Full

\* The step of a run that leaves what is loaded alone and goes on with another operation,
\* or ends.
LEMMA OpStepTables ==
  ASSUME Inv, TablesInv, hpc = "op", bad' \in {bad, bad + 1},
         UNCHANGED <<ops, storage, sector_size, gpt_partitions, entry>>,
         \/ /\ hpc' = "op" /\ idx' = idx + 1
            /\ disk' = disk \/ (ops[idx].k = "write" /\ ops[idx].table # NoTable)
         \/ hpc' = "end"
  PROVE  TablesInv'
<1>1. CASE hpc' = "end"
  BY <1>1 DEF TablesInv, SelectionInv, LoadedInv, Building, Running, Resolving, Loading
<1>2. CASE hpc' = "op"
  <2>1. idx \in Nat /\ idx >= 1 /\ bad \in Nat
    BY DEF Inv, TypesInv, ListInv, Running
  <2>2. Begun = idx - 1 /\ Begun' = idx
    BY <1>2, <2>1 DEF Begun
  <2>3. 1 .. Begun \subseteq 1 .. Begun' /\ idx \in 1 .. Begun'
    BY <2>1, <2>2
  <2>4. Unwritten' => Unwritten /\ disk' = disk
    BY <2>3, <1>2 DEF Unwritten
  <2>5. OneStorage' => OneStorage
    BY <2>3 DEF OneStorage
  <2>6. SelectionInv'
    <3>1. Unwritten' => disk' \in Disks
      BY <2>4 DEF TablesInv, SelectionInv, Running
    <3>2. gpt_partitions # {} =>
            /\ storage \in Storages
            /\ \E i \in 1 .. Begun' : ops[i].k = "configure" /\ ops[i].storage = storage
      BY <2>3 DEF TablesInv, SelectionInv, Running
    <3>3. entry' \in Nat
      BY DEF TablesInv, SelectionInv
    <3> QED
      BY <3>1, <3>2, <3>3, <1>2 DEF SelectionInv, Building
  <2>7. ASSUME Unwritten', OneStorage' PROVE OnDisk' /\ AtTable' /\ NoneMissing'
    <3>1. OnDisk /\ NoneMissing /\ disk' = disk
      BY <2>4, <2>5, <2>7 DEF TablesInv, LoadedInv, Running
    <3>2. OnDisk' /\ \A l : Full(l)' = Full(l)
      BY <3>1, SameLoaded
    <3>3. bad' = 0 => bad = 0
      BY <2>1
    <3>4. NoneMissing'
      BY <3>1, <3>2, <3>3, <1>2 DEF NoneMissing, Loading
    <3> QED
      BY <3>2, <3>4, <1>2 DEF AtTable
  <2> QED
    BY <2>6, <2>7 DEF TablesInv, LoadedInv
<1> QED
  BY <1>1, <1>2

LEMMA InitTables == Init => TablesInv
BY DEF Init, BuildInit, TablesInv, SelectionInv, LoadedInv, Building, Running, Resolving, Loading

LEMMA BuildTables ==
  ASSUME Inv, TablesInv, Build, UNCHANGED runVars
  PROVE  TablesInv'
<1>1. /\ Building /\ UNCHANGED <<disk, storage, sector_size, gpt_partitions, entry, bad>>
      /\ hpc' \in {"args", "provision", "end"} \/ (hpc' = "op" /\ idx' = 1)
  BY DEF Build, Argument, Complete, Provision, Building, runVars, Return
<1>2. gpt_partitions = {} /\ disk \in Disks /\ entry \in Nat
  BY <1>1 DEF Inv, ResolveInv, TablesInv, SelectionInv
<1>3. SelectionInv'
  BY <1>1, <1>2 DEF SelectionInv, Running, Resolving, Loading
<1>4. OnDisk'
  BY <1>1, <1>2 DEF OnDisk
<1>5. AtTable' /\ (Running' => NoneMissing')
  BY <1>1, <1>2 DEF AtTable, NoneMissing, Running, Resolving, Loading
<1> QED
  BY <1>3, <1>4, <1>5 DEF TablesInv, LoadedInv

LEMMA ConfigureTables == ASSUME Inv, TablesInv, Configure PROVE TablesInv'
<1>1. /\ hpc = "op" /\ ops[idx].k = "configure" /\ idx <= Len(ops)
      /\ UNCHANGED <<ops, idx, disk, sector_size, gpt_partitions>>
      /\ entry' = 1 /\ bad' \in {bad, bad + 1}
      /\ \/ /\ storage' = ops[idx].storage /\ storage' \in Storages
            /\ hpc' \in {"probe", "resolve"} /\ (hpc' = "probe" => sector_size = 0)
         \/ hpc' = "end"
  BY DEF Configure, rest, Return, MustProbe
<1>2. CASE hpc' = "end"
  BY <1>1, <1>2 DEF TablesInv, SelectionInv, LoadedInv, Building, Running, Resolving, Loading
<1>3. CASE hpc' # "end"
  <2>1. idx \in Nat /\ idx >= 1 /\ bad \in Nat
    BY <1>1 DEF Inv, TypesInv, ListInv, Running
  <2>2. Begun = idx - 1 /\ Begun' = idx
    BY <1>1, <1>3, <2>1 DEF Begun
  <2>3. 1 .. Begun \subseteq 1 .. Begun' /\ idx \in 1 .. Begun'
    BY <2>1, <2>2
  <2>4. Unwritten' => Unwritten
    BY <2>3, <1>1 DEF Unwritten
  <2>5. ASSUME OneStorage', gpt_partitions # {} PROVE storage' = storage /\ OneStorage
    <3>1. PICK i \in 1 .. Begun : ops[i].k = "configure" /\ ops[i].storage = storage
      BY <2>5, <1>1 DEF TablesInv, SelectionInv, Running
    <3>2. storage' = storage
      BY <3>1, <2>3, <2>5, <1>1 DEF OneStorage
    <3> QED
      BY <3>2, <2>3, <2>5, <1>1 DEF OneStorage
  <2>6. SelectionInv'
    <3>1. Unwritten' => disk' \in Disks
      BY <2>4, <1>1 DEF TablesInv, SelectionInv, Running
    <3>2. \E i \in 1 .. Begun' : ops[i].k = "configure" /\ ops[i].storage = storage'
      BY <2>3, <1>1, <1>3
    <3> QED
      BY <3>1, <3>2, <1>1, <1>3 DEF SelectionInv, Building
  <2>7. ASSUME Unwritten', OneStorage' PROVE OnDisk' /\ AtTable' /\ NoneMissing'
    <3>1. CASE gpt_partitions = {}
      BY <3>1, <1>1, <1>3 DEF OnDisk, AtTable, NoneMissing, Loading
    <3>2. CASE gpt_partitions # {}
      <4>1. OnDisk /\ NoneMissing /\ storage' = storage
        BY <3>2, <2>4, <2>5, <2>7, <1>1 DEF TablesInv, LoadedInv, Running
      <4>2. OnDisk' /\ \A l : Full(l)' = Full(l)
        BY <4>1, <1>1, SameLoaded
      <4>3. bad' = 0 => bad = 0
        BY <2>1, <1>1
      <4>4. bad' = 0 => \A l \in Nat : Full(l)'
        BY <4>1, <4>2, <4>3, <3>2, <1>1 DEF NoneMissing
      <4>5. NoneMissing' /\ AtTable'
        BY <4>4, <1>1, <1>3 DEF NoneMissing, AtTable, Loading
      <4> QED
        BY <4>2, <4>5
    <3> QED
      BY <3>1, <3>2
  <2> QED
    BY <2>6, <2>7 DEF TablesInv, LoadedInv
<1> QED
  BY <1>2, <1>3

LEMMA ProbeTables == ASSUME Inv, TablesInv, Probe PROVE TablesInv'
<1>1. /\ hpc = "probe" /\ hpc' \in {"probe", "resolve"} /\ entry' = entry + 1
      /\ UNCHANGED <<ops, idx, disk, storage, gpt_partitions>>
      /\ hpc' = "probe" => sector_size' = sector_size
  BY DEF Probe, rest, Probed
<1>2. Begun' = Begun
  BY <1>1 DEF Begun
<1>3. Unwritten' = Unwritten /\ OneStorage' = OneStorage
  BY <1>1, <1>2 DEF Unwritten, OneStorage
<1>4. SelectionInv'
  BY <1>1, <1>2, <1>3 DEF TablesInv, SelectionInv, Building, Running, Resolving
<1>5. ASSUME Unwritten', OneStorage' PROVE OnDisk' /\ AtTable' /\ NoneMissing'
  <2>1. sector_size = 0 /\ OnDisk
    BY <1>1, <1>3, <1>5 DEF TablesInv, SelectionInv, LoadedInv, Running
  <2>2. gpt_partitions = {}
    <3>1. gpt_partitions # {} => storage \in Storages
      BY <1>1 DEF TablesInv, SelectionInv, Running
    <3>2. storage \in Storages => SectorSize[storage] # 0
      BY GptAssumption
    <3> QED
      BY <2>1, <3>1, <3>2 DEF OnDisk
  <2> QED
    BY <2>2, <1>1 DEF OnDisk, AtTable, NoneMissing, Loading
<1> QED
  BY <1>4, <1>5 DEF TablesInv, LoadedInv

\* The operations that are resolved keep what says where they are executed.
LEMMA LookupKinds ==
  ASSUME ListOK, def \in DOMAIN ops, Lookup
  PROVE  /\ hpc' \in {"resolve", "end"}
         /\ DOMAIN ops' = DOMAIN ops
         /\ \A i \in DOMAIN ops : /\ ops'[i].k = ops[i].k /\ ops'[i].storage = ops[i].storage
                                  /\ ops'[i].table = ops[i].table
                                  /\ ops'[i].name = ops[i].name /\ ops'[i].size = ops[i].size
<1>1. hpc' \in {"resolve", "end"}
  BY DEF Lookup, Return
<1>2. CASE UNCHANGED ops
  BY <1>1, <1>2
<1>3. CASE \E p \in gpt_partitions : ops' = [ops EXCEPT ![def] = MovedTo(@, p)]
  <2>1. PICK p \in gpt_partitions : ops' = [ops EXCEPT ![def] = MovedTo(@, p)]
    BY <1>3
  <2>2. /\ DOMAIN ops' = DOMAIN ops /\ ops'[def] = MovedTo(ops[def], p)
        /\ \A j \in DOMAIN ops : j # def => ops'[j] = ops[j]
    BY <2>1, Moved DEF ListOK
  <2>3. /\ ops'[def].k = ops[def].k /\ ops'[def].storage = ops[def].storage
        /\ ops'[def].table = ops[def].table
        /\ ops'[def].name = ops[def].name /\ ops'[def].size = ops[def].size
    BY <2>2, MovedFields DEF ListOK, IsList
  <2> QED
    BY <1>1, <2>2, <2>3
<1> QED
  BY <1>2, <1>3 DEF Lookup

\* A step between the names of the list, or the sectors of the tables, selects nothing.
LEMMA SameSelection ==
  ASSUME Inv, TablesInv, Resolving, UNCHANGED <<disk, storage, sector_size>>, entry' \in Nat,
         \/ hpc' \in {"resolve", "header", "entries"} /\ idx' = idx
         \/ hpc' = "op" /\ idx' = idx + 1,
         DOMAIN ops' = DOMAIN ops,
         \A i \in DOMAIN ops : /\ ops'[i].k = ops[i].k /\ ops'[i].storage = ops[i].storage
                               /\ ops'[i].table = ops[i].table
  PROVE  SelectionInv' /\ (Unwritten' => Unwritten) /\ (OneStorage' => OneStorage)
<1>1. /\ ListOK /\ idx \in Nat /\ idx >= 1 /\ idx <= Len(ops) /\ ops[idx].k = "configure"
      /\ ops[idx].storage = storage /\ storage \in Storages
  BY DEF Inv, TypesInv, ListInv, TablesInv, SelectionInv, Running, Resolving, Loading
<1>2. DOMAIN ops = 1 .. Len(ops) /\ Len(ops) \in Nat
  BY <1>1, ListLen DEF ListOK
<1>3. Begun = idx /\ Begun' = idx
  BY <1>1 DEF Begun, Resolving, Loading
<1>4. 1 .. idx \subseteq DOMAIN ops /\ idx \in 1 .. idx
  BY <1>1, <1>2
<1>5. Unwritten' => Unwritten
  BY <1>3, <1>4 DEF Unwritten
<1>6. OneStorage' => OneStorage
  BY <1>3, <1>4 DEF OneStorage
<1>7. Unwritten' => disk' \in Disks
  BY <1>5 DEF TablesInv, SelectionInv, Running
<1>8. ops'[idx].k = "configure" /\ ops'[idx].storage = storage'
  BY <1>1, <1>4
<1>9. \E i \in 1 .. Begun' : ops'[i].k = "configure" /\ ops'[i].storage = storage'
  BY <1>3, <1>4, <1>8
<1>10. hpc' # "op" => ops[idx].storage' = storage'
  BY <1>8
<1> QED
  BY <1>1, <1>5, <1>6, <1>7, <1>9, <1>10 DEF SelectionInv, Building

\* What is known of the tables where nothing was written and one storage selected.
LEMMA KnownTables ==
  ASSUME TablesInv, Resolving, Unwritten, OneStorage
  PROVE  disk \in Disks /\ storage \in Storages /\ OnDisk /\ AtTable /\ NoneMissing
BY DEF TablesInv, SelectionInv, LoadedInv, Running, Resolving, Loading

LEMMA EndTables ==
  ASSUME TablesInv, hpc' = "end", entry' \in Nat
  PROVE  TablesInv'
BY DEF TablesInv, SelectionInv, LoadedInv, Building, Running, Resolving, Loading

\* The step that goes on with the names of the list.
LEMMA NameStepTables ==
  ASSUME Inv, TablesInv, Resolving,
         UNCHANGED <<disk, storage, sector_size, gpt_partitions, entry>>,
         \/ hpc' = "resolve" /\ idx' = idx
         \/ hpc' = "op" /\ idx' = idx + 1,
         DOMAIN ops' = DOMAIN ops,
         \A i \in DOMAIN ops : /\ ops'[i].k = ops[i].k /\ ops'[i].storage = ops[i].storage
                               /\ ops'[i].table = ops[i].table,
         Unwritten /\ OneStorage /\ bad' = 0 /\ gpt_partitions # {} => \A l \in Nat : Full(l)
  PROVE  TablesInv'
<1>1. entry' \in Nat
  BY DEF TablesInv, SelectionInv
<1>2. SelectionInv' /\ (Unwritten' => Unwritten) /\ (OneStorage' => OneStorage)
  BY <1>1, SameSelection
<1>3. ASSUME Unwritten', OneStorage' PROVE OnDisk' /\ AtTable' /\ NoneMissing'
  <2>1. OnDisk
    BY <1>2, <1>3, KnownTables
  <2>2. OnDisk' /\ \A l : Full(l)' = Full(l)
    BY <2>1, SameLoaded
  <2>3. bad' = 0 /\ gpt_partitions # {} => \A l \in Nat : Full(l)'
    BY <2>2, <1>2, <1>3
  <2> QED
    BY <2>2, <2>3 DEF AtTable, NoneMissing, Loading
<1> QED
  BY <1>2, <1>3 DEF TablesInv, LoadedInv

LEMMA ResolveNoneTables == ASSUME Inv, TablesInv, ResolveNone PROVE TablesInv'
<1>1. /\ hpc = "resolve"
      /\ UNCHANGED <<ops, disk, storage, sector_size, gpt_partitions, entry, bad>>
      /\ \/ hpc' = "resolve" /\ idx' = idx
         \/ hpc' = "op" /\ idx' = idx + 1
  BY DEF ResolveNone
<1>2. Unwritten /\ OneStorage /\ bad' = 0 /\ gpt_partitions # {} => \A l \in Nat : Full(l)
  BY <1>1, KnownTables DEF NoneMissing, Resolving
<1> QED
  BY <1>1, <1>2, NameStepTables DEF Resolving

LEMMA ResolveTables == ASSUME Inv, TablesInv, Resolve PROVE TablesInv'
<1>1. /\ hpc = "resolve" /\ def <= Len(ops)
      /\ UNCHANGED <<idx, disk, storage, sector_size, gpt_partitions, entry, bad>>
  BY DEF Resolve
<1>2. ListOK /\ def \in DOMAIN ops /\ entry' \in Nat
  <2>1. ListOK
    BY <1>1 DEF Inv, ListInv, Running, Resolving
  <2> QED
    BY <1>1, <2>1, ListLen DEF ListOK, Inv, TypesInv, TablesInv, SelectionInv
<1>3. CASE TablesLoaded
  <2>1. Lookup
    BY <1>3 DEF Resolve
  <2>2. Unwritten /\ OneStorage /\ bad' = 0 /\ gpt_partitions # {} => \A l \in Nat : Full(l)
    BY <1>1, KnownTables DEF NoneMissing, Resolving
  <2> QED
    BY <2>1, <2>2, <1>1, <1>2, LookupKinds, NameStepTables, EndTables DEF Resolving
<1>4. CASE ~TablesLoaded
  <2>1. hpc' = "header" /\ lun' = 0 /\ UNCHANGED ops
    BY <1>4 DEF Resolve
  <2>2. gpt_partitions = {}
    BY <1>4 DEF TablesLoaded
  <2>3. SelectionInv'
    BY <2>1, <1>1, <1>2, SameSelection DEF Resolving
  <2>4. OnDisk' /\ AtTable' /\ NoneMissing'
    BY <2>1, <2>2, <1>1 DEF OnDisk, AtTable, NoneMissing
  <2> QED
    BY <2>3, <2>4 DEF TablesInv, LoadedInv
<1> QED
  BY <1>3, <1>4

LEMMA LoadHeaderTables == ASSUME Inv, TablesInv, LoadHeader PROVE TablesInv'
<1>1. /\ hpc = "header" /\ bad \in Nat /\ lun \in Nat
      /\ UNCHANGED <<idx, disk, storage, sector_size, gpt_partitions>>
      /\ entry' \in Nat /\ Resolving
  BY DEF LoadHeader, Inv, TypesInv, TablesInv, SelectionInv, Resolving, Loading
<1>2. ListOK /\ def \in DOMAIN ops
  BY <1>1 DEF Inv, ListInv, ResolveInv, FirstName, Running, Loading
<1>3. CASE ReadFails(lun, sector_size) /\ NoHeader /\ UNCHANGED entry
  <2>1. ASSUME Unwritten, OneStorage, bad' = 0, gpt_partitions # {}, NEW l \in Nat
        PROVE  Full(l)
    <3>1. disk \in Disks /\ storage \in Storages /\ OnDisk /\ NoneMissing
      BY <2>1, <1>1, KnownTables
    <3>2. bad = 0 /\ ~LunThere(lun)
      BY <3>1, <2>1, <1>1, <1>3 DEF ReadFails, OnDisk
    <3>3. CASE l < lun
      BY <3>1, <3>2, <3>3, <1>1 DEF NoneMissing, Loading
    <3>4. CASE ~(l < lun)
      <4>1. ~LunThere(l)
        BY <3>1, <3>2, <3>4, <1>1, DiskShape DEF LunThere
      <4> QED
        BY <4>1, <3>1, NoEntry
    <3> QED
      BY <3>3, <3>4
  <2>2. Lookup
    BY <1>3 DEF NoHeader
  <2> QED
    BY <2>1, <2>2, <1>1, <1>2, <1>3, LookupKinds, NameStepTables, EndTables
<1>4. CASE /\ ReadWorks(lun, sector_size) /\ hpc' = "header" /\ lun' = lun + 1
           /\ Table(lun).header # "gpt" /\ UNCHANGED ops
  <2>1. SelectionInv' /\ (Unwritten' => Unwritten) /\ (OneStorage' => OneStorage)
    BY <1>1, <1>4, SameSelection
  <2>2. ASSUME Unwritten', OneStorage' PROVE OnDisk' /\ AtTable' /\ NoneMissing'
    <3>1. disk \in Disks /\ storage \in Storages /\ OnDisk /\ NoneMissing
      BY <2>1, <2>2, <1>1, KnownTables
    <3>2. OnDisk' /\ \A l : Full(l)' = Full(l)
      BY <3>1, <1>1, SameLoaded
    <3>3. bad' = 0 => \A l \in Nat : l < lun + 1 => Full(l)
      <4>1. bad' = 0 => \A l \in Nat : l < lun => Full(l)
        BY <3>1, <1>1, <1>4 DEF NoneMissing, Loading, ReadWorks
      <4>2. Full(lun)
        BY <3>1, <1>1, <1>4, NoEntry
      <4>3. \A l \in Nat : l < lun + 1 => l < lun \/ l = lun
        BY <1>1
      <4> QED
        BY <4>1, <4>2, <4>3
    <3>4. bad' = 0 => \A l \in Nat : l < lun' => Full(l)'
      BY <3>2, <3>3, <1>4
    <3> QED
      BY <3>2, <3>4, <1>4 DEF AtTable, NoneMissing
  <2> QED
    BY <2>1, <2>2 DEF TablesInv, LoadedInv
<1>5. CASE /\ ReadWorks(lun, sector_size) /\ hpc' = "entries" /\ entry' = 0
           /\ Table(lun).header = "gpt" /\ UNCHANGED <<ops, lun>>
  <2>1. SelectionInv' /\ (Unwritten' => Unwritten) /\ (OneStorage' => OneStorage)
    BY <1>1, <1>5, SameSelection
  <2>2. ASSUME Unwritten', OneStorage' PROVE OnDisk' /\ AtTable' /\ NoneMissing'
    <3>1. disk \in Disks /\ storage \in Storages /\ OnDisk /\ NoneMissing
      BY <2>1, <2>2, <1>1, KnownTables
    <3>2. OnDisk' /\ \A l : Full(l)' = Full(l)
      BY <3>1, <1>1, SameLoaded
    <3>3. AtTable'
      <4>1. LunThere(lun) /\ sector_size = SectorSize[storage]
        BY <1>5 DEF ReadWorks
      <4>2. Table(lun)' = Table(lun) /\ LunThere(lun)' = LunThere(lun)
        BY <1>1, <1>5 DEF Table, LunThere
      <4> QED
        BY <4>1, <4>2, <1>1, <1>5 DEF AtTable
    <3>4. bad' = 0 => \A l \in Nat : l < lun' => Full(l)'
      BY <3>1, <3>2, <1>1, <1>5 DEF NoneMissing, Loading, ReadWorks
    <3>5. \A e \in Nat : ~(e <= 0 /\ IsEntry(lun, e)')
      <4>1. ASSUME NEW e, IsEntry(lun, e) PROVE e \in Nat /\ e > 0
        <5>1. /\ lun + 1 \in DOMAIN disk[storage]
              /\ e \in DOMAIN disk[storage][lun + 1].parts
          BY <4>1 DEF IsEntry, Table
        <5>2. e \in 1 .. Len(disk[storage][lun + 1].parts) /\ Len(disk[storage][lun + 1].parts) \in Nat
          BY <3>1, <5>1, DiskShape
        <5> QED
          BY <5>2
      <4>2. PICK l : l = lun
        OBVIOUS
      <4>3. \A e : IsEntry(l, e)' = IsEntry(l, e)
        BY <1>1, SameDisk
      <4>4. \A e : IsEntry(lun, e)' = IsEntry(l, e)'
        BY <4>2, <1>5 DEF IsEntry, Table
      <4> QED
        BY <4>1, <4>2, <4>3, <4>4
    <3>6. \A e \in Nat : ~(e <= entry' /\ IsEntry(lun, e)')
      BY <3>5, <1>5
    <3> QED
      BY <3>2, <3>3, <3>4, <3>6, <1>5 DEF NoneMissing
  <2> QED
    BY <2>1, <2>2 DEF TablesInv, LoadedInv
<1>6. CASE hpc' = "end"
  BY <1>1, <1>6, EndTables
<1> QED
  BY <1>1, <1>3, <1>4, <1>5, <1>6 DEF LoadHeader, PassOver, Return

\* The table that is being loaded.
LEMMA TableShape ==
  ASSUME disk \in Disks, storage \in Storages, lun \in Nat, LunThere(lun)
  PROVE  /\ lun + 1 \in DOMAIN disk[storage]
         /\ Len(Table(lun).parts) \in Nat
         /\ DOMAIN Table(lun).parts = 1 .. Len(Table(lun).parts)
<1>1. lun + 1 \in DOMAIN disk[storage]
  BY DiskShape DEF LunThere
<1> QED
  BY <1>1, DiskShape DEF Table

LEMMA LoadEntriesTables == ASSUME Inv, TablesInv, LoadEntries PROVE TablesInv'
<1>1. /\ hpc = "entries" /\ bad \in Nat /\ lun \in Nat /\ entry \in Nat
      /\ UNCHANGED <<ops, idx, disk, storage, sector_size>>
      /\ Resolving /\ PerSector \in Nat \ {0}
  BY GptAssumption
  DEF LoadEntries, rest, Inv, TypesInv, TablesInv, SelectionInv, Resolving, Loading
<1>2. CASE /\ entry >= Len(Table(lun).parts) /\ hpc' = "header" /\ lun' = lun + 1
           /\ UNCHANGED <<gpt_partitions, entry, bad>>
  <2>1. SelectionInv' /\ (Unwritten' => Unwritten) /\ (OneStorage' => OneStorage)
    BY <1>1, <1>2, SameSelection
  <2>2. ASSUME Unwritten', OneStorage' PROVE OnDisk' /\ AtTable' /\ NoneMissing'
    <3>1. disk \in Disks /\ storage \in Storages /\ OnDisk /\ AtTable /\ NoneMissing
      BY <2>1, <2>2, <1>1, KnownTables
    <3>2. OnDisk' /\ \A l : Full(l)' = Full(l)
      BY <3>1, <1>1, <1>2, SameLoaded
    <3>3. bad = 0 => \A l \in Nat : l < lun + 1 => Full(l)
      <4>1. bad = 0 => \A l \in Nat : l < lun => Full(l)
        BY <3>1, <1>1 DEF NoneMissing, Loading
      <4>2. bad = 0 => Full(lun)
        <5>1. ASSUME NEW e \in Nat, IsEntry(lun, e) PROVE e <= entry
          <6>1. /\ Len(Table(lun).parts) \in Nat
                /\ DOMAIN Table(lun).parts = 1 .. Len(Table(lun).parts)
            BY <3>1, <1>1, TableShape DEF AtTable
          <6>2. e \in DOMAIN Table(lun).parts
            BY <5>1 DEF IsEntry
          <6> QED
            BY <6>1, <6>2, <1>1, <1>2
        <5>2. bad = 0 => \A e \in Nat : e <= entry /\ IsEntry(lun, e) =>
                                          AsLoaded(lun, e) \in gpt_partitions
          BY <3>1, <1>1 DEF NoneMissing
        <5> QED
          BY <5>1, <5>2 DEF Full
      <4>3. \A l \in Nat : l < lun + 1 => l < lun \/ l = lun
        BY <1>1
      <4> QED
        BY <4>1, <4>2, <4>3
    <3>4. bad' = 0 => \A l \in Nat : l < lun' => Full(l)'
      BY <3>2, <3>3, <1>2
    <3> QED
      BY <3>2, <3>4, <1>2 DEF AtTable, NoneMissing
  <2> QED
    BY <2>1, <2>2 DEF TablesInv, LoadedInv
<1>3. CASE hpc' = "end" /\ UNCHANGED entry
  BY <1>1, <1>3, EndTables
<1>4. CASE /\ gpt_partitions' = gpt_partitions \cup {Partition(i) : i \in InSector}
           /\ entry' = entry + PerSector /\ UNCHANGED <<hpc, lun, bad>>
  <2>1. SelectionInv' /\ (Unwritten' => Unwritten) /\ (OneStorage' => OneStorage)
    BY <1>1, <1>4, SameSelection
  <2>2. ASSUME Unwritten', OneStorage' PROVE OnDisk' /\ AtTable' /\ NoneMissing'
    <3>1. disk \in Disks /\ storage \in Storages /\ OnDisk /\ AtTable /\ NoneMissing
      BY <2>1, <2>2, <1>1, KnownTables
    <3>2. /\ LunThere(lun) /\ Table(lun).header = "gpt" /\ sector_size = SectorSize[storage]
          /\ lun + 1 \in DOMAIN disk[storage]
          /\ Len(Table(lun).parts) \in Nat
          /\ DOMAIN Table(lun).parts = 1 .. Len(Table(lun).parts)
      BY <3>1, <1>1, TableShape DEF AtTable
    <3>3. \A l, e : IsEntry(l, e)' = IsEntry(l, e) /\ AsLoaded(l, e)' = AsLoaded(l, e)
      BY <1>1, SameDisk
    <3>4. \A i \in InSector : i \in Nat /\ IsEntry(lun, i) /\ Partition(i) = AsLoaded(lun, i)
      <4>1. ASSUME NEW i \in InSector PROVE i \in Nat /\ IsEntry(lun, i)
        <5>1. i \in DOMAIN Table(lun).parts
          BY <4>1 DEF InSector
        <5>2. i \in Nat
          BY <5>1, <3>2
        <5>3. Table(lun).parts[i].name # ""
          BY <4>1 DEF InSector
        <5> QED
          BY <5>1, <5>2, <5>3, <3>2 DEF IsEntry
      <4>2. \A i : Partition(i) = AsLoaded(lun, i)
        BY DEF Partition, AsLoaded
      <4> QED
        BY <4>1, <4>2
    <3>5. OnDisk'
      <4>1. \A p \in gpt_partitions' : \E l, e \in Nat : IsEntry(l, e) /\ p = AsLoaded(l, e)
        BY <3>1, <3>4, <1>1, <1>4 DEF OnDisk
      <4>2. \A p \in gpt_partitions' : \E l, e \in Nat : IsEntry(l, e)' /\ p = AsLoaded(l, e)'
        BY <4>1, <3>3
      <4> QED
        BY <4>2, <3>2, <1>1 DEF OnDisk
    <3>6. AtTable'
      BY <3>1, <1>1, <1>4 DEF AtTable, LunThere, Table
    <3>7. bad' = 0 => \A l \in Nat : l < lun' => Full(l)'
      <4>1. ASSUME NEW l \in Nat, Full(l) PROVE Full(l)'
        BY <4>1, <3>3, <1>4 DEF Full
      <4> QED
        BY <4>1, <3>1, <1>1, <1>4 DEF NoneMissing, Loading
    <3>8. ASSUME bad' = 0, NEW e \in Nat, e <= entry + PerSector, IsEntry(lun, e)
          PROVE  AsLoaded(lun, e) \in gpt_partitions'
      <4>1. CASE e <= entry
        BY <4>1, <3>8, <3>1, <1>1, <1>4 DEF NoneMissing
      <4>2. CASE ~(e <= entry)
        <5>1. e \in entry + 1 .. entry + PerSector
          BY <4>2, <3>8, <1>1
        <5>2. e \in InSector
          BY <5>1, <3>8 DEF InSector, IsEntry
        <5> QED
          BY <5>2, <3>4, <1>4
      <4> QED
        BY <4>1, <4>2
    <3>9. bad' = 0 => \A e \in Nat : e <= entry' /\ IsEntry(lun, e)' =>
                                       AsLoaded(lun, e)' \in gpt_partitions'
      <4>1. PICK l : l = lun
        OBVIOUS
      <4>2. \A e : IsEntry(lun, e)' = IsEntry(l, e)' /\ AsLoaded(lun, e)' = AsLoaded(l, e)'
        BY <4>1, <1>4 DEF IsEntry, AsLoaded, Table
      <4>3. \A e : IsEntry(lun, e)' = IsEntry(lun, e) /\ AsLoaded(lun, e)' = AsLoaded(lun, e)
        BY <4>1, <4>2, <3>3
      <4> QED
        BY <4>3, <3>8, <1>4
    <3>10. NoneMissing'
      BY <3>7, <3>9, <1>1, <1>4 DEF NoneMissing
    <3> QED
      BY <3>5, <3>6, <3>10
  <2> QED
    BY <2>1, <2>2 DEF TablesInv, LoadedInv
<1> QED
  BY <1>2, <1>3, <1>4 DEF LoadEntries, NextEntries, Return, ReadWorks

LEMMA ExecuteTables == ASSUME Inv, TablesInv, Execute PROVE TablesInv'
<1>1. /\ hpc = "op" /\ bad' \in {bad, bad + 1}
      /\ UNCHANGED <<ops, storage, sector_size, gpt_partitions, entry>>
      /\ \/ hpc' = "op" /\ idx' = idx + 1 /\ Effect(ops[idx])
         \/ hpc' = "end"
  BY DEF Execute, ReadFails, ReadWorks, Return
<1>2. Effect(ops[idx]) => disk' = disk \/ (ops[idx].k = "write" /\ ops[idx].table # NoTable)
  BY DEF Effect
<1> QED
  BY <1>1, <1>2, OpStepTables

LEMMA PassByTables == ASSUME Inv, TablesInv, PassBy PROVE TablesInv'
BY OpStepTables DEF PassBy, runVars

LEMMA ResetTables == ASSUME Inv, TablesInv, Reset PROVE TablesInv'
BY OpStepTables DEF Reset, Return

LEMMA FinishTables == ASSUME Inv, TablesInv, Finish PROVE TablesInv'
BY OpStepTables DEF Finish, runVars, Return

LEMMA StutterTables == ASSUME TablesInv, UNCHANGED vars PROVE TablesInv'
<1>1. /\ UNCHANGED <<ops, idx, hpc, disk, storage, sector_size, gpt_partitions, lun, entry, bad>>
  BY DEF vars, runVars
<1>2. Begun' = Begun /\ Building' = Building /\ Running' = Running /\ Loading' = Loading
  BY <1>1 DEF Begun, Building, Running, Resolving, Loading
<1>3. Unwritten' = Unwritten /\ OneStorage' = OneStorage
  BY <1>1, <1>2 DEF Unwritten, OneStorage
<1>4. SelectionInv'
  BY <1>1, <1>2, <1>3 DEF TablesInv, SelectionInv
<1>5. OnDisk' = OnDisk /\ \A l : Full(l)' = Full(l)
  BY <1>1, SameLoaded
<1>6. AtTable' = AtTable
  BY <1>1 DEF AtTable, LunThere, Table
<1>7. NoneMissing' = NoneMissing
  BY <1>1, <1>2 DEF NoneMissing, Full, IsEntry, AsLoaded, Table
<1> QED
  BY <1>2, <1>3, <1>4, <1>5, <1>6, <1>7 DEF TablesInv, LoadedInv

LEMMA StepTables == ASSUME Inv, TablesInv, [Next]_vars PROVE TablesInv'
<1>1. CASE Build /\ UNCHANGED runVars
  BY <1>1, BuildTables
<1>2. CASE Run
  BY <1>2, ConfigureTables, ProbeTables, ResolveNoneTables, ResolveTables, LoadHeaderTables,
     LoadEntriesTables, ExecuteTables, PassByTables, ResetTables, FinishTables DEF Run
<1>3. CASE UNCHANGED vars
  BY <1>3, StutterTables
<1> QED
  BY <1>1, <1>2, <1>3 DEF Next, Done

-----------------------------------------------------------------------------
(* What follows.                                                           *)

\* For every command line: the list that qdl_flash() in src/src/qdl.c hands to
\* firehose_run() is one of operations, none in front of the first configure but those
\* that address nothing; a name in it has the physical partition that was given.
THEOREM ListsAreReady == Spec => [](Inv /\ ListReady)
<1>1. Inv /\ BuildInv /\ ListReady /\ [Next]_vars => BuildInv' /\ ListReady'
  BY StepBuild
<1>2. Inv /\ [Next]_vars /\ ListReady' => Inv'
  BY StepInv
<1> QED
  BY <1>1, <1>2, InitInv, InitBuild, PTL DEF Spec

\* The invariant, for every command line and every disk.
THEOREM Invariance == Spec => [](Inv /\ TablesInv)
<1>1. Inv /\ TablesInv /\ [Next]_vars => TablesInv'
  BY StepTables
<1> QED
  BY <1>1, ListsAreReady, InitTables, PTL DEF Spec

\* For every command line, every disk and every run of the device:
\* no operation reaches the device before every name in the list has been resolved to
\* the place of a partition of that name (firehose_execute_ops(), gpt_resolve_deferrals()
\* in src/src).
THEOREM NamesResolvedFirst == Spec => []ResolvedFirst
<1>1. Inv => ResolvedFirst
  BY DEF Inv, ResolveInv, All, Resolved, Only, ResolvedFirst, Placed
<1> QED
  BY <1>1, Invariance, PTL

\* A partition that an operation may mean is an entry of the tables, and the other way
\* around.
LEMMA MeantIsEntry ==
  ASSUME disk \in Disks, storage \in Storages, NEW o, Deferred(o), NEW g
  PROVE  /\ \A l, e \in Nat : IsEntry(l, e) /\ Table(l).parts[e].name = o.name /\ g \in {-1, l} =>
              <<l + 1, e>> \in Meant(storage, o.name, g)
         /\ \A q \in Meant(storage, o.name, g) : \E l, e \in Nat :
              /\ q = <<l + 1, e>> /\ IsEntry(l, e)
              /\ Table(l).parts[e].name = o.name /\ g \in {-1, l}
<1> \A l \in Nat : (l + 1) - 1 = l
  OBVIOUS
<1>1. ASSUME NEW l \in Nat, NEW e \in Nat,
             IsEntry(l, e), Table(l).parts[e].name = o.name, g \in {-1, l}
      PROVE  <<l + 1, e>> \in Meant(storage, o.name, g)
  <2>1. g \in {-1, (l + 1) - 1}
    BY <1>1
  <2>2. /\ l + 1 \in DOMAIN disk[storage] /\ disk[storage][l + 1].header = "gpt"
        /\ e \in DOMAIN disk[storage][l + 1].parts
        /\ disk[storage][l + 1].parts[e].name = o.name
    BY <1>1 DEF IsEntry, Table
  <2>3. l + 1 \in {k \in DOMAIN disk[storage] : disk[storage][k].header = "gpt" /\ g \in {-1, k - 1}}
    BY <2>1, <2>2
  <2>4. <<l + 1, e>> \in {<<l + 1, j>> : j \in {k \in DOMAIN disk[storage][l + 1].parts :
                                                   disk[storage][l + 1].parts[k].name = o.name}}
    BY <2>2
  <2> QED
    BY <2>3, <2>4 DEF Meant
<1>2. ASSUME NEW q \in Meant(storage, o.name, g)
      PROVE  \E l, e \in Nat : /\ q = <<l + 1, e>> /\ IsEntry(l, e)
                               /\ Table(l).parts[e].name = o.name /\ g \in {-1, l}
  <2>1. PICK i \in DOMAIN disk[storage] :
          /\ disk[storage][i].header = "gpt" /\ g \in {-1, i - 1}
          /\ \E j \in DOMAIN disk[storage][i].parts :
               q = <<i, j>> /\ disk[storage][i].parts[j].name = o.name
    BY DEF Meant
  <2>2. PICK j \in DOMAIN disk[storage][i].parts :
          q = <<i, j>> /\ disk[storage][i].parts[j].name = o.name
    BY <2>1
  <2>3. /\ DOMAIN disk[storage] = 1 .. Len(disk[storage]) /\ Len(disk[storage]) \in Nat
        /\ DOMAIN disk[storage][i].parts = 1 .. Len(disk[storage][i].parts)
        /\ Len(disk[storage][i].parts) \in Nat
    BY DiskShape
  <2>4. i - 1 \in Nat /\ (i - 1) + 1 = i
    BY <2>3
  <2>5. j \in Nat
    BY <2>3
  <2>6. /\ q = <<(i - 1) + 1, j>> /\ IsEntry(i - 1, j)
        /\ Table(i - 1).parts[j].name = o.name
    BY <2>1, <2>2, <2>4 DEF IsEntry, Table, Deferred
  <2> QED
    BY <2>1, <2>4, <2>5, <2>6
<1> QED
  BY <1>1, <1>2

\* For every command line, every disk and every run of the device:
\* an operation on a named partition is executed where the tables have a partition of
\* that name, the only one on the first physical partition that has one, if every sector
\* that can be read was (gpt_load_tables(), gpt_find_by_name() in src/src/gpt.c).
THEOREM NamesMeanPlaces == Spec => NamedPlace
<1>1. ASSUME Inv, TablesInv, Next, NamedAccess, SameTables
      PROVE  InPlace(ops[idx])
  <2> DEFINE o == ops[idx]
             meant == Meant(storage, o.name, o.given)
  <2>1. Execute
    BY <1>1 DEF NamedAccess, Next, Run, runVars, Done, vars, Configure, Probe, ResolveNone,
       Resolve, LoadHeader, LoadEntries, PassBy, Reset, Finish, rest
  <2>2. hpc = "op" /\ idx <= Len(ops) /\ Touches(o) /\ Deferred(o)
    BY <1>1, <2>1 DEF Execute, NamedAccess
  <2>3. ListOK /\ idx >= 1 /\ idx \in Nat
    BY <1>1, <2>2 DEF Inv, TypesInv, ListInv, Running
  <2>4. idx \in DOMAIN ops
    BY <2>2, <2>3, ListLen DEF ListOK
  <2>5. PICK p \in gpt_partitions : Only(o, p)
    <3>1. o.k \notin {"configure", "setbootable", "reset"}
      BY <2>2 DEF Touches
    <3>2. ops[1].k = "configure" /\ idx > 1
      BY <2>3, <2>4, <3>1 DEF ListOK
    <3>3. All
      BY <1>1, <2>2, <3>2 DEF Inv, ResolveInv
    <3> QED
      BY <2>2, <2>4, <3>3 DEF All, Resolved
  <2>6. disk \in Disks /\ storage \in Storages /\ OnDisk /\ NoneMissing
    <3>1. Unwritten /\ OneStorage
      BY <1>1, <2>2 DEF SameTables, Unwritten, OneStorage, Begun
    <3> QED
      BY <1>1, <2>2, <2>5, <3>1 DEF TablesInv, SelectionInv, LoadedInv, Running
  <2>7. PICK l \in Nat, e \in Nat : IsEntry(l, e) /\ p = AsLoaded(l, e)
    BY <2>5, <2>6 DEF OnDisk
  <2>8. /\ p.name = Table(l).parts[e].name /\ p.lun = l /\ p.entry = e
        /\ p.start = Table(l).parts[e].start
    BY <2>7 DEF AsLoaded
  <2>9. /\ p.name = o.name /\ o.given \in {-1, l} /\ o.lun = l /\ o.start = p.start
        /\ \A r \in gpt_partitions : Matches(o, r) => r = p \/ r.lun > l
    BY <2>5, <2>8 DEF Only, Matches
  <2>10. <<l + 1, e>> \in meant
    BY <2>2, <2>6, <2>7, <2>8, <2>9, MeantIsEntry
  <2>11. PlaceOf(storage, <<l + 1, e>>) = [lun |-> o.lun, start |-> o.start]
    <3>1. (l + 1) - 1 = l
      OBVIOUS
    <3> QED
      BY <2>8, <2>9, <3>1 DEF PlaceOf, Table
  <2>12. ASSUME bad = 0, NEW r \in meant PROVE r = <<l + 1, e>> \/ r[1] > l + 1
    <3>1. PICK m \in Nat, f \in Nat :
            /\ r = <<m + 1, f>> /\ IsEntry(m, f)
            /\ Table(m).parts[f].name = o.name /\ o.given \in {-1, m}
      <4>1. \A q \in meant : \E m, f \in Nat :
              /\ q = <<m + 1, f>> /\ IsEntry(m, f)
              /\ Table(m).parts[f].name = o.name /\ o.given \in {-1, m}
        BY <2>2, <2>6, MeantIsEntry
      <4> QED
        BY <2>12, <4>1
    <3>2. AsLoaded(m, f) \in gpt_partitions
      BY <2>2, <2>5, <2>6, <2>12, <3>1 DEF NoneMissing, Full
    <3>3. /\ AsLoaded(m, f).lun = m /\ AsLoaded(m, f).entry = f
          /\ Matches(o, AsLoaded(m, f))
      BY <3>1 DEF AsLoaded, Matches
    <3>4. (m = l /\ f = e) \/ m > l
      BY <2>8, <2>9, <3>2, <3>3
    <3>5. CASE m = l /\ f = e
      BY <3>1, <3>5
    <3>6. CASE m > l
      BY <3>1, <3>6
    <3> QED
      BY <3>4, <3>5, <3>6
  <2>13. <<l + 1, e>>[1] = l + 1
    OBVIOUS
  <2> QED
    BY <2>10, <2>11, <2>12, <2>13 DEF InPlace
<1>2. Inv /\ TablesInv /\ [Next]_vars => [NamedAccess /\ SameTables => InPlace(ops[idx])]_vars
  BY <1>1
<1>3. Spec => [][Next]_vars
  BY DEF Spec
<1> QED
  BY <1>2, <1>3, Invariance, PTL DEF NamedPlace

-----------------------------------------------------------------------------
(* Where a list that is good ends.                                         *)

First == ops[1].storage

\* The storage is that of the last configure that was begun.
Selected ==
  \E c \in 1 .. Begun :
    /\ ops[c].k = "configure" /\ ops[c].storage = storage
    /\ \A j \in c + 1 .. Begun : ops[j].k # "configure"

\* What the disk holds may change, but not how much.
Shape ==
  /\ disk \in [Storages -> Range(disk)]
  /\ \A s \in Storages : disk[s] \in Seq(Range(disk[s]))

\* A size that is still to be tried is that of the storage.
SizeAhead == \E i \in DOMAIN Sizes : i >= entry /\ Sizes[i] = SectorSize[storage]

\* The sector size of the first storage is found, and kept.
SizeKnown ==
  bad = 0 /\ Begun >= 1 /\ SizeFound(First) =>
    IF hpc = "probe" THEN idx = 1 /\ SizeAhead ELSE sector_size = SectorSize[First]

\* The list behind its first configure.
BehindFirst ==
  /\ \A i \in DOMAIN ops : Deferred(ops[i]) => ops[i].size = 0
  /\ Begun >= 1 => First \in Storages /\ Selected
  /\ idx > 1 => All
  /\ Loading => idx = 1
  /\ \A p \in gpt_partitions : p.lun < Len(disk[First])
  /\ hpc = "probe" => entry >= 1
  /\ Begun = 0 => sector_size = 0
  /\ SizeKnown

GoodInv ==
  /\ Shape
  /\ hpc = "args" => idx = 0
  /\ Building => sector_size = 0
  /\ hpc = "provision" => ufs
  /\ Running /\ ops[1].k = "configure" => BehindFirst
  /\ GoodListsRun

\* The storage of an operation is that of the last configure before it.
LEMMA StorageIs ==
  ASSUME NEW i \in Nat, NEW c \in 1 .. i, ops[c].k = "configure",
         \A j \in c + 1 .. i : ops[j].k # "configure"
  PROVE  StorageAt(i) = ops[c].storage
<1> DEFINE confs == {j \in 1 .. i : ops[j].k = "configure"}
<1>1. c \in confs /\ \A j \in confs : j <= c
  OBVIOUS
<1>2. \A d \in confs : (\A j \in confs : j <= d) => d = c
  BY <1>1
<1> HIDE DEF confs
<1>3. (CHOOSE d \in confs : \A j \in confs : j <= d) = c
  BY <1>1, <1>2
<1> QED
  BY <1>3 DEF StorageAt, confs

LEMMA FirstStorage ==
  ASSUME ops[1].k = "configure"
  PROVE  StorageAt(1) = First
<1>1. 1 \in 1 .. 1 /\ 1 \in Nat /\ 1 + 1 .. 1 = {}
  OBVIOUS
<1> QED
  BY <1>1, StorageIs DEF First

\* What a good list says of an operation.
LEMMA GoodAt ==
  ASSUME ListGood, NEW i \in DOMAIN ops
  PROVE  /\ ops[1].k = "configure" /\ idx > 0 /\ StorageAt(i) \in Storages
         /\ Deferred(ops[i]) =>
              /\ StorageAt(i) = First /\ SizeFound(First)
              /\ \A l \in DOMAIN disk[First] : disk[First][l].header # "invalid"
              /\ \E p \in Meant(First, ops[i].name, ops[i].given) :
                   /\ Meant(First, ops[i].name, ops[i].given) = {p}
                   /\ disk[First][p[1]].parts[p[2]].fits
         /\ ~Deferred(ops[i]) /\ Touches(ops[i]) =>
              /\ ops[i].lun < Len(disk[StorageAt(i)])
              /\ \/ ops[i].size = SectorSize[StorageAt(i)]
                 \/ /\ ops[i].size = 0 /\ SizeFound(First)
                    /\ SectorSize[StorageAt(i)] = SectorSize[First]
<1>1. ops[1].k = "configure" /\ StorageAt(1) = First
  BY FirstStorage DEF ListGood
<1> QED
  BY <1>1 DEF ListGood

LEMMA SameListGood ==
  ASSUME UNCHANGED <<ops, disk, idx>>
  PROVE  ListGood' = ListGood
BY DEF ListGood, StorageAt, SizeFound, Meant

\* A name that has been resolved is found again.
LEMMA StillUsable ==
  ASSUME TypesInv, NEW o, NEW p, Only(o, p)
  PROVE  p \in gpt_partitions /\ Usable(o, p)
<1>1. /\ p \in gpt_partitions /\ p.name = o.name /\ o.given \in {-1, p.lun} /\ o.lun = p.lun
      /\ p.fits /\ \A q \in gpt_partitions : Matches(o, q) => q = p \/ q.lun > p.lun
  BY DEF Only, Matches
<1>2. \A q \in gpt_partitions : q.lun \in Nat
  BY DEF TypesInv
<1>3. ASSUME NEW q \in NamedAs(o) PROVE q = p
  <2>1. q \in gpt_partitions /\ q.name = o.name /\ o.lun \in {-1, q.lun}
    BY <1>3 DEF NamedAs
  <2>2. q.lun = p.lun /\ p.lun \in Nat
    BY <1>1, <1>2, <2>1
  <2>3. Matches(o, q)
    BY <1>1, <2>1, <2>2 DEF Matches
  <2> QED
    BY <1>1, <2>1, <2>2, <2>3
<1>4. p \in NamedAs(o)
  BY <1>1 DEF NamedAs
<1>5. Candidates(o) = {p}
  BY <1>1, <1>2, <1>3, <1>4 DEF Candidates
<1> QED
  BY <1>1, <1>5 DEF Usable

\* At the first configure the storage is the first one, and nothing has been written.
LEMMA AtFirst ==
  ASSUME Inv, TablesInv, Running, hpc # "op", idx = 1
  PROVE  /\ ops[1].k = "configure" /\ First = storage
         /\ Unwritten /\ OneStorage /\ 1 \in DOMAIN ops
<1>1. ops[1].k = "configure" /\ ops[1].storage = storage /\ ListOK /\ 1 <= Len(ops)
  BY DEF Inv, ListInv, TablesInv, SelectionInv
<1>2. Begun = 1 /\ 1 .. 1 = {1}
  BY DEF Begun
<1>3. 1 \in DOMAIN ops
  BY <1>1, ListLen DEF ListOK
<1> QED
  BY <1>1, <1>2, <1>3 DEF First, Unwritten, OneStorage

\* A good name is found when the tables are complete.
LEMMA FirstUsable ==
  ASSUME Inv, TablesInv, ListGood, Resolving, idx = 1, NEW i \in DOMAIN ops,
         Deferred(ops[i]), AsGiven(ops[i]), \A l \in Nat : Full(l)
  PROVE  \E p \in gpt_partitions : Usable(ops[i], p)
<1> DEFINE o == ops[i]
<1>1. /\ First = storage /\ disk \in Disks /\ storage \in Storages /\ OnDisk
  BY AtFirst, KnownTables DEF Running, Resolving, Loading
<1>2. PICK m \in Meant(storage, o.name, o.given) :
        /\ Meant(storage, o.name, o.given) = {m}
        /\ disk[storage][m[1]].parts[m[2]].fits
  BY <1>1, GoodAt
<1>3. \A q \in Meant(storage, o.name, o.given) : \E l, e \in Nat :
        /\ q = <<l + 1, e>> /\ IsEntry(l, e)
        /\ Table(l).parts[e].name = o.name /\ o.given \in {-1, l}
  BY <1>1, MeantIsEntry
<1>4. PICK l \in Nat, e \in Nat :
        /\ m = <<l + 1, e>> /\ IsEntry(l, e)
        /\ Table(l).parts[e].name = o.name /\ o.given \in {-1, l}
  BY <1>3
<1> DEFINE p == AsLoaded(l, e)
<1>5. /\ p \in gpt_partitions /\ p.name = o.name /\ p.lun = l
      /\ p.fits = Table(l).parts[e].fits
  BY <1>4 DEF Full, AsLoaded
<1>6. p.fits
  <2>1. m[1] = l + 1 /\ m[2] = e
    BY <1>4
  <2> QED
    BY <1>2, <1>5, <2>1 DEF Table
<1>7. ASSUME NEW q \in NamedAs(o) PROVE q = p
  <2>1. q \in gpt_partitions /\ q.name = o.name /\ o.given \in {-1, q.lun}
    BY <1>7 DEF NamedAs, AsGiven
  <2>2. PICK k \in Nat, f \in Nat : IsEntry(k, f) /\ q = AsLoaded(k, f)
    BY <1>1, <2>1 DEF OnDisk
  <2>3. q.lun = k /\ q.name = Table(k).parts[f].name
    BY <2>2 DEF AsLoaded
  <2>4. <<k + 1, f>> \in Meant(storage, o.name, o.given)
    BY <1>1, <2>1, <2>2, <2>3, MeantIsEntry
  <2>5. k + 1 = l + 1 /\ f = e
    BY <1>2, <1>4, <2>4
  <2>6. k = l
    BY <2>5
  <2> QED
    BY <2>2, <2>5, <2>6
<1>8. p \in NamedAs(o)
  BY <1>4, <1>5 DEF NamedAs, AsGiven
<1> HIDE DEF p
<1>9. p.lun <= p.lun
  BY <1>5
<1>10. Candidates(o) = {p}
  BY <1>7, <1>8, <1>9 DEF Candidates
<1> QED
  BY <1>5, <1>6, <1>10 DEF Usable

-----------------------------------------------------------------------------
(* The steps, and where they end.                                          *)

LEMMA InitGood == Init => GoodInv
<1> SUFFICES ASSUME Init PROVE GoodInv
  OBVIOUS
<1>1. hpc = "args" /\ idx = 0 /\ sector_size = 0 /\ disk \in Disks
  BY DEF Init, BuildInit
<1>2. Shape
  BY <1>1, GptAssumption DEF Shape
<1> QED
  BY <1>1, <1>2 DEF GoodInv, GoodListsRun, Running, Resolving, Loading

\* A step that ends the run.
LEMMA EndGood ==
  ASSUME GoodInv, hpc' = "end", UNCHANGED <<ops, disk, idx>>,
         bad' = 0 /\ ~ufs' /\ ListGood => ret' = 0
  PROVE  GoodInv'
<1>1. ListGood' = ListGood
  BY SameListGood
<1>2. Shape'
  BY DEF GoodInv, Shape
<1>3. GoodListsRun'
  BY <1>1 DEF GoodListsRun
<1> QED
  BY <1>2, <1>3 DEF GoodInv, Running, Resolving, Loading, Building

LEMMA BuildGood ==
  ASSUME Inv, GoodInv, Build, UNCHANGED runVars, ListReady'
  PROVE  GoodInv'
<1>1. /\ Building /\ UNCHANGED <<disk, gpt_partitions, sector_size>> /\ gpt_partitions = {}
      /\ sector_size = 0
  BY DEF Build, Argument, Complete, Provision, Building, runVars, Inv, ResolveInv, GoodInv
<1>2. CASE hpc' = "end"
  <2>1. CASE Argument
    <3>1. idx' = 0
      BY <2>1 DEF Argument, GoodInv
    <3> QED
      BY <1>1, <1>2, <3>1 DEF GoodInv, Shape, GoodListsRun, ListGood, Running, Resolving,
         Loading, Building
  <2>2. CASE Provision
    <3>1. ufs' /\ UNCHANGED <<ops, idx>>
      BY <2>2 DEF Provision, GoodInv, buildVars
    <3> QED
      BY <1>1, <1>2, <3>1, EndGood
  <2>3. ~Complete
    BY <1>2 DEF Complete
  <2> QED
    BY <2>1, <2>2, <2>3 DEF Build
<1>3. CASE hpc' # "end"
  <2>1. \/ hpc' = "args" /\ idx' = idx /\ hpc = "args"
        \/ hpc' = "provision" /\ ufs'
        \/ hpc' = "op" /\ idx' = 1
    BY <1>3 DEF Build, Argument, Complete, Provision, Return, buildVars
  <2>2. Shape' /\ (hpc' = "args" => idx' = 0)
    BY <1>1, <2>1 DEF GoodInv, Shape
  <2>3. ASSUME hpc' = "op", idx' = 1 PROVE BehindFirst'
    <3>1. \A i \in DOMAIN ops' : Deferred(ops'[i]) => ops'[i].size = 0
      BY <2>3 DEF ListReady, Deferred
    <3>2. Begun' = 0
      BY <2>3 DEF Begun
    <3> QED
      BY <1>1, <2>3, <3>1, <3>2 DEF BehindFirst, SizeKnown, Loading
  <2> QED
    BY <1>1, <1>3, <2>1, <2>2, <2>3
    DEF GoodInv, GoodListsRun, Running, Resolving, Loading, Building
<1> QED
  BY <1>2, <1>3

\* Replacing a table leaves the number of tables.
LEMMA EffectShape ==
  ASSUME Shape, NEW o, Effect(o)
  PROVE  Shape' /\ \A s \in Storages : Len(disk'[s]) = Len(disk[s])
<1>1. CASE UNCHANGED disk
  BY <1>1 DEF Shape
<1>2. CASE disk' = [disk EXCEPT ![storage][o.lun + 1] = o.table]
  <2> DEFINE k == o.lun + 1
             r == [disk[storage] EXCEPT ![k] = o.table]
  <2>1. DOMAIN disk = Storages /\ disk = [s \in Storages |-> disk[s]]
    BY DEF Shape
  <2>2. /\ DOMAIN disk' = Storages /\ disk' = [s \in Storages |-> disk'[s]]
        /\ \A s \in Storages : s # storage => disk'[s] = disk[s]
        /\ storage \in Storages => disk'[storage] = r
    BY <1>2, <2>1
  <2>3. disk' \in [Storages -> Range(disk')]
    BY <2>2 DEF Range
  <2>4. ASSUME storage \in Storages
        PROVE  r \in Seq(Range(r)) /\ Len(r) = Len(disk[storage])
    <3> DEFINE d == disk[storage]
               n == Len(d)
    <3>1. n \in Nat /\ DOMAIN d = 1 .. n
      BY <2>4, LenProperties DEF Shape
    <3>2. DOMAIN r = 1 .. n /\ r = [i \in 1 .. n |-> r[i]]
      BY <3>1
    <3> HIDE DEF r, n
    <3>3. \A i \in 1 .. n : r[i] \in Range(r)
      BY <3>2 DEF Range
    <3>4. r \in [1 .. n -> Range(r)]
      BY <3>2, <3>3
    <3>5. r \in Seq(Range(r))
      BY <3>1, <3>4, IsSequence
    <3>6. Len(r) = n
      BY <3>1, <3>2, <3>5, LenProperties
    <3> QED
      BY <3>5, <3>6 DEF n
  <2> HIDE DEF r
  <2>5. \A s \in Storages : disk'[s] \in Seq(Range(disk'[s])) /\ Len(disk'[s]) = Len(disk[s])
    BY <2>2, <2>4 DEF Shape
  <2> QED
    BY <2>3, <2>5 DEF Shape
<1> QED
  BY <1>1, <1>2 DEF Effect

\* The storages whose size can be found are those with tables.
LEMMA SameSizes ==
  ASSUME Shape, Shape', NEW s \in Storages, Len(disk'[s]) = Len(disk[s])
  PROVE  SizeFound(s)' = SizeFound(s)
<1>1. disk[s] \in Seq(Range(disk[s])) /\ disk'[s] \in Seq(Range(disk'[s]))
  BY DEF Shape
<1>2. disk[s] = <<>> <=> disk'[s] = <<>>
  BY <1>1, EmptySeq
<1> QED
  BY <1>2 DEF SizeFound

\* A step of the list that selects nothing and goes on.
LEMMA OpGood ==
  ASSUME Inv, TablesInv, GoodInv, hpc = "op", hpc' = "op", idx' = idx + 1,
         bad' \in {bad, bad + 1}, idx <= Len(ops), ops[idx].k # "configure",
         UNCHANGED <<ops, storage, sector_size, gpt_partitions>>,
         Shape', \A s \in Storages : Len(disk'[s]) = Len(disk[s])
  PROVE  GoodInv'
<1>1. ASSUME ops[1].k = "configure" PROVE BehindFirst'
  <2>1. idx \in Nat /\ idx > 1 /\ bad \in Nat
    BY <1>1 DEF Inv, TypesInv, ListInv, Running
  <2>2. Begun = idx - 1 /\ Begun' = idx /\ Begun >= 1
    BY <2>1 DEF Begun
  <2>3. BehindFirst
    BY <1>1 DEF GoodInv, Running
  <2>4. First \in Storages /\ Selected /\ All /\ First' = First
    BY <2>1, <2>2, <2>3 DEF BehindFirst, First
  <2>5. Selected'
    <3>1. PICK c \in 1 .. Begun :
            /\ ops[c].k = "configure" /\ ops[c].storage = storage
            /\ \A j \in c + 1 .. Begun : ops[j].k # "configure"
      BY <2>4 DEF Selected
    <3>2. c \in 1 .. idx /\ \A j \in c + 1 .. idx : j \in c + 1 .. Begun \/ j = idx
      BY <2>1, <2>2
    <3>3. \A j \in c + 1 .. idx : ops[j].k # "configure"
      BY <3>1, <3>2
    <3> QED
      BY <2>2, <3>1, <3>2, <3>3 DEF Selected
  <2>6. All'
    BY <2>4, SameList
  <2>7. SizeFound(First)' = SizeFound(First) /\ Len(disk'[First]) = Len(disk[First])
    <3>1. PICK s \in Storages : s = First
      BY <2>4
    <3>2. SizeFound(s)' = SizeFound(s)
      BY SameSizes DEF GoodInv
    <3>3. SizeFound(s)' = SizeFound(First)'
      BY <2>4, <3>1 DEF SizeFound
    <3> QED
      BY <3>1, <3>2, <3>3
  <2>8. SizeKnown'
    BY <2>1, <2>2, <2>3, <2>4, <2>7 DEF BehindFirst, SizeKnown
  <2>9. Begun' # 0
    BY <2>1, <2>2
  <2> QED
    BY <2>3, <2>4, <2>5, <2>6, <2>7, <2>8, <2>9 DEF BehindFirst, Loading
<1> QED
  BY <1>1 DEF GoodInv, GoodListsRun, Running, Resolving, Loading, Building

LEMMA ConfigureGood == ASSUME Inv, TablesInv, GoodInv, Configure PROVE GoodInv'
<1>1. /\ hpc = "op" /\ idx <= Len(ops) /\ ops[idx].k = "configure"
      /\ UNCHANGED <<ops, idx, disk, sector_size, gpt_partitions>> /\ entry' = 1
      /\ idx \in Nat /\ idx >= 1 /\ bad \in Nat
  BY DEF Configure, rest, Inv, TypesInv, ListInv, Running
<1>2. idx \in DOMAIN ops /\ idx \in 1 .. idx /\ idx + 1 .. idx = {}
  BY <1>1, ListLen DEF Inv, ListInv, Running, ListOK
<1>3. CASE hpc' = "end"
  <2>1. ops[idx].storage \notin Storages \/ bad' = bad + 1
    BY <1>1, <1>3 DEF Configure
  <2>2. StorageAt(idx) = ops[idx].storage
    BY <1>1, <1>2, StorageIs
  <2>3. bad' = 0 => ~ListGood
    BY <1>1, <1>2, <2>1, <2>2, GoodAt
  <2> QED
    BY <1>1, <1>3, <2>3, EndGood
<1>4. CASE hpc' # "end"
  <2>1. /\ storage' = ops[idx].storage /\ storage' \in Storages /\ bad' = bad
        /\ hpc' = IF MustProbe(storage') THEN "probe" ELSE "resolve"
    BY <1>1, <1>4 DEF Configure, Return
  <2>2. Begun = idx - 1 /\ Begun' = idx
    BY <1>1, <1>4, <2>1 DEF Begun
  <2>3. Shape'
    BY <1>1 DEF GoodInv, Shape
  <2>4. ASSUME ops[1].k = "configure" PROVE BehindFirst'
    <3>1. BehindFirst
      BY <1>1, <2>4 DEF GoodInv, Running
    <3>2. Selected'
      BY <1>1, <1>2, <2>1, <2>2 DEF Selected
    <3>3. First' = First /\ First \in Storages
      BY <1>1, <2>1, <2>2, <3>1 DEF First, BehindFirst
    <3>4. All' = All
      BY <1>1, SameList
    <3>5. SizeKnown'
      <4>1. SizeFound(First)' = SizeFound(First)
        BY <1>1, <3>3 DEF SizeFound
      <4>2. SUFFICES ASSUME bad = 0, SizeFound(First)
                     PROVE  IF hpc' = "probe" THEN idx = 1 /\ SizeAhead'
                                              ELSE sector_size = SectorSize[First]
        BY <1>1, <2>1, <3>3, <4>1 DEF SizeKnown
      <4>3. CASE idx = 1
        <5>1. storage' = First /\ First \notin Nand /\ sector_size = 0
          BY <2>1, <2>2, <3>1, <4>2, <4>3 DEF First, SizeFound, BehindFirst
        <5>2. hpc' = "probe"
          BY <2>1, <5>1 DEF MustProbe
        <5>3. \E i \in DOMAIN Sizes : i >= 1 /\ Sizes[i] = SectorSize[First]
          <6>1. DOMAIN Sizes = 1 .. Len(Sizes)
            BY GptAssumption
          <6> QED
            BY <4>2, <6>1 DEF SizeFound, Range
        <5> QED
          BY <1>1, <4>3, <5>1, <5>2, <5>3 DEF SizeAhead
      <4>4. CASE idx # 1
        <5>1. sector_size = SectorSize[First]
          BY <1>1, <2>2, <3>1, <4>2, <4>4 DEF BehindFirst, SizeKnown
        <5>2. SectorSize[First] # 0
          BY <3>3, GptAssumption
        <5>3. hpc' = "resolve"
          BY <2>1, <5>1, <5>2 DEF MustProbe
        <5> QED
          BY <5>1, <5>3
      <4> QED
        BY <4>3, <4>4
    <3>6. Begun' # 0 /\ ~Loading'
      BY <1>1, <2>1, <2>2 DEF Loading
    <3> QED
      BY <1>1, <3>1, <3>2, <3>3, <3>4, <3>5, <3>6 DEF BehindFirst
  <2> QED
    BY <1>1, <1>4, <2>1, <2>3, <2>4
    DEF GoodInv, GoodListsRun, Running, Resolving, Loading, Building
<1> QED
  BY <1>3, <1>4

LEMMA ProbeGood == ASSUME Inv, TablesInv, GoodInv, Probe PROVE GoodInv'
<1>1. /\ hpc = "probe" /\ hpc' \in {"probe", "resolve"} /\ entry' = entry + 1
      /\ UNCHANGED <<ops, idx, disk, storage, gpt_partitions>>
      /\ bad' \in {bad, bad + 1} /\ bad \in Nat /\ entry \in Nat /\ idx \in Nat /\ idx >= 1
  BY DEF Probe, rest, ReadWorks, ReadFails, Inv, TypesInv, ListInv, Running, TablesInv,
     SelectionInv
<1>2. Shape'
  BY <1>1 DEF GoodInv, Shape
<1>3. ASSUME ops[1].k = "configure" PROVE BehindFirst'
  <2>1. BehindFirst /\ entry >= 1
    BY <1>1, <1>3 DEF GoodInv, Running, BehindFirst
  <2>2. Begun = idx /\ Begun' = idx
    BY <1>1 DEF Begun
  <2>3. Selected' = Selected /\ First' = First
    BY <1>1, <2>2 DEF Selected, First
  <2>4. All' = All
    BY <1>1, SameList
  <2>5. SizeKnown'
    <3>1. SizeFound(First)' = SizeFound(First)
      BY <1>1, <2>3 DEF SizeFound
    <3>2. SUFFICES ASSUME bad = 0, bad' = 0, SizeFound(First)
                   PROVE  IF hpc' = "probe" THEN idx = 1 /\ SizeAhead'
                                            ELSE sector_size' = SectorSize[First]
      BY <1>1, <2>3, <3>1 DEF SizeKnown
    <3>3. idx = 1 /\ SizeAhead
      BY <1>1, <2>1, <2>2, <3>2 DEF BehindFirst, SizeKnown
    <3>4. First = storage /\ First \in Storages
      BY <1>1, <2>1, <2>2, <3>3, AtFirst DEF Running, BehindFirst
    <3>5. LunThere(0)
      <4>1. disk[First] \in Seq(Range(disk[First])) /\ disk[First] # <<>>
        BY <3>2, <3>4 DEF GoodInv, Shape, SizeFound
      <4>2. Len(disk[First]) \in Nat /\ Len(disk[First]) # 0
        BY <4>1, EmptySeq, LenProperties
      <4> QED
        BY <3>4, <4>2 DEF LunThere
    <3>6. PICK worked \in BOOLEAN :
            /\ IF worked THEN ReadWorks(0, Sizes[entry]) ELSE ReadFails(0, Sizes[entry])
            /\ sector_size' = Probed(worked)
            /\ hpc' = IF worked \/ entry = Len(Sizes) THEN "resolve" ELSE "probe"
      BY DEF Probe
    <3>7. CASE worked
      BY <3>4, <3>6, <3>7 DEF ReadWorks, Probed
    <3>8. CASE ~worked
      <4>1. Sizes[entry] # SectorSize[storage]
        BY <1>1, <3>2, <3>5, <3>6, <3>8 DEF ReadFails
      <4>2. PICK i \in DOMAIN Sizes : i >= entry /\ Sizes[i] = SectorSize[storage]
        BY <3>3 DEF SizeAhead
      <4>3. i \in 1 .. Len(Sizes) /\ i # entry /\ Len(Sizes) \in Nat
        BY <4>1, <4>2, GptAssumption
      <4>4. i >= entry + 1 /\ entry # Len(Sizes)
        BY <1>1, <4>2, <4>3
      <4>5. SizeAhead'
        BY <1>1, <4>2, <4>4 DEF SizeAhead
      <4> QED
        BY <3>3, <3>6, <3>8, <4>4, <4>5
    <3> QED
      BY <3>7, <3>8
  <2>6. Begun' # 0 /\ ~Loading' /\ entry' >= 1
    BY <1>1, <2>2 DEF Loading
  <2> QED
    BY <1>1, <2>1, <2>2, <2>3, <2>4, <2>5, <2>6 DEF BehindFirst
<1> QED
  BY <1>1, <1>2, <1>3 DEF GoodInv, GoodListsRun, Running, Resolving, Loading, Building

\* A step between the names of the list, or the sectors of the tables.
LEMMA NameGood ==
  ASSUME Inv, TablesInv, GoodInv, Resolving, UNCHANGED <<disk, storage, sector_size>>,
         bad' \in {bad, bad + 1},
         \/ hpc' \in {"resolve", "header", "entries"} /\ idx' = idx
         \/ hpc' = "op" /\ idx' = idx + 1,
         DOMAIN ops' = DOMAIN ops,
         \A i \in DOMAIN ops : /\ ops'[i].k = ops[i].k /\ ops'[i].storage = ops[i].storage
                               /\ ops'[i].name = ops[i].name /\ ops'[i].size = ops[i].size,
         BehindFirst =>
           /\ idx' > 1 => All'
           /\ hpc' \in {"header", "entries"} => idx' = 1
           /\ \A p \in gpt_partitions' : p \in gpt_partitions \/ p.lun < Len(disk[First])
  PROVE  GoodInv'
<1>1. /\ ListOK /\ idx \in Nat /\ idx >= 1 /\ idx <= Len(ops) /\ bad \in Nat
  BY DEF Inv, TypesInv, ListInv, Running, Resolving, Loading
<1>2. 1 .. idx \subseteq DOMAIN ops /\ 1 \in DOMAIN ops
  BY <1>1, ListLen DEF ListOK
<1>3. Begun = idx /\ Begun' = idx
  BY <1>1 DEF Begun, Resolving, Loading
<1>4. Shape'
  BY DEF GoodInv, Shape
<1>5. ASSUME ops'[1].k = "configure" PROVE BehindFirst'
  <2>1. ops[1].k = "configure" /\ First' = First
    BY <1>2, <1>5 DEF First
  <2>2. BehindFirst
    BY <2>1 DEF GoodInv, Running
  <2>3. \A i \in DOMAIN ops' : Deferred(ops'[i]) => ops'[i].size = 0
    BY <2>2 DEF BehindFirst, Deferred
  <2>4. First \in Storages /\ Selected
    BY <1>1, <1>3, <2>2 DEF BehindFirst
  <2>5. Selected'
    <3>1. PICK c \in 1 .. idx :
            /\ ops[c].k = "configure" /\ ops[c].storage = storage
            /\ \A j \in c + 1 .. idx : ops[j].k # "configure"
      BY <1>3, <2>4 DEF Selected
    <3>2. c \in DOMAIN ops /\ \A j \in c + 1 .. idx : j \in DOMAIN ops
      BY <1>1, <1>2, <3>1
    <3> QED
      BY <1>3, <3>1, <3>2 DEF Selected
  <2>6. (idx' > 1 => All') /\ (Loading' => idx' = 1)
    BY <2>2 DEF Loading
  <2>7. \A p \in gpt_partitions' : p.lun < Len(disk[First])'
    BY <2>1, <2>2 DEF BehindFirst
  <2>8. SizeKnown'
    <3>1. SizeFound(First)' = SizeFound(First)
      BY <2>1 DEF SizeFound
    <3> QED
      BY <1>1, <1>3, <2>1, <2>2, <3>1 DEF BehindFirst, SizeKnown, Resolving, Loading
  <2>9. Begun' # 0 /\ hpc' # "probe"
    BY <1>1, <1>3
  <2> QED
    BY <2>1, <2>3, <2>4, <2>5, <2>6, <2>7, <2>8, <2>9 DEF BehindFirst
<1> QED
  BY <1>4, <1>5 DEF GoodInv, GoodListsRun, Running, Resolving, Loading, Building

LEMMA ResolveNoneGood == ASSUME Inv, TablesInv, GoodInv, ResolveNone PROVE GoodInv'
<1>1. /\ hpc = "resolve" /\ Resolving
      /\ UNCHANGED <<ops, disk, storage, sector_size, gpt_partitions, bad>>
      /\ \/ hpc' = "resolve" /\ idx' = idx
         \/ hpc' = "op" /\ idx' = idx + 1 /\ def > Len(ops)
  BY DEF ResolveNone, Resolving
<1>2. ListOK /\ Below(def) /\ def \in Nat
  BY <1>1 DEF Inv, TypesInv, ListInv, ResolveInv, Running
<1>3. hpc' = "op" => All
  <2>1. DOMAIN ops = 1 .. Len(ops) /\ Len(ops) \in Nat
    BY <1>2, ListLen DEF ListOK
  <2> QED
    BY <1>1, <1>2, <2>1 DEF Below, All
<1>4. All' = All
  BY <1>1, SameList
<1>5. BehindFirst => (idx' > 1 => All')
  BY <1>1, <1>3, <1>4 DEF BehindFirst
<1> QED
  BY <1>1, <1>5, NameGood

\* A name of a good list is found, whether it has been before or not.
LEMMA LookupGood ==
  ASSUME Inv, TablesInv, GoodInv, hpc \in {"resolve", "header"}, ListOK,
         def \in DOMAIN ops, Deferred(ops[def]), Below(def), Lookup,
         UNCHANGED <<idx, disk, storage, sector_size, gpt_partitions, accesses, lun>>,
         bad' \in {bad, bad + 1},
         bad' = 0 /\ idx = 1 /\ ListGood => \A l \in Nat : Full(l)
  PROVE  GoodInv'
<1>1. /\ Resolving /\ Running /\ bad \in Nat /\ bad' \in Nat /\ idx \in Nat /\ idx >= 1
      /\ accesses # <<>> => All
  BY DEF Resolving, Loading, Running, Inv, TypesInv, ListInv, ResolveInv
<1>2. All => All'
  BY <1>1, LookupInv DEF Inv
<1>3. CASE hpc' = "end"
  <2>1. UNCHANGED ops /\ \A p \in gpt_partitions : ~Usable(ops[def], p)
    BY <1>3 DEF Lookup
  <2>2. ASSUME bad' = 0, ListGood PROVE FALSE
    <3>1. ops[1].k = "configure" /\ bad = 0
      BY <1>1, <2>2 DEF ListGood
    <3>2. ~Resolved(ops[def])
      BY <2>1, StillUsable DEF Inv, Resolved
    <3>3. idx = 1
      BY <1>1, <3>1, <3>2 DEF GoodInv, BehindFirst, All
    <3>4. AsGiven(ops[def])
      BY <3>2 DEF ListOK
    <3> QED
      BY <1>1, <2>1, <2>2, <3>3, <3>4, FirstUsable
  <2> QED
    BY <1>3, <2>1, <2>2, EndGood
<1>4. CASE hpc' # "end"
  <2>1. /\ hpc' = "resolve" /\ DOMAIN ops' = DOMAIN ops
        /\ \A i \in DOMAIN ops : /\ ops'[i].k = ops[i].k /\ ops'[i].storage = ops[i].storage
                                 /\ ops'[i].name = ops[i].name /\ ops'[i].size = ops[i].size
    BY <1>4, LookupKinds
  <2>2. BehindFirst => (idx' > 1 => All')
    BY <1>2 DEF BehindFirst
  <2> QED
    BY <1>1, <2>1, <2>2, NameGood
<1> QED
  BY <1>3, <1>4

LEMMA ResolveGood == ASSUME Inv, TablesInv, GoodInv, Resolve PROVE GoodInv'
<1>1. /\ hpc = "resolve" /\ Resolving /\ Running /\ def <= Len(ops) /\ Deferred(ops[def])
      /\ UNCHANGED <<idx, disk, storage, sector_size, gpt_partitions, accesses, bad>>
      /\ bad \in Nat
  BY DEF Resolve, Resolving, Running, Inv, TypesInv
<1>2. ListOK /\ def \in DOMAIN ops /\ Below(def) /\ idx >= 1 /\ idx \in Nat
  <2>1. ListOK /\ Below(def) /\ def \in Nat \ {0} /\ idx >= 1 /\ idx \in Nat
    BY <1>1 DEF Inv, TypesInv, ListInv, ResolveInv
  <2> QED
    BY <1>1, <2>1, ListLen DEF ListOK
<1>3. CASE TablesLoaded
  <2>1. Lookup /\ UNCHANGED lun
    BY <1>3 DEF Resolve
  <2>2. bad' = 0 /\ idx = 1 => \A l \in Nat : Full(l)
    <3>1. idx = 1 => NoneMissing
      BY <1>1, AtFirst, KnownTables
    <3> QED
      BY <1>1, <1>3, <3>1 DEF NoneMissing, TablesLoaded
  <2> QED
    BY <1>1, <1>2, <2>1, <2>2, LookupGood
<1>4. CASE ~TablesLoaded
  <2>1. hpc' = "header" /\ UNCHANGED ops
    BY <1>4 DEF Resolve
  <2>2. ~Resolved(ops[def])
    BY <1>1, <1>4, NoneLoaded DEF TablesLoaded
  <2>3. BehindFirst => idx = 1
    BY <1>2, <2>2 DEF BehindFirst, All
  <2> QED
    BY <1>1, <2>1, <2>3, NameGood
<1> QED
  BY <1>3, <1>4

\* The first physical partition that cannot be read is behind the last one.
LEMMA SizeAtFirst ==
  ASSUME Inv, TablesInv, GoodInv, Resolving, ListGood, idx = 1, bad = 0,
         NEW i \in DOMAIN ops, Deferred(ops[i])
  PROVE  sector_size = SectorSize[storage]
<1>1. ops[1].k = "configure" /\ First = storage
  BY AtFirst DEF Running, Resolving, Loading
<1>2. SizeFound(First) /\ Begun = 1 /\ hpc # "probe"
  BY GoodAt DEF Begun, Resolving, Loading
<1>3. BehindFirst
  BY <1>1 DEF GoodInv, Running
<1> QED
  BY <1>1, <1>2, <1>3 DEF BehindFirst, SizeKnown

LEMMA LoadHeaderGood == ASSUME Inv, TablesInv, GoodInv, LoadHeader PROVE GoodInv'
<1>1. /\ hpc = "header" /\ Resolving /\ Running /\ Loading
      /\ UNCHANGED <<idx, disk, storage, sector_size, gpt_partitions, accesses>>
      /\ bad' \in {bad, bad + 1} /\ bad \in Nat /\ lun \in Nat
  BY DEF LoadHeader, ReadFails, ReadWorks, Resolving, Running, Loading, Inv, TypesInv
<1>2. /\ ListOK /\ def \in DOMAIN ops /\ Deferred(ops[def]) /\ idx >= 1 /\ idx \in Nat
      /\ Below(def)
  BY <1>1 DEF Inv, TypesInv, ListInv, ResolveInv, FirstName, Below, Resolved
<1>3. CASE ReadFails(lun, sector_size) /\ NoHeader
  <2>1. ASSUME bad' = 0, idx = 1, ListGood, NEW l \in Nat
        PROVE  Full(l)
    <3>1. disk \in Disks /\ storage \in Storages /\ NoneMissing
      BY <1>1, <2>1, AtFirst, KnownTables
    <3>2. bad = 0 /\ sector_size = SectorSize[storage]
      BY <1>1, <1>2, <2>1, SizeAtFirst
    <3>3. ~LunThere(lun)
      BY <1>1, <1>3, <2>1, <3>2 DEF ReadFails
    <3>4. CASE l < lun
      BY <1>1, <3>1, <3>2, <3>4 DEF NoneMissing
    <3>5. CASE ~(l < lun)
      <4>1. ~LunThere(l)
        BY <1>1, <3>1, <3>3, <3>5, DiskShape DEF LunThere
      <4> QED
        BY <3>1, <4>1, NoEntry
    <3> QED
      BY <3>4, <3>5
  <2> QED
    BY <1>1, <1>2, <1>3, <2>1, LookupGood DEF NoHeader
<1>4. CASE ReadWorks(lun, sector_size) /\ Table(lun).header = "invalid" /\ hpc' = "end" /\ UNCHANGED ops
  <2>1. ASSUME bad' = 0, ListGood PROVE FALSE
    <3>1. ops[1].k = "configure"
      BY <2>1 DEF ListGood
    <3>2. idx = 1
      BY <1>1, <3>1 DEF GoodInv, BehindFirst
    <3>3. First = storage /\ disk \in Disks /\ storage \in Storages
      BY <1>1, <3>2, AtFirst, KnownTables
    <3>4. lun + 1 \in DOMAIN disk[storage]
      BY <1>1, <1>4, <3>3, TableShape DEF ReadWorks
    <3> QED
      BY <1>2, <1>4, <2>1, <3>3, <3>4, GoodAt DEF Table
  <2> QED
    BY <1>1, <1>4, <2>1, EndGood
<1>5. CASE hpc' \in {"header", "entries"} /\ UNCHANGED ops
  <2>1. BehindFirst => idx = 1
    BY <1>1 DEF BehindFirst
  <2> QED
    BY <1>1, <1>5, <2>1, NameGood
<1>6. \/ ReadFails(lun, sector_size) /\ NoHeader
      \/ ReadWorks(lun, sector_size) /\ Table(lun).header = "invalid" /\ hpc' = "end" /\ UNCHANGED ops
      \/ hpc' \in {"header", "entries"} /\ UNCHANGED ops
  BY <1>1 DEF LoadHeader, Return
<1> QED
  BY <1>3, <1>4, <1>5, <1>6

LEMMA LoadEntriesGood == ASSUME Inv, TablesInv, GoodInv, LoadEntries PROVE GoodInv'
<1>1. /\ hpc = "entries" /\ Resolving /\ Running /\ Loading
      /\ UNCHANGED <<ops, idx, disk, storage, sector_size>>
      /\ bad' \in {bad, bad + 1} /\ bad \in Nat /\ lun \in Nat /\ idx >= 1 /\ idx \in Nat
  BY DEF LoadEntries, rest, ReadFails, ReadWorks, Resolving, Running, Loading, Inv, TypesInv,
     ListInv
<1>2. CASE hpc' = "end"
  <2>1. ReadFails(lun, sector_size)
    BY <1>1, <1>2 DEF LoadEntries
  <2>2. ASSUME bad' = 0, ListGood PROVE FALSE
    <3>1. ops[1].k = "configure"
      BY <2>2 DEF ListGood
    <3>2. idx = 1
      BY <1>1, <3>1 DEF GoodInv, BehindFirst
    <3>3. LunThere(lun) /\ sector_size = SectorSize[storage]
      BY <1>1, <3>2, AtFirst, KnownTables DEF AtTable
    <3> QED
      BY <1>1, <2>1, <2>2, <3>3 DEF ReadFails
  <2> QED
    BY <1>1, <1>2, <2>2, EndGood
<1>3. CASE hpc' # "end"
  <2>1. /\ hpc' \in {"header", "entries"}
        /\ \/ UNCHANGED gpt_partitions
           \/ /\ ReadWorks(lun, sector_size)
              /\ gpt_partitions' = gpt_partitions \cup {Partition(i) : i \in InSector}
    BY <1>1, <1>3 DEF LoadEntries, Return
  <2>2. ASSUME BehindFirst, NEW p \in gpt_partitions'
        PROVE  p \in gpt_partitions \/ p.lun < Len(disk[First])
    <3>1. idx = 1 /\ First = storage
      BY <1>1, <2>2, AtFirst DEF BehindFirst
    <3>2. ASSUME p \notin gpt_partitions PROVE p.lun = lun /\ LunThere(lun)
      BY <2>1, <2>2, <3>2 DEF Partition, ReadWorks
    <3> QED
      BY <3>1, <3>2 DEF LunThere
  <2>3. BehindFirst => idx = 1
    BY <1>1 DEF BehindFirst
  <2> QED
    BY <1>1, <2>1, <2>2, <2>3, NameGood
<1> QED
  BY <1>2, <1>3

\* An operation of a good list is one that the device can do.
LEMMA ExecuteWorks ==
  ASSUME Inv, TablesInv, GoodInv, ListGood, hpc = "op", idx <= Len(ops), Touches(ops[idx]),
         bad = 0
  PROVE  SizeOf(ops[idx]) = SectorSize[storage] /\ LunThere(ops[idx].lun)
<1> DEFINE o == ops[idx]
<1>1. /\ ListOK /\ idx \in Nat /\ idx >= 1 /\ idx \in DOMAIN ops
      /\ ops[1].k = "configure"
  <2>1. ListOK /\ idx \in Nat /\ idx >= 1
    BY DEF Inv, TypesInv, ListInv, Running
  <2> QED
    BY <2>1, ListLen DEF ListOK, ListGood
<1>2. o.k # "configure" /\ idx > 1
  BY <1>1 DEF Touches
<1>3. BehindFirst /\ Begun = idx - 1 /\ Begun >= 1
  BY <1>1, <1>2 DEF GoodInv, Running, Begun
<1>4. First \in Storages /\ Selected /\ All
  BY <1>2, <1>3 DEF BehindFirst
<1>5. StorageAt(idx) = storage
  <2>1. PICK c \in 1 .. Begun :
          /\ ops[c].k = "configure" /\ ops[c].storage = storage
          /\ \A j \in c + 1 .. Begun : ops[j].k # "configure"
    BY <1>4 DEF Selected
  <2>2. c \in 1 .. idx /\ \A j \in c + 1 .. idx : j \in c + 1 .. Begun \/ j = idx
    BY <1>1, <1>3
  <2>3. \A j \in c + 1 .. idx : ops[j].k # "configure"
    BY <1>2, <2>1, <2>2
  <2> QED
    BY <1>1, <2>1, <2>2, <2>3, StorageIs
<1>6. SectorSize[storage] # 0
  BY <1>1, <1>5, GoodAt, GptAssumption
<1>7. SizeFound(First) => sector_size = SectorSize[First]
  BY <1>3 DEF BehindFirst, SizeKnown
<1>8. CASE Deferred(o)
  <2>1. storage = First /\ SizeFound(First) /\ o.size = 0
    BY <1>1, <1>3, <1>5, <1>8, GoodAt DEF BehindFirst
  <2>2. PICK p \in gpt_partitions : Only(o, p)
    BY <1>1, <1>4, <1>8 DEF All, Resolved
  <2>3. o.lun < Len(disk[First])
    BY <1>3, <2>2 DEF Only, BehindFirst
  <2> QED
    BY <1>7, <2>1, <2>3 DEF SizeOf, LunThere
<1>9. CASE ~Deferred(o)
  <2>1. /\ o.lun < Len(disk[storage])
        /\ \/ o.size = SectorSize[storage]
           \/ o.size = 0 /\ SizeFound(First) /\ SectorSize[storage] = SectorSize[First]
    BY <1>1, <1>5, <1>9, GoodAt
  <2> QED
    BY <1>6, <1>7, <2>1 DEF SizeOf, LunThere
<1> QED
  BY <1>8, <1>9

LEMMA ExecuteGood == ASSUME Inv, TablesInv, GoodInv, Execute PROVE GoodInv'
<1>1. /\ hpc = "op" /\ idx <= Len(ops) /\ Touches(ops[idx])
      /\ UNCHANGED <<ops, storage, sector_size, gpt_partitions>>
      /\ bad' \in {bad, bad + 1} /\ bad \in Nat
      /\ \/ hpc' = "op" /\ idx' = idx + 1 /\ Effect(ops[idx])
         \/ /\ ReadFails(ops[idx].lun, SizeOf(ops[idx])) /\ hpc' = "end"
            /\ UNCHANGED <<disk, idx>>
  BY DEF Execute, ReadFails, ReadWorks, Return, Inv, TypesInv
<1>2. CASE hpc' = "op" /\ idx' = idx + 1 /\ Effect(ops[idx])
  <2>1. Shape' /\ \A s \in Storages : Len(disk'[s]) = Len(disk[s])
    BY <1>2, EffectShape DEF GoodInv
  <2>2. ops[idx].k # "configure"
    BY <1>1 DEF Touches
  <2> QED
    BY <1>1, <1>2, <2>1, <2>2, OpGood
<1>3. CASE /\ ReadFails(ops[idx].lun, SizeOf(ops[idx])) /\ hpc' = "end"
           /\ UNCHANGED <<disk, idx>>
  <2>1. bad' = 0 => ~ListGood
    BY <1>1, <1>3, ExecuteWorks DEF ReadFails
  <2> QED
    BY <1>1, <1>3, <2>1, EndGood
<1> QED
  BY <1>1, <1>2, <1>3

LEMMA SameShape ==
  ASSUME GoodInv, UNCHANGED disk
  PROVE  Shape' /\ \A s \in Storages : Len(disk'[s]) = Len(disk[s])
BY DEF GoodInv, Shape

LEMMA PassByGood == ASSUME Inv, TablesInv, GoodInv, PassBy PROVE GoodInv'
<1>1. /\ hpc = "op" /\ hpc' = "op" /\ idx' = idx + 1 /\ idx <= Len(ops)
      /\ ops[idx].k # "configure"
      /\ UNCHANGED <<ops, disk, storage, sector_size, gpt_partitions, bad>>
  BY DEF PassBy, Idle, runVars
<1> QED
  BY <1>1, SameShape, OpGood

LEMMA ResetGood == ASSUME Inv, TablesInv, GoodInv, Reset PROVE GoodInv'
<1>1. /\ hpc = "op" /\ idx <= Len(ops) /\ ops[idx].k # "configure" /\ bad \in Nat
      /\ UNCHANGED <<ops, disk, storage, sector_size, gpt_partitions>>
      /\ \/ hpc' = "op" /\ idx' = idx + 1 /\ bad' = bad
         \/ hpc' = "end" /\ idx' = idx /\ bad' = bad + 1
  BY DEF Reset, Return, Inv, TypesInv
<1>2. CASE hpc' = "op"
  BY <1>1, <1>2, SameShape, OpGood
<1>3. CASE hpc' = "end"
  BY <1>1, <1>3, EndGood
<1> QED
  BY <1>1, <1>2, <1>3

LEMMA FinishGood == ASSUME GoodInv, Finish PROVE GoodInv'
BY EndGood DEF Finish, Return, runVars

LEMMA StutterGood == ASSUME GoodInv, UNCHANGED vars PROVE GoodInv'
<1>1. /\ UNCHANGED <<ops, idx, hpc, ret, ufs, disk, storage, sector_size, gpt_partitions, entry, bad>>
  BY DEF vars, runVars, buildVars
<1>2. Shape' /\ ListGood' = ListGood /\ Running' = Running /\ Building' = Building
  BY <1>1, SameListGood DEF GoodInv, Shape, Running, Resolving, Loading, Building
<1>3. GoodListsRun'
  BY <1>1, <1>2 DEF GoodInv, GoodListsRun
<1>4. BehindFirst => BehindFirst'
  <2>1. All' = All /\ Begun' = Begun /\ First' = First /\ Loading' = Loading
    BY <1>1, SameList DEF Begun, First, Loading
  <2>2. Selected' = Selected
    BY <1>1, <2>1 DEF Selected
  <2>3. SizeFound(First)' = SizeFound(First) /\ SizeAhead' = SizeAhead
    BY <1>1, <2>1 DEF SizeFound, SizeAhead
  <2> QED
    BY <1>1, <2>1, <2>2, <2>3 DEF BehindFirst, SizeKnown
<1> QED
  BY <1>1, <1>2, <1>3, <1>4 DEF GoodInv

LEMMA StepGood == ASSUME Inv, TablesInv, GoodInv, [Next]_vars, ListReady' PROVE GoodInv'
<1>1. CASE Build /\ UNCHANGED runVars
  BY <1>1, BuildGood
<1>2. CASE Run
  BY <1>2, ConfigureGood, ProbeGood, ResolveNoneGood, ResolveGood, LoadHeaderGood,
     LoadEntriesGood, ExecuteGood, PassByGood, ResetGood, FinishGood DEF Run
<1>3. CASE UNCHANGED vars
  BY <1>3, StutterGood
<1> QED
  BY <1>1, <1>2, <1>3 DEF Next, Done

\* For every command line and every disk: a list whose names each
\* have one usable partition on the first storage, and whose addresses are on their
\* storages with the sector size they have, is executed to its end, unless a read or a
\* command fails for no good reason (firehose_execute_ops(), firehose_try_configure(),
\* gpt_load_tables(), gpt_find_by_name() in src/src).
THEOREM GoodListsAreRun == Spec => []GoodListsRun
<1>1. Inv /\ TablesInv /\ GoodInv /\ [Next]_vars /\ ListReady' => GoodInv'
  BY StepGood
<1>2. GoodInv => GoodListsRun
  BY DEF GoodInv
<1>3. Spec => Init /\ [][Next]_vars
  BY DEF Spec
<1> QED
  BY <1>1, <1>2, <1>3, InitGood, Invariance, ListsAreReady, PTL

=============================================================================
