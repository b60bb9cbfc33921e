-------------------------------- MODULE MCGpt --------------------------------
(* Gpt with command lines of verbs, files and builds on up to three physical    *)
(* partitions.                                                                  *)
EXTENDS Gpt

Opts == [storage |-> "ufs", programmer |-> TRUE, allow_missing |-> FALSE,
         allow_fusing |-> FALSE, skip_reset |-> FALSE]
Line(a)   == [args |-> a, opts |-> Opts]
OnNand(a) == [args |-> a, opts |-> [Opts EXCEPT !.storage = "nand"]]

P(n, s)  == [name |-> n, start |-> s, fits |-> TRUE]
G(parts) == [header |-> "gpt", parts |-> parts]
None     == [header |-> "none", parts |-> <<>>]
Invalid  == [header |-> "invalid", parts |-> <<>>]

TabA  == G(<<P("a", 1), P("", 0), P("b", 3)>>)
TabB  == G(<<P("b", 5)>>)
TabC  == G(<<[name |-> "c", start |-> 7, fits |-> FALSE], P("d", 8)>>)
TabA2 == G(<<P("b", 2), P("a", 4)>>)

\* Verbs: by name, by name on a physical partition, and by sector.
Verb(k, name, l, len) ==
  [t |-> k \o "-verb", k |-> k, good |-> TRUE, name |-> name, lun |-> l, start |-> 0,
   len |-> len, file |-> IF k = "write" THEN "img" ELSE NoFile, table |-> NoTable]
Named(k, n)      == Verb(k, n, -1, 0)
NamedAt(k, n, l) == Verb(k, n, l, 0)
Raw(l)    == [Verb("write", "", l, 0) EXCEPT !.start = 9]
NewTable  == [Raw(0) EXCEPT !.table = TabA2]
ResetVerb == [t |-> "reset"]
Loader(v, n) == [v EXCEPT !.file = n]

\* Files and their tags.
Tag(k, l, start, len) ==
  [k |-> k, good |-> TRUE, lun |-> l, start |-> start, len |-> len, size |-> 4096,
   label |-> "", file |-> IF k = "write" THEN "img" ELSE IF k = "patch" THEN "DISK" ELSE NoFile,
   there |-> TRUE, sparse |-> FALSE, header |-> TRUE, fits |-> TRUE, chunks |-> <<>>,
   table |-> NoTable]
Chunk(k, n)  == [kind |-> k, len |-> n]
File(t, s)   == [t |-> t, good |-> TRUE, tags |-> s]
Plain        == Tag("write", 0, 9, 2)
Missing      == [Plain EXCEPT !.there = FALSE]
Sec          == [Plain EXCEPT !.label = "secdata"]
Boot(n)      == [Plain EXCEPT !.label = n, !.lun = 1]
NoImage      == [Plain EXCEPT !.file = NoFile]
Sparse(s)    == [Plain EXCEPT !.sparse = TRUE, !.file = "sparse", !.chunks = s]
NotSparse(b) == [Plain EXCEPT !.sparse = TRUE, !.header = FALSE, !.fits = b]
Holes        == <<Chunk("raw", 2), Chunk("skip", 3), Chunk("fill", 1), Chunk("raw", 0)>>
FilePatch    == [Tag("patch", 0, 1, 1) EXCEPT !.file = "gpt_main0.bin"]
Page         == [Tag("read", 0, 4, 1) EXCEPT !.size = 2048]

\* Commands by name and by sector.
Verbs2 ==
  {Line(<<x, y>>) : x \in {Raw(0), Raw(1), Named("read", "a"), Named("erase", "b")},
     y \in {NamedAt("write", "b", 0), NamedAt("sha256", "b", 1), Named("write", "c"),
            Named("write", "d"), Named("read", "a"), Raw(2)}}
    \cup {Line(<<Named("write", "a"), NewTable>>), Line(<<NewTable, Named("read", "b")>>),
          Line(<<Raw(0), ResetVerb, Raw(1)>>),
          Line(<<Loader(Named("write", "a"), "xbl")>>),
          Line(<<Loader(NamedAt("write", "b", 0), "xbl")>>),
          Line(<<Loader(Raw(1), "sbl1"), Loader(Named("write", "a"), "xbl")>>),
          Line(<<Loader(NamedAt("write", "b", 0), "xbl_a"), Loader(Named("write", "a"), "sbl1"), ResetVerb>>),
          Line(<<Verb("read", "", 0, 0)>>), Line(<<[Raw(0) EXCEPT !.good = FALSE]>>),
          OnNand(<<Verb("erase", "", 0, 0), Named("read", "a")>>),
          OnNand(<<Verb("erase", "", 0, 0), File("read", <<Page>>)>>),
          OnNand(<<File("read", <<Page>>)>>)}

\* Files.
Programs ==
  {<<Plain, Tag("erase", 0, 4, 1)>>, <<Tag("erase", 0, 4, 0)>>, <<Plain, Missing>>,
   <<Sec>>, <<Boot("sbl1"), Boot("xbl")>>, <<NoImage, Sparse(Holes)>>,
   <<[Sparse(Holes) EXCEPT !.start = -5]>>, <<Sparse(<<Chunk("bad", 1)>>), Plain>>,
   <<[Sparse(Holes) EXCEPT !.size = 0]>>, <<NotSparse(TRUE)>>, <<NotSparse(FALSE)>>,
   <<Tag("patch", 0, 1, 1)>>}
Files ==
  {Line(<<File("program", p), File("patch", <<FilePatch, Tag("patch", 0, 1, 1), Plain>>)>>) :
     p \in Programs}
    \cup {[Line(<<File("program", <<Missing, Sec>>)>>) EXCEPT
             !.opts = [@ EXCEPT !.allow_missing = TRUE, !.allow_fusing = TRUE, !.skip_reset = TRUE]],
          Line(<<File("program", <<Plain>>), Named("read", "a")>>),
          Line(<<File("ufs", <<>>), File("program", <<Plain>>)>>),
          OnNand(<<File("ufs", <<>>)>>),
          [Line(<<Raw(0)>>) EXCEPT !.opts = [@ EXCEPT !.programmer = FALSE]]}

\* A contents.xml with two flavors for UFS and none for NAND, images in either flavor and
\* beside it, and patches for all storages.
At(l, start, size, file) ==
  [Tag("write", l, start, 1) EXCEPT !.size = size, !.file = file, !.label = "xbl"]
Entry(type, s, f, dir, name, tags) ==
  [type |-> type, storage |-> s, flavor |-> f, dir |-> dir, name |-> name, tags |-> tags,
   opens |-> TRUE, xml |-> TRUE, good |-> TRUE, lite |-> FALSE]
Programmer(type) == Entry(type, "none", "", "p", "prog", <<>>)
Patches  == Entry("patch", "none", "", "q", "patch", <<FilePatch>>)
Firmware == <<Entry("other", "ufs", "b", "b", "boot", <<>>), Entry("other", "none", "a", "a", "boot", <<>>),
              Entry("program", "ufs", "b", "b", "raw", <<At(0, 2, 4096, "boot"), At(0, 4, 4096, "rest")>>),
              Entry("program", "ufs", "a", "a", "raw", <<At(0, 3, 4096, "boot"), At(0, 5, 4096, "rest")>>),
              Entry("program", "nand", "", "n", "raw", <<At(0, 1, 2048, "here")>>), Patches>>
Meta(e) == [entries |-> e, flavors |-> {"a", "b"}, names |-> {"boot", "rest", "here"},
            files |-> {"a/boot", "b/boot", "a/rest", "b/rest"}]
Contents(e, pattern) == [t |-> "flash", kind |-> "contents", good |-> TRUE, build |-> Meta(e), pattern |-> pattern]

Patterns == {<<>>, <<<<"ufs">>>>, <<<<"nand">>>>, <<<<"a">>>>, <<<<"ufs", "b">>>>, <<<<"a">>, <<"b">>>>,
             <<<<"nand">>, <<"a">>>>, <<<<"ufs", "c">>>>}
Programmers == {<<>>, <<Programmer("programmer")>>, <<[Programmer("programmer") EXCEPT !.lite = TRUE]>>,
                <<[Programmer("config") EXCEPT !.xml = FALSE], Programmer("config")>>,
                <<[Programmer("config") EXCEPT !.good = FALSE], Programmer("programmer")>>}
Unread == <<[Patches EXCEPT !.opens = FALSE]>>

\* A flashmap with one layout or two.
Part(m, size) == [memory |-> m, files |-> <<File("program", <<At(0, 7, size, "img")>>), File("patch", <<FilePatch>>)>>]
Layout(n, parts) == [name |-> n, programmer |-> TRUE, parts |-> parts]
Map(layouts, n, s) ==
  [t |-> "flash", kind |-> "flashmap", good |-> TRUE, build |-> [layouts |-> layouts],
   pattern |-> [layout |-> n, storages |-> s]]
Both == Layout("both", <<Part("ufs", 4096), Part("nand", 2048)>>)
Odd  == Layout("odd", <<Part("ufs", 4096), Part("odd", 512)>>)
Bare == [Layout("bare", <<Part("ufs", 4096)>>) EXCEPT !.programmer = FALSE]
Maps == {Map(<<Both>>, "", s) : s \in SUBSET {"ufs", "nand"} \cup {{"odd"}}}
          \cup {Map(<<Both, Odd>>, n, {"ufs"}) : n \in {"", "both", "odd"}}
          \cup {Map(<<Odd>>, "", {"nand"}), Map(<<Bare>>, "", {}), Map(<<Layout("no", <<>>)>>, "", {})}

One    == Contents(<<Programmer("programmer")>> \o Firmware, <<<<"a">>>>)
Builds2 ==
  {Line(<<Contents(<<Programmer("programmer")>> \o Firmware, p)>>) : p \in Patterns}
    \cup {Line(<<Contents(p \o SubSeq(Firmware, 1, 4), <<<<"a">>>>)>>) : p \in Programmers}
    \cup {Line(<<Contents(<<Programmer("programmer")>> \o Firmware \o Unread, <<<<"a">>>>)>>),
          Line(<<Contents(<<Programmer("programmer"), Firmware[5]>>, <<>>)>>)}
    \cup {Line(<<m>>) : m \in Maps}
    \cup {Line(<<One, Named("read", "a")>>), Line(<<Map(<<Both>>, "", {}), Named("read", "b")>>),
          Line(<<One, ResetVerb>>), Line(<<[One EXCEPT !.good = FALSE]>>)}

AllLines == Verbs2 \cup Files \cup Builds2

AllDisks ==
  {[ufs |-> d, nand |-> <<None>>] :
     d \in {<<TabA>>, <<TabA, TabB>>, <<None, TabB, TabA>>, <<TabA, None, TabC>>,
            <<TabB, Invalid>>, <<None>>, <<TabA2, TabC>>}}

SizeOn == [ufs |-> 4096, nand |-> 2048]

BothSizes == <<512, 4096>>
=============================================================================
