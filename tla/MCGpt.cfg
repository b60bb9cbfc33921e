SPECIFICATION Spec
CONSTANTS
  CommandLines <- AllLines
  Storages = {"ufs", "nand"}
  Disks <- AllDisks
  SectorSize <- SizeOn
  Nand = {"nand"}
  Sizes <- BothSizes
  PerSector = 2
  NoFile = NoFile
  NoTable = NoTable
  MaxBad = 2
INVARIANTS ResolvedFirst GoodListsRun ListAsAsked
PROPERTIES NamedPlace
