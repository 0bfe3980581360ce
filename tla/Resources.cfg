SPECIFICATION Spec
CONSTANTS
  hello = hello
  broken = broken
  cut = cut
  notes = notes
  File = {hello, broken, cut}
  NoFile = NoFile
  NULL = NULL
  NENTRY = 3
  NSTD = 1
  PGSIZE = 2
  NPTEENTRY = 4
  NPDEENTRY = 2
  STACK <- StackPages
  Slot = {p1, p2}
  First = p1
  Elf <- Aligned
  POOL <- Sizes
  KSTACKPAGE = 2
  MaxLost = 1
INVARIANTS PagesCounted  FilesCounted ImageLoaded
