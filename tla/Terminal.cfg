SPECIFICATION Spec
CONSTANTS
  Tty = {p1, p2}
  Letters = {a}
  INPUT_BUF_SIZE = 3
  UINT = 6
  Requests = {2}
  BATCH = 1
  Readers = {p1}
  Writers = {p2}
  Mortals = {p1}
  Words = {"a", "b", "cd"}
  MAXARGS = 3
  NProcs = 6
  NFD = 5
  Scripts <- MCScripts
  Extra = 3
  MaxBrk = 10
  MinCore = 4
  Sizes = {2, 3}
  FSSIZE = 24
  BSIZE = 4
  BPB = 24
  IPB = 2
  NINODES = 5
  LOGBLOCKS = 2
  NDIRECT = 2
  NINDIRECT = 3
  DE = 1
  FileSizes <- MCFileSizes
INVARIANTS
  ConsoleInv
  ShellInv
  ParserAgrees
  MallocInv
  MkfsInv
PROPERTIES
  LineQueueSpec
  EofEndsOneRead
  WriterReturns
  PromptReturns
VIEW View
