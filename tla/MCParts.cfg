SPECIFICATION Spec
CONSTANTS
  Clients = {c1, c2, c3}
  NUM = 8
  NoClient = NoClient
  Users = {u1, u2}
  NoUser = NoUser
  Mortal = {u1}
  Letters = {"x"}
  INPUT_BUF = 3
  UART_TX_BUF_SIZE = 2
  IndexWrap = 6
  MaxCount = 2
  Procs = {1, 2}
  NPAGES = 18
  PGSIZE = 2
  FANOUT = 2
  UserTop = 4
  SizeWrap = 32
  MaxArgs = 1
  MaxPipes = 1
  MAX_HEAP = 22
  CHUNKSIZE = 6
  MaxRequest = 5
  Break0 = 2
  BreakMax = 12
  CORE = 4
  MaxUnits = 4
  Inserters = {i1, i2}
  Workers = {w1, w2}
  Conns = {d1, d2, d3}
  NoConn = NoConn
  N = 2
  CountBound = 4
  Children = {k1, k2, k3}
  NoChild = NoChild
  Words = {"a"}
  MAXARGS = 3
  MaxTokens = 5
  NSHPROC = 6
  NFILES = 5
  NFDS = 5
  Lines <- TypedLines
  Writers = {f1, f2}
  NDIRECT = 1
  NINDIRECT = 3
  BSIZE = 2
  BPB = 1
  MAXOPBLOCKS = 10
  FSBLOCKS = 5
  Lengths = {1, 7}
  MaxWrites = 2
  NLOG = 3
  NINODES = 8
  FSSIZE = 40
  IPB = 4
  BPBITMAP = 32
  DIRENT = 1
  MaxArgs2 = 3
  HostSizes = {0, 3, 8}
  CPGSIZE = 2
  USERPAGES = 3
  ADDRWRAP = 8
  WORDSIZE = 2
  MaxLen = 5
  Alphabet = {"a", "b", "nl"}
  NL = "nl"
  Patterns <- SomePatterns
  GREPBUF = 4
  MaxFile = 4
  MaxNum = 10
  Harts = {h0, h1}
  Hart0 = h0
  Irqs = {"uart"}
  NoIrq = "none"
  Sleepers = {s1}
  TickWrap = 4
  Durations <- Naps
  MaxFires = 3
  EchoThreads = {t1, t2}
  MAXLINE = 3
  RIO_BUFSIZE = 2
  MaxSent = 4
  Clients2 = {e1, e2, e3}
  Polite = {e1}
  FD_SETSIZE = 2
  MaxLines = 2
  Browsers = {b1, b2}
  MaxHeaders = 1
  MEMSIZE = 4
  NAMESIZE = 2
  MaxName = 3
  MaxPath = 5
  INTBITS = 5
  Formats <- SomeFormats
  MaxNodes = 5
  FindNames = {"a", "b"}
  STACKFRAMES = 3
  MaxRemoved = 1
  MaxText = 5
  WCBUF = 2
  MAXARG = 4
  Given = 1
  MaxFails = 2
  Kids4 = {q1, q2, q3}
  Pids = {q1, q2}
  NoPid = NoPid
  MaxLine = 4
INVARIANTS
  DiskServes
  ConsoleServes
  TicksSound
  MemorySound
  AllocatorsSound
  ReaperSound
  FileSound
  ServersSound
  ProgramsExact
  ChildrenReaped
  OnlyStaleParentsDeadlock
PROPERTIES
  ConsoleImplementsLines
  SbufImplementsFifo
  FileImplementsBytes
CHECK_DEADLOCK FALSE
